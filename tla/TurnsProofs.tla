------------------------------ MODULE TurnsProofs -----------------------------
(***************************************************************************)
(* What `logs` makes of a session's log, for a log of any length and every *)
(* provider's rows: the turns are the log, cut where work was asked for,   *)
(* and the reply, the end and the pending calls of the newest one are      *)
(* those of the records since.                                             *)
(***************************************************************************)
EXTENDS ConversationTurns, SequenceTheorems, FiniteSetTheorems, TLAPS

(***************************************************************************)
(* Sequences, joined and folded.                                           *)
(***************************************************************************)
Cat(a, b) == a \o b
Cats  == INSTANCE FoldLemmas WITH Op <- Cat
Turns == INSTANCE FoldLemmas WITH Op <- AddRecord

\* A set of places has a last.
LEMMA LastPlace ==
  ASSUME NEW n \in Nat, NEW P \in SUBSET (1 .. n), P # {}
  PROVE  Max(P) \in P /\ \A i \in P : i <= Max(P)
<1>1. \E x \in P : \A y \in P : x >= y
  BY Turns!SomeLast
<1>2. \A x, y \in P : x >= y <=> y <= x
  OBVIOUS
<1>3. QED
  BY <1>1, <1>2 DEF Max

\* What FlattenSeq recurs by.
IsFlatten(f, q) == f = [i \in 1 .. Len(q) |-> IF i = 1 THEN q[i] ELSE f[i - 1] \o q[i]]

\* FlattenSeq appends one sequence after the other.
LEMMA FlattenSteps ==
  ASSUME NEW E, NEW q \in Seq(Seq(E))
  PROVE  \E g : /\ g[0] = <<>>
                /\ \A k \in 0 .. Len(q) : g[k] \in Seq(E)
                /\ \A k \in 1 .. Len(q) : g[k] = g[k - 1] \o q[k]
                /\ FlattenSeq(q) = g[Len(q)]
<1> DEFINE N == Len(q)
<1>1. N \in Nat /\ N = Len(q) /\ DOMAIN q = 1 .. N /\ \A k \in 1 .. N : q[k] \in Seq(E)
  OBVIOUS
<1>2. PICK g : /\ g[0] = <<>>
               /\ \A k \in 1 .. Len(q) : g[k] = Cat(g[k - 1], q[k])
               /\ Cats!Folded(<<>>, q) = g[Len(q)]
  BY Cats!FoldLeftSteps
<1>3. \A k \in 1 .. N : g[k] = g[k - 1] \o q[k]
  BY <1>2 DEF Cat
<1>4. \A k \in 0 .. N : g[k] \in Seq(E)
  <2> DEFINE T == {k \in 0 .. N : g[k] \in Seq(E)}
  <2>1. 0 \in T
    <3>1. <<>> \in Seq(E)
      OBVIOUS
    <3>2. g[0] \in Seq(E)
      BY <1>2, <3>1
    <3>3. 0 \in 0 .. N
      BY <1>1
    <3>4. QED
      BY <3>2, <3>3
  <2>2. ASSUME NEW k \in 1 .. N, k - 1 \in T
        PROVE  k \in T
    <3>1. k \in 0 .. N /\ q[k] \in Seq(E) /\ g[k] = g[k - 1] \o q[k]
      BY <1>1, <1>3
    <3>2. g[k - 1] \in Seq(E)
      BY <2>2
    <3>3. g[k] \in Seq(E)
      BY <3>1, <3>2
    <3>4. QED
      BY <3>1, <3>3
  <2> HIDE DEF T
  <2>3. 0 .. N \subseteq T
    BY <1>1, <2>1, <2>2, Cats!UpToFollows
  <2>4. QED
    BY <2>3 DEF T
<1>5. CASE N = 0
  <2>1. q = <<>> /\ FlattenSeq(q) = q
    BY <1>5 DEF FlattenSeq
  <2>2. QED
    BY <1>1, <1>2, <1>3, <1>4, <1>5, <2>1
<1>6. CASE N # 0
  <2> DEFINE f == CHOOSE f : IsFlatten(f, q)
             h == [i \in 1 .. N |-> g[i]]
  <2>1. FlattenSeq(q) = f[N]
    BY <1>6 DEF FlattenSeq, IsFlatten
  <2>2. IsFlatten(h, q)
    <3>1. ASSUME NEW i \in 1 .. N
          PROVE  h[i] = IF i = 1 THEN q[i] ELSE h[i - 1] \o q[i]
      <4>1. h[i] = g[i - 1] \o q[i] /\ q[i] \in Seq(E)
        BY <1>1, <1>3
      <4>2. CASE i = 1
        <5>1. h[i] = <<>> \o q[i]
          <6>1. i - 1 = 0
            BY <4>2
          <6>2. g[i - 1] = <<>>
            BY <1>2, <6>1
          <6>3. QED
            BY <4>1, <6>2
        <5>2. \A w \in Seq(E) : <<>> \o w = w
          OBVIOUS
        <5>3. QED
          BY <4>1, <4>2, <5>1, <5>2
      <4>3. CASE i # 1
        <5>1. i - 1 \in 1 .. N
          BY <1>1, <4>3
        <5>2. h[i - 1] = g[i - 1]
          BY <5>1
        <5>3. QED
          BY <4>1, <4>3, <5>2
      <4>4. QED
        BY <4>2, <4>3
    <3>2. QED
      BY <3>1 DEF IsFlatten
  <2>3. IsFlatten(f, q)
    BY <2>2
  <2> HIDE DEF f, h
  <2>4. \A i \in 1 .. N : f[i] = IF i = 1 THEN q[i] ELSE f[i - 1] \o q[i]
    BY <2>3 DEF IsFlatten
  <2> DEFINE T == {k \in 0 .. N : k # 0 => f[k] = g[k]}
  <2>5. 0 \in T
    BY <1>1
  <2>6. ASSUME NEW k \in 1 .. N, k - 1 \in T
        PROVE  k \in T
    <3>1. /\ k \in 0 .. N /\ q[k] \in Seq(E) /\ g[k] = g[k - 1] \o q[k]
          /\ f[k] = IF k = 1 THEN q[k] ELSE f[k - 1] \o q[k]
      BY <1>1, <1>3, <2>4
    <3>2. CASE k = 1
      <4>1. g[k] = <<>> \o q[k]
        <5>1. k - 1 = 0
          BY <3>2
        <5>2. g[k - 1] = <<>>
          BY <1>2, <5>1
        <5>3. QED
          BY <3>1, <5>2
      <4>2. \A w \in Seq(E) : <<>> \o w = w
        OBVIOUS
      <4>3. f[k] = g[k]
        BY <3>1, <3>2, <4>1, <4>2
      <4>4. QED
        BY <3>1, <4>3
    <3>3. CASE k # 1
      <4>1. f[k - 1] = g[k - 1]
        <5>1. k - 1 # 0
          BY <1>1, <3>3
        <5>2. QED
          BY <2>6, <5>1
      <4>2. f[k] = g[k]
        BY <3>1, <3>3, <4>1
      <4>3. QED
        BY <3>1, <4>2
    <3>4. QED
      BY <3>2, <3>3
  <2> HIDE DEF T
  <2>7. 0 .. N \subseteq T
    BY <1>1, <2>5, <2>6, Cats!UpToFollows
  <2>8. f[N] = g[N]
    BY <1>1, <1>6, <2>7 DEF T
  <2>9. QED
    BY <1>2, <1>3, <1>4, <2>1, <2>8
<1>7. QED
  BY <1>5, <1>6

\* One more sequence goes to the end.
LEMMA FlattenAppend ==
  ASSUME NEW E, NEW q \in Seq(Seq(E)), NEW x \in Seq(E)
  PROVE  /\ FlattenSeq(q) \in Seq(E)
         /\ FlattenSeq(Append(q, x)) = FlattenSeq(q) \o x
<1> DEFINE N == Len(q)
           r == Append(q, x)
<1>1. /\ N = Len(q) /\ N \in Nat /\ r \in Seq(Seq(E)) /\ Len(r) = N + 1 /\ r[N + 1] = x
      /\ \A k \in 1 .. N : r[k] = q[k]
  OBVIOUS
<1>2. PICK g : /\ g[0] = <<>>
               /\ \A k \in 0 .. Len(q) : g[k] \in Seq(E)
               /\ \A k \in 1 .. Len(q) : g[k] = g[k - 1] \o q[k]
               /\ FlattenSeq(q) = g[Len(q)]
  BY FlattenSteps
<1>3. PICK h : /\ h[0] = <<>>
               /\ \A k \in 0 .. Len(r) : h[k] \in Seq(E)
               /\ \A k \in 1 .. Len(r) : h[k] = h[k - 1] \o r[k]
               /\ FlattenSeq(r) = h[Len(r)]
  BY <1>1, FlattenSteps
<1> HIDE DEF r
<1> DEFINE T == {k \in 0 .. N : h[k] = g[k]}
<1>4. 0 \in T
  BY <1>1, <1>2, <1>3
<1>5. ASSUME NEW k \in 1 .. N, k - 1 \in T
      PROVE  k \in T
  <2>1. k \in 0 .. N /\ k \in 1 .. N + 1 /\ r[k] = q[k] /\ h[k - 1] = g[k - 1]
    BY <1>1, <1>5
  <2>2. h[k] = h[k - 1] \o r[k] /\ g[k] = g[k - 1] \o q[k]
    BY <1>1, <1>2, <1>3, <2>1
  <2>3. h[k] = g[k]
    BY <2>1, <2>2
  <2>4. QED
    BY <2>1, <2>3
<1> HIDE DEF T
<1>6. 0 .. N \subseteq T
  BY <1>1, <1>4, <1>5, Cats!UpToFollows
<1>7. h[N] = g[N]
  <2>1. N \in T
    BY <1>1, <1>6
  <2>2. QED
    BY <2>1 DEF T
<1>8. h[N + 1] = h[N] \o r[N + 1]
  <2>1. N + 1 \in 1 .. Len(r) /\ (N + 1) - 1 = N
    BY <1>1
  <2>2. h[N + 1] = h[(N + 1) - 1] \o r[N + 1]
    BY <1>3, <2>1
  <2>3. QED
    BY <2>1, <2>2
<1>9. QED
  BY <1>1, <1>2, <1>3, <1>7, <1>8 DEF r

-------------------------------------------------------------------------------
(***************************************************************************)
(* The rows of the providers.                                              *)
(***************************************************************************)
\* What a row that is no result says.
Sayings == {<<>>, <<"text">>, <<"call">>, <<"call", "call">>, <<"text", "call">>, <<"thinking">>,
            <<"prompt">>, <<"context">>, <<"call", "result">>}

RecOK(v, row) ==
  /\ v = Rec(v.entries, v.starts, v.ends) /\ v.starts \in BOOLEAN /\ v.ends \in BOOLEAN
  /\ row = "result" => v.entries = <<"result">>
  /\ row = "blank" => v.entries = <<>>
  /\ row \notin {"result", "blank"} => v.entries \in Sayings

RowsOK(f) == \A row \in DOMAIN f : RecOK(f[row], row)

LEMMA JoinedRows ==
  ASSUME NEW f, NEW g, RowsOK(f), RowsOK(g)
  PROVE  RowsOK(f ++ g)
<1>1. /\ DOMAIN (f ++ g) = DOMAIN f \cup DOMAIN g
      /\ \A row \in DOMAIN (f ++ g) : (f ++ g)[row] = IF row \in DOMAIN f THEN f[row] ELSE g[row]
  BY DEF ++
<1>2. QED
  BY <1>1 DEF RowsOK

Finishing(e) == Rec(e, FALSE, TRUE)

\* Whatever it starts or ends, a row that is no result may say this.
Say(e) == \A row : row # "result" /\ row # "blank" =>
            RecOK(Plain(e), row) /\ RecOK(Asking(e), row) /\ RecOK(Finishing(e), row)

LEMMA SayingsAreOK ==
  /\ Say(<<>>) /\ Say(<<"text">>) /\ Say(<<"call">>) /\ Say(<<"call", "call">>)
  /\ Say(<<"text", "call">>) /\ Say(<<"thinking">>) /\ Say(<<"prompt">>) /\ Say(<<"context">>)
  /\ Say(<<"call", "result">>)
<1>1. ASSUME NEW e \in Sayings
      PROVE  Say(e)
  BY DEF Say, RecOK, Rec, Plain, Asking, Finishing
<1>2. QED
  BY <1>1 DEF Sayings

LEMMA BasicRows == RowsOK(Blocks) /\ RowsOK(Results) /\ RowsOK(UserRows)
<1>1. RowsOK(Blocks)
  <2>1. /\ RecOK(Plain(<<"text">>), "text") /\ RecOK(Plain(<<"call">>), "call")
        /\ RecOK(Plain(<<"call", "call">>), "calls") /\ RecOK(Plain(<<"text", "call">>), "spoken")
        /\ RecOK(Plain(<<"thinking">>), "thought")
    BY SayingsAreOK DEF Say
  <2>2. QED
    BY <2>1 DEF RowsOK, Blocks
<1>2. RowsOK(Results)
  <2>1. RecOK(Plain(<<"result">>), "result") /\ RecOK(Plain(<<>>), "blank")
    BY DEF Plain, RecOK, Rec
  <2>2. QED
    BY <2>1 DEF RowsOK, Results
<1>3. RowsOK(UserRows)
  <2>1. RecOK(Asking(<<"prompt">>), "prompt") /\ RecOK(Plain(<<"context">>), "injected")
    BY SayingsAreOK DEF Say
  <2>2. QED
    BY <2>1 DEF RowsOK, UserRows
<1>4. QED
  BY <1>1, <1>2, <1>3

LEMMA SomeBlocks ==
  ASSUME NEW S, S \subseteq DOMAIN Blocks
  PROVE  RowsOK([r \in S |-> Blocks[r]])
BY BasicRows DEF RowsOK

LEMMA AllRowsOK == \A p \in DOMAIN RowsOf : RowsOK(RowsOf[p])
<1>1. /\ RecOK(Asking(<<"context">>), "notification") /\ RecOK(Finishing(<<"text">>), "reply")
      /\ RecOK(Finishing(<<>>), "ended") /\ RecOK(Asking(<<>>), "started")
      /\ RecOK(Plain(<<"context">>), "mark")
      /\ RecOK(Asking(<<"prompt">>), "prompt") /\ RecOK(Plain(<<"call", "result">>), "tool")
  BY SayingsAreOK DEF Say
<1>2. RowsOK([notification |-> Asking(<<"context">>), reply |-> Finishing(<<"text">>),
              ended |-> Finishing(<<>>)])
  BY <1>1 DEF RowsOK
<1>3. RowsOK([started |-> Asking(<<>>), ended |-> Finishing(<<>>)])
  BY <1>1 DEF RowsOK
<1>4. RowsOK([mark |-> Plain(<<"context">>), ended |-> Finishing(<<>>)])
  BY <1>1 DEF RowsOK
<1>5. RowsOK([prompt |-> Asking(<<"prompt">>), reply |-> Finishing(<<"text">>)])
  BY <1>1 DEF RowsOK
<1>6. RowsOK([ended |-> Finishing(<<>>)])
  BY <1>1 DEF RowsOK
<1>7. RowsOK([prompt |-> Asking(<<"prompt">>), tool |-> Plain(<<"call", "result">>),
              ended |-> Finishing(<<>>)])
  BY <1>1 DEF RowsOK
<1>8. /\ {"text", "call", "thought"} \subseteq DOMAIN Blocks
      /\ {"text", "call"} \subseteq DOMAIN Blocks
      /\ {"text", "call", "spoken"} \subseteq DOMAIN Blocks
  BY DEF Blocks
<1>9. RowsOK(ClaudeRows)
  BY <1>2, BasicRows, JoinedRows DEF ClaudeRows, Finishing, Ended
<1>10. RowsOK(CodexRows)
  BY <1>3, <1>8, SomeBlocks, BasicRows, JoinedRows DEF CodexRows, Finishing, Ended
<1>11. RowsOK(CodebuddyRows)
  BY <1>4, <1>8, SomeBlocks, BasicRows, JoinedRows DEF CodebuddyRows, Finishing, Ended
<1>12. RowsOK(PiRows)
  BY <1>5, BasicRows, JoinedRows DEF PiRows, Finishing
<1>13. RowsOK(DshRows)
  BY <1>6, BasicRows, JoinedRows DEF DshRows, Finishing, Ended
<1>14. RowsOK(OpencodeRows)
  BY <1>7, <1>8, SomeBlocks, JoinedRows DEF OpencodeRows, Finishing, Ended
<1> HIDE DEF RowsOK, ClaudeRows, CodexRows, CodebuddyRows, PiRows, DshRows, OpencodeRows
<1>15. QED
  BY <1>9, <1>10, <1>11, <1>12, <1>13, <1>14 DEF RowsOf

-------------------------------------------------------------------------------
(***************************************************************************)
(* The loop of turns().                                                    *)
(***************************************************************************)
Kind == {"text", "call", "result", "prompt", "context", "thinking"}

Spoken(r) == \/ r.row = "result" /\ r.entries = <<"result">>
             \/ r.row = "blank" /\ r.entries = <<>>
             \/ r.row \notin {"result", "blank"} /\ r.entries \in Sayings

\* Records of a log, as far as turns look at them.
AreRecords(E) == \A r \in E : r.entries \in Seq(Kind) /\ r.starts \in BOOLEAN /\ r.ends \in BOOLEAN

TurnOf(E)   == [records : Seq(E), complete : BOOLEAN]
Opens(T, r) == T = <<>> \/ (r.starts /\ (Last(T).complete \/ HasOutput(Last(T))))
NewTurn(r)      == [records |-> <<r>>, complete |-> r.ends]
Longer(w, r)  == [records |-> Append(w.records, r), complete |-> w.complete \/ r.ends]

LEMMA FrontLast ==
  ASSUME NEW E, NEW T \in Seq(E), T # <<>>
  PROVE  /\ Front(T) \in Seq(E) /\ Last(T) \in E
         /\ Len(Front(T)) = Len(T) - 1 /\ Len(T) \in Nat \ {0}
         /\ T = Append(Front(T), Last(T))
         /\ \A t \in 1 .. Len(T) - 1 : Front(T)[t] = T[t]
<1>1. Len(T) \in Nat \ {0}
  OBVIOUS
<1>2. Last(T) = T[Len(T)] /\ Front(T) = SubSeq(T, 1, Len(T) - 1)
  BY DEF Front, Last
<1>3. /\ SubSeq(T, 1, Len(T) - 1) \in Seq(E) /\ Len(SubSeq(T, 1, Len(T) - 1)) = Len(T) - 1
      /\ \A t \in 1 .. Len(T) - 1 : SubSeq(T, 1, Len(T) - 1)[t] = T[t]
  <2>1. 1 \in 1 .. Len(T) + 1 /\ Len(T) - 1 \in 0 .. Len(T)
    BY <1>1
  <2>2. /\ SubSeq(T, 1, Len(T) - 1) \in Seq(E)
        /\ Len(SubSeq(T, 1, Len(T) - 1)) = IF 1 <= Len(T) - 1 THEN Len(T) - 1 - 1 + 1 ELSE 0
        /\ \A i \in 1 .. Len(T) - 1 - 1 + 1 : SubSeq(T, 1, Len(T) - 1)[i] = T[1 + i - 1]
    BY <2>1, SubSeqProperties
  <2>3. Len(T) - 1 - 1 + 1 = Len(T) - 1 /\ \A i \in 1 .. Len(T) - 1 : 1 + i - 1 = i
    BY <1>1
  <2> DEFINE q == SubSeq(T, 1, Len(T) - 1)
             n == Len(T)
  <2>4. Len(q) = (IF 1 <= n - 1 THEN n - 1 - 1 + 1 ELSE 0) /\ n \in Nat \ {0}
    BY <1>1, <2>2
  <2> HIDE DEF q, n
  <2>5. Len(q) = n - 1
    BY <2>4
  <2>6. Len(SubSeq(T, 1, Len(T) - 1)) = Len(T) - 1
    BY <2>5 DEF q, n
  <2>7. \A i \in 1 .. Len(T) - 1 : SubSeq(T, 1, Len(T) - 1)[i] = T[i]
    BY <2>2, <2>3
  <2>8. QED
    BY <2>2, <2>6, <2>7
<1>4. T[Len(T)] \in E
  BY <1>1
<1>5. T = Append(SubSeq(T, 1, Len(T) - 1), T[Len(T)])
  BY <1>1
<1>6. QED
  BY <1>1, <1>2, <1>3, <1>4, <1>5

LEMMA LastOfAppend ==
  ASSUME NEW E, NEW T \in Seq(E), NEW x \in E
  PROVE  /\ Last(Append(T, x)) = x /\ Append(T, x) \in Seq(E) /\ Append(T, x) # <<>>
         /\ Len(Append(T, x)) = Len(T) + 1 /\ Len(T) \in Nat
         /\ \A t \in 1 .. Len(T) : Append(T, x)[t] = T[t]
BY DEF Last

\* A record opens a turn or goes to the last one.
LEMMA AddIs ==
  ASSUME NEW E, AreRecords(E), NEW T \in Seq(TurnOf(E)), NEW r \in E
  PROVE  /\ NewTurn(r) \in TurnOf(E)
         /\ Opens(T, r) => AddRecord(T, r) = Append(T, NewTurn(r))
         /\ ~Opens(T, r) => /\ T # <<>> /\ Longer(Last(T), r) \in TurnOf(E)
                            /\ AddRecord(T, r) = Append(Front(T), Longer(Last(T), r))
<1>1. r.starts \in BOOLEAN /\ r.ends \in BOOLEAN
  BY DEF AreRecords
<1>2. NewTurn(r) \in TurnOf(E)
  BY <1>1 DEF NewTurn, TurnOf
<1>3. CASE Opens(T, r)
  <2>1. AddRecord(T, r) = Append(T, [records  |-> Append(<<>>, r), complete |-> FALSE \/ r.ends])
    BY <1>3 DEF Opens, AddRecord
  <2>2. Append(<<>>, r) = <<r>> /\ (FALSE \/ r.ends) = r.ends
    BY <1>1
  <2>3. QED
    BY <1>2, <1>3, <2>1, <2>2 DEF NewTurn
<1>4. CASE ~Opens(T, r)
  <2>1. T # <<>>
    BY <1>4 DEF Opens
  <2>2. AddRecord(T, r) = Append(Front(T), Longer(Last(T), r))
    BY <1>4 DEF Opens, AddRecord, Longer
  <2>3. Last(T) \in TurnOf(E)
    BY <2>1, FrontLast
  <2>4. Longer(Last(T), r) \in TurnOf(E)
    BY <1>1, <2>3 DEF Longer, TurnOf
  <2>5. QED
    BY <1>2, <1>4, <2>1, <2>2, <2>4
<1>5. QED
  BY <1>3, <1>4

\* The turns after each record.
Grow(g, R) == g[0] = <<>> /\ \A k \in 1 .. Len(R) : g[k] = AddRecord(g[k - 1], R[k])

LEMMA TurnsGrow ==
  ASSUME NEW E, NEW R \in Seq(E)
  PROVE  \E g : Grow(g, R) /\ TurnsOf(R) = g[Len(R)]
<1>1. Turns!Folded(<<>>, R) = FoldLeft(AddRecord, <<>>, R)
  BY DEF Turns!Folded, FoldLeft, Turns!FoldLeft, MapThenFoldSet, Turns!MapThenFoldSet,
         Max, Turns!Max
<1>2. \E g : /\ g[0] = <<>>
             /\ \A k \in 1 .. Len(R) : g[k] = AddRecord(g[k - 1], R[k])
             /\ Turns!Folded(<<>>, R) = g[Len(R)]
  BY Turns!FoldLeftSteps
<1>3. QED
  BY <1>1, <1>2 DEF Grow, TurnsOf

\* After a record there is a turn.
LEMMA TurnsTyped ==
  ASSUME NEW E, AreRecords(E), NEW R \in Seq(E), NEW g, Grow(g, R)
  PROVE  \A k \in 0 .. Len(R) : g[k] \in Seq(TurnOf(E)) /\ (k # 0 => g[k] # <<>>)
<1> DEFINE OK(k) == g[k] \in Seq(TurnOf(E)) /\ (k # 0 => g[k] # <<>>)
           T == {k \in 0 .. Len(R) : OK(k)}
<1>1. Len(R) \in Nat /\ \A k \in 1 .. Len(R) : R[k] \in E
  OBVIOUS
<1>2. 0 \in T
  <2>1. <<>> \in Seq(TurnOf(E)) /\ g[0] = <<>>
    BY DEF Grow
  <2>2. OK(0)
    BY <2>1
  <2>3. QED
    BY <1>1, <2>2
<1>3. ASSUME NEW k \in 1 .. Len(R), k - 1 \in T
      PROVE  k \in T
  <2>1. g[k] = AddRecord(g[k - 1], R[k]) /\ R[k] \in E /\ g[k - 1] \in Seq(TurnOf(E))
    BY <1>1, <1>3 DEF Grow
  <2> DEFINE w == g[k - 1]
             r == R[k]
  <2>2. w \in Seq(TurnOf(E)) /\ r \in E
    BY <2>1
  <2> HIDE DEF w, r
  <2>3. AddRecord(w, r) \in Seq(TurnOf(E)) /\ AddRecord(w, r) # <<>>
    <3>1. CASE Opens(w, r)
      BY <2>2, <3>1, AddIs, LastOfAppend
    <3>2. CASE ~Opens(w, r)
      <4>1. w # <<>> /\ Longer(Last(w), r) \in TurnOf(E)
            /\ AddRecord(w, r) = Append(Front(w), Longer(Last(w), r))
        BY <2>2, <3>2, AddIs
      <4>2. Front(w) \in Seq(TurnOf(E))
        BY <2>2, <4>1, FrontLast
      <4>3. QED
        BY <4>1, <4>2, LastOfAppend
    <3>3. QED
      BY <3>1, <3>2
  <2>4. OK(k)
    BY <2>1, <2>3 DEF w, r
  <2> HIDE DEF OK
  <2>5. QED
    BY <1>1, <2>4
<1> HIDE DEF T
<1>4. 0 .. Len(R) \subseteq T
  BY <1>1, <1>2, <1>3, Turns!UpToFollows
<1>5. QED
  BY <1>4 DEF T

-------------------------------------------------------------------------------
\* What is said in records and in turns.
LEMMA EntriesAppend ==
  ASSUME NEW E, AreRecords(E), NEW R \in Seq(E), NEW r \in E
  PROVE  /\ EntriesOf(R) \in Seq(Kind)
         /\ EntriesOf(Append(R, r)) = EntriesOf(R) \o r.entries
<1> DEFINE q == [n \in DOMAIN R |-> R[n].entries]
<1>1. q \in Seq(Seq(Kind)) /\ r.entries \in Seq(Kind) /\ Len(q) = Len(R)
  BY DEF AreRecords
<1>2. [n \in DOMAIN Append(R, r) |-> Append(R, r)[n].entries] = Append(q, r.entries)
  OBVIOUS
<1> HIDE DEF q
<1>3. EntriesOf(R) = FlattenSeq(q) /\ EntriesOf(Append(R, r)) = FlattenSeq(Append(q, r.entries))
  BY <1>2 DEF EntriesOf, q
<1>4. QED
  BY <1>1, <1>3, FlattenAppend

LEMMA EntriesOfFew ==
  /\ EntriesOf(<<>>) = <<>>
  /\ \A E, r : AreRecords(E) /\ r \in E => EntriesOf(<<r>>) = r.entries
<1>1. EntriesOf(<<>>) = <<>>
  <2>1. [n \in DOMAIN <<>> |-> <<>>[n].entries] = <<>>
    OBVIOUS
  <2>2. FlattenSeq(<<>>) = <<>>
    BY DEF FlattenSeq
  <2>3. QED
    BY <2>1, <2>2 DEF EntriesOf
<1>2. ASSUME NEW E, NEW r, AreRecords(E), r \in E
      PROVE  EntriesOf(<<r>>) = r.entries
  <2>1. <<>> \in Seq(E) /\ Append(<<>>, r) = <<r>> /\ r.entries \in Seq(Kind)
    BY <1>2 DEF AreRecords
  <2>2. EntriesOf(Append(<<>>, r)) = EntriesOf(<<>>) \o r.entries
    BY <1>2, <2>1, EntriesAppend
  <2>3. <<>> \o r.entries = r.entries
    BY <2>1
  <2>4. QED
    BY <1>1, <2>1, <2>2, <2>3
<1>3. QED
  BY <1>1, <1>2

LEMMA SaidInEither ==
  ASSUME NEW a \in Seq(Kind), NEW b \in Seq(Kind), NEW x
  PROVE  x \in ToSet(a \o b) <=> x \in ToSet(a) \/ x \in ToSet(b)
<1>1. /\ Len(a \o b) = Len(a) + Len(b) /\ Len(a) \in Nat /\ Len(b) \in Nat
      /\ DOMAIN (a \o b) = 1 .. Len(a) + Len(b) /\ DOMAIN a = 1 .. Len(a) /\ DOMAIN b = 1 .. Len(b)
      /\ \A i \in 1 .. Len(a) : (a \o b)[i] = a[i]
      /\ \A i \in 1 .. Len(b) : (a \o b)[Len(a) + i] = b[i]
  OBVIOUS
<1>2. ASSUME NEW i \in DOMAIN (a \o b)
      PROVE  (a \o b)[i] \in ToSet(a) \cup ToSet(b)
  <2>1. CASE i <= Len(a)
    <3>1. i \in 1 .. Len(a)
      BY <1>1, <2>1
    <3>2. QED
      BY <1>1, <3>1 DEF ToSet
  <2>2. CASE i > Len(a)
    <3>1. i - Len(a) \in 1 .. Len(b) /\ Len(a) + (i - Len(a)) = i
      BY <1>1, <2>2
    <3>2. (a \o b)[i] = b[i - Len(a)]
      BY <1>1, <3>1
    <3>3. QED
      BY <1>1, <3>1, <3>2 DEF ToSet
  <2>3. QED
    BY <1>1, <2>1, <2>2
<1>3. ASSUME NEW i \in DOMAIN a
      PROVE  a[i] \in ToSet(a \o b)
  <2>1. i \in DOMAIN (a \o b) /\ (a \o b)[i] = a[i]
    BY <1>1
  <2>2. QED
    BY <2>1 DEF ToSet
<1>4. ASSUME NEW i \in DOMAIN b
      PROVE  b[i] \in ToSet(a \o b)
  <2>1. Len(a) + i \in DOMAIN (a \o b) /\ (a \o b)[Len(a) + i] = b[i]
    BY <1>1
  <2>2. QED
    BY <2>1 DEF ToSet
<1>5. QED
  BY <1>2, <1>3, <1>4 DEF ToSet

Says(w, x) == x \in ToSet(EntriesOf(w.records))
Utters(r, x) == x \in ToSet(r.entries)

\* A record adds what it says to the turn it is put in.
LEMMA TurnsSay ==
  ASSUME NEW E, AreRecords(E), NEW r \in E, NEW x
  PROVE  /\ Says(NewTurn(r), x) <=> Utters(r, x)
         /\ \A w \in TurnOf(E) : Says(Longer(w, r), x) <=> Says(w, x) \/ Utters(r, x)
<1>1. Says(NewTurn(r), x) <=> Utters(r, x)
  BY EntriesOfFew DEF Says, Utters, NewTurn
<1>2. ASSUME NEW w \in TurnOf(E)
      PROVE  Says(Longer(w, r), x) <=> Says(w, x) \/ Utters(r, x)
  <2>1. w.records \in Seq(E) /\ r.entries \in Seq(Kind)
    BY DEF TurnOf, AreRecords
  <2>2. /\ EntriesOf(w.records) \in Seq(Kind)
        /\ EntriesOf(Append(w.records, r)) = EntriesOf(w.records) \o r.entries
    BY <2>1, EntriesAppend
  <2>3. x \in ToSet(EntriesOf(w.records) \o r.entries) <=>
          x \in ToSet(EntriesOf(w.records)) \/ x \in ToSet(r.entries)
    BY <2>1, <2>2, SaidInEither
  <2>4. QED
    BY <2>2, <2>3 DEF Says, Utters, Longer
<1>3. QED
  BY <1>1, <1>2

LEMMA OutputIs ==
  ASSUME NEW w
  PROVE  HasOutput(w) <=> Says(w, "text") \/ Says(w, "call") \/ Says(w, "result")
BY DEF HasOutput, Says

\* The last turn after k records: what of the one before it, or of none, and of the record.
LEMMA LastTurn ==
  ASSUME NEW E, AreRecords(E), NEW R \in Seq(E), NEW g, Grow(g, R), NEW k \in 1 .. Len(R)
  PROVE  LET r == R[k]
             T == g[k - 1]
         IN  /\ Opens(T, r) => /\ g[k] = Append(T, NewTurn(r)) /\ Last(g[k]) = NewTurn(r)
                               /\ Len(g[k]) = Len(T) + 1
             /\ ~Opens(T, r) => /\ k > 1 /\ T # <<>> /\ Len(g[k]) = Len(T)
                                /\ Last(T) \in TurnOf(E) /\ Last(g[k]) = Longer(Last(T), r)
                                /\ g[k] = Append(Front(T), Last(g[k]))
             /\ r \in E /\ T \in Seq(TurnOf(E)) /\ (T = <<>> <=> k = 1)
<1> DEFINE r == R[k]
           T == g[k - 1]
<1>1. r \in E /\ g[k] = AddRecord(T, r) /\ k - 1 \in 0 .. Len(R)
  BY DEF Grow
<1>2. T \in Seq(TurnOf(E)) /\ (k - 1 # 0 => T # <<>>) /\ g[0] = <<>>
  BY <1>1, TurnsTyped DEF Grow
<1>3. T = <<>> <=> k = 1
  <2>1. k = 1 => k - 1 = 0
    OBVIOUS
  <2>2. k # 1 => k - 1 # 0
    OBVIOUS
  <2>3. QED
    BY <1>2, <2>1, <2>2
<1> HIDE DEF r, T
<1>4. CASE Opens(T, r)
  <2>1. g[k] = Append(T, NewTurn(r)) /\ NewTurn(r) \in TurnOf(E)
    BY <1>1, <1>2, <1>4, AddIs
  <2>2. Last(g[k]) = NewTurn(r) /\ Len(g[k]) = Len(T) + 1
    BY <1>2, <2>1, LastOfAppend
  <2>3. QED
    BY <1>1, <1>2, <1>3, <1>4, <2>1, <2>2 DEF r, T
<1>5. CASE ~Opens(T, r)
  <2>1. T # <<>> /\ Longer(Last(T), r) \in TurnOf(E) /\ g[k] = Append(Front(T), Longer(Last(T), r))
    BY <1>1, <1>2, <1>5, AddIs
  <2>2. Front(T) \in Seq(TurnOf(E)) /\ Len(Front(T)) = Len(T) - 1 /\ Last(T) \in TurnOf(E)
        /\ Len(T) \in Nat \ {0}
    BY <1>2, <2>1, FrontLast
  <2>3. Last(g[k]) = Longer(Last(T), r) /\ Len(g[k]) = Len(Front(T)) + 1
    BY <2>1, <2>2, LastOfAppend
  <2>4. Len(g[k]) = Len(T)
    BY <2>2, <2>3
  <2>5. k > 1
    BY <1>3, <2>1
  <2>6. QED
    BY <1>1, <1>2, <1>3, <1>5, <2>1, <2>2, <2>3, <2>4, <2>5 DEF r, T
<1>6. QED
  BY <1>4, <1>5

-------------------------------------------------------------------------------
\* The records since work was last asked for, up to the k-th.
Since(R, k) == {n \in 1 .. k : \A j \in n + 1 .. k : ~R[j].starts}

LEMMA SinceSteps ==
  ASSUME NEW E, AreRecords(E), NEW R \in Seq(E), NEW k \in 1 .. Len(R)
  PROVE  Since(R, k) = IF R[k].starts THEN {k} ELSE Since(R, k - 1) \cup {k}
<1>1. k \in Nat /\ k >= 1 /\ R[k].starts \in BOOLEAN
  BY DEF AreRecords
<1>2. ASSUME NEW n \in 1 .. k
      PROVE  n \in Since(R, k) <=> n = k \/ (~R[k].starts /\ n \in Since(R, k - 1))
  <2>1. CASE n = k
    BY <1>1, <2>1 DEF Since
  <2>2. CASE n # k
    <3>1. n \in 1 .. k - 1 /\ k \in n + 1 .. k /\ n + 1 .. k = (n + 1 .. k - 1) \cup {k}
      BY <1>1, <2>2
    <3>2. QED
      BY <2>2, <3>1 DEF Since
  <2>3. QED
    BY <2>1, <2>2
<1>3. Since(R, k) \subseteq 1 .. k /\ Since(R, k - 1) \subseteq 1 .. k /\ k \in 1 .. k
  BY <1>1 DEF Since
<1> HIDE DEF Since
<1>4. QED
  BY <1>2, <1>3

\* The newest turn says something, or is complete, exactly if one of these records does.
LEMMA NewestTurn ==
  ASSUME NEW E, AreRecords(E), NEW R \in Seq(E), NEW g, Grow(g, R)
  PROVE  \A k \in 1 .. Len(R) :
           /\ Says(Last(g[k]), "text") <=> \E n \in Since(R, k) : Utters(R[n], "text")
           /\ Last(g[k]).complete <=> \E n \in Since(R, k) : R[n].ends
<1> DEFINE Text(k) == Says(Last(g[k]), "text") <=> \E n \in Since(R, k) : Utters(R[n], "text")
           Done(k) == Last(g[k]).complete <=> \E n \in Since(R, k) : R[n].ends
           T == {k \in 0 .. Len(R) : k # 0 => Text(k) /\ Done(k)}
<1>1. Len(R) \in Nat /\ 0 \in T
  OBVIOUS
<1>2. ASSUME NEW k \in 1 .. Len(R), k - 1 \in T
      PROVE  k \in T
  <2> DEFINE r == R[k]
             w == Last(g[k - 1])
  <2>1. /\ r \in E /\ (g[k - 1] = <<>> <=> k = 1)
        /\ Opens(g[k - 1], r) => Last(g[k]) = NewTurn(r)
        /\ ~Opens(g[k - 1], r) => /\ g[k - 1] # <<>> /\ w \in TurnOf(E) /\ Last(g[k]) = Longer(w, r)
    BY LastTurn
  <2>2. r.starts \in BOOLEAN /\ r.ends \in BOOLEAN
    BY <2>1 DEF AreRecords
  <2>3. Since(R, k) = IF r.starts THEN {k} ELSE Since(R, k - 1) \cup {k}
    BY SinceSteps
  <2>4. Since(R, 0) = {}
    BY DEF Since
  <2>5. k # 1 => Text(k - 1) /\ Done(k - 1)
    BY <1>1, <1>2
  <2>6. NewTurn(r).complete = r.ends /\ (Says(NewTurn(r), "text") <=> Utters(r, "text"))
    BY <2>1, TurnsSay DEF NewTurn
  <2>7. CASE Opens(g[k - 1], r)
    <3>1. r.starts \/ k = 1
      BY <2>1, <2>7 DEF Opens
    <3>2. Since(R, k) = {k}
      <4>1. k = 1 => k - 1 = 0
        OBVIOUS
      <4>2. k = 1 => Since(R, k - 1) = {}
        BY <2>4, <4>1
      <4>3. QED
        BY <2>3, <3>1, <4>2
    <3>3. Text(k) /\ Done(k)
      BY <2>1, <2>6, <2>7, <3>2
    <3>4. QED
      BY <1>1, <3>3
  <2>8. CASE ~Opens(g[k - 1], r)
    <3>1. Last(g[k]) = Longer(w, r) /\ w \in TurnOf(E) /\ k # 1
      BY <2>1, <2>8
    <3>2. /\ Says(Longer(w, r), "text") <=> Says(w, "text") \/ Utters(r, "text")
          /\ Longer(w, r).complete = (w.complete \/ r.ends)
      BY <2>1, <3>1, TurnsSay DEF Longer
    <3>3. CASE r.starts
      <4>1. ~w.complete /\ ~HasOutput(w)
        BY <2>8, <3>3 DEF Opens
      <4>2. ~Says(w, "text")
        BY <4>1, OutputIs
      <4>3. Since(R, k) = {k}
        BY <2>3, <3>3
      <4>4. Text(k) /\ Done(k)
        BY <3>1, <3>2, <4>1, <4>2, <4>3
      <4>5. QED
        BY <1>1, <4>4
    <3>4. CASE ~r.starts
      <4>1. Since(R, k) = Since(R, k - 1) \cup {k}
        BY <2>3, <3>4
      <4>2. Text(k - 1) /\ Done(k - 1)
        BY <2>5, <3>1
      <4>3. Text(k) /\ Done(k)
        BY <3>1, <3>2, <4>1, <4>2
      <4>4. QED
        BY <1>1, <4>3
    <3>5. QED
      BY <2>2, <3>3, <3>4
  <2>9. QED
    BY <2>7, <2>8
<1> HIDE DEF T
<1>3. 0 .. Len(R) \subseteq T
  BY <1>1, <1>2, Turns!UpToFollows
<1> USE DEF T
<1>4. ASSUME NEW k \in 1 .. Len(R)
      PROVE  Text(k) /\ Done(k)
  BY <1>1, <1>3
<1>5. QED
  BY <1>4

-------------------------------------------------------------------------------
\* Which turn a record is in: as many as there are after it.
Works(r) == Utters(r, "text") \/ Utters(r, "call") \/ Utters(r, "result")

LEMMA TurnsCount ==
  ASSUME NEW E, AreRecords(E), NEW R \in Seq(E), NEW g, Grow(g, R)
  PROVE  /\ \A k \in 0 .. Len(R) : Len(g[k]) \in Nat
         /\ \A k \in 1 .. Len(R) : Len(g[k]) >= 1
         /\ \A k \in 1 .. Len(R) :
              Len(g[k]) = Len(g[k - 1]) + (IF Opens(g[k - 1], R[k]) THEN 1 ELSE 0)
<1>1. \A k \in 0 .. Len(R) : g[k] \in Seq(TurnOf(E)) /\ (k # 0 => g[k] # <<>>)
  BY TurnsTyped
<1>2. \A T \in Seq(TurnOf(E)) : Len(T) \in Nat /\ (T # <<>> => Len(T) >= 1)
  OBVIOUS
<1>3. ASSUME NEW k \in 1 .. Len(R)
      PROVE  Len(g[k]) = Len(g[k - 1]) + (IF Opens(g[k - 1], R[k]) THEN 1 ELSE 0)
  <2>1. k - 1 \in 0 .. Len(R)
    OBVIOUS
  <2>2. Len(g[k - 1]) \in Nat
    BY <1>1, <1>2, <2>1
  <2>3. /\ Opens(g[k - 1], R[k]) => Len(g[k]) = Len(g[k - 1]) + 1
        /\ ~Opens(g[k - 1], R[k]) => Len(g[k]) = Len(g[k - 1])
    BY LastTurn
  <2>4. CASE Opens(g[k - 1], R[k])
    BY <2>3, <2>4
  <2>5. CASE ~Opens(g[k - 1], R[k])
    BY <2>2, <2>3, <2>5
  <2>6. QED
    BY <2>4, <2>5
<1>4. \A k \in 1 .. Len(R) : k \in 0 .. Len(R) /\ k # 0
  OBVIOUS
<1>5. QED
  BY <1>1, <1>2, <1>3, <1>4

\* A record with output is in the last turn only if that has output.
LEMMA OutputStays ==
  ASSUME NEW E, AreRecords(E), NEW R \in Seq(E), NEW g, Grow(g, R), NEW m \in 1 .. Len(R),
         Works(R[m])
  PROVE  \A k \in m .. Len(R) :
           Len(g[m]) <= Len(g[k]) /\ (Len(g[m]) = Len(g[k]) => HasOutput(Last(g[k])))
<1> DEFINE OK(k) == Len(g[m]) <= Len(g[k]) /\ (Len(g[m]) = Len(g[k]) => HasOutput(Last(g[k])))
           T == {k \in 0 .. Len(R) : k >= m => OK(k)}
<1>1. Len(R) \in Nat /\ 0 \in T /\ m \in Nat /\ m >= 1
  OBVIOUS
<1>2. ASSUME NEW k \in 1 .. Len(R), k - 1 \in T, k >= m
      PROVE  OK(k)
  <2> DEFINE r == R[k]
             w == Last(g[k - 1])
  <2>1. /\ r \in E
        /\ Opens(g[k - 1], r) => Last(g[k]) = NewTurn(r)
        /\ ~Opens(g[k - 1], r) => w \in TurnOf(E) /\ Last(g[k]) = Longer(w, r)
    BY LastTurn
  <2>2. /\ Len(g[k]) = Len(g[k - 1]) + (IF Opens(g[k - 1], r) THEN 1 ELSE 0)
        /\ Len(g[k - 1]) \in Nat /\ Len(g[k]) \in Nat /\ Len(g[m]) \in Nat
    <3>1. k - 1 \in 0 .. Len(R) /\ k \in 0 .. Len(R) /\ m \in 0 .. Len(R)
      BY <1>1
    <3>2. QED
      BY <3>1, TurnsCount
  <2>3. CASE k = m
    <3>1. Works(r)
      BY <2>3
    <3>2. HasOutput(Last(g[k]))
      BY <2>1, <3>1, TurnsSay, OutputIs DEF Works
    <3>3. Len(g[m]) = Len(g[k])
      BY <2>3
    <3>4. Len(g[m]) <= Len(g[k])
      BY <2>2, <3>3
    <3>5. QED
      BY <3>2, <3>4
  <2>4. CASE k # m
    <3>1. OK(k - 1)
      <4>1. k - 1 >= m
        BY <1>1, <1>2, <2>4
      <4>2. QED
        BY <1>2, <4>1
    <3>2. CASE Opens(g[k - 1], r)
      BY <2>2, <3>1, <3>2
    <3>3. CASE ~Opens(g[k - 1], r)
      <4>1. HasOutput(w) => HasOutput(Longer(w, r))
        BY <2>1, <3>3, TurnsSay, OutputIs
      <4>2. QED
        BY <2>1, <2>2, <3>1, <3>3, <4>1
    <3>4. QED
      BY <3>2, <3>3
  <2>5. QED
    BY <2>3, <2>4
<1>3. ASSUME NEW k \in 1 .. Len(R), k - 1 \in T
      PROVE  k \in T
  <2>1. k >= m => OK(k)
    BY <1>2, <1>3
  <2> HIDE DEF OK
  <2>2. QED
    BY <1>1, <2>1
<1> HIDE DEF T
<1>4. 0 .. Len(R) \subseteq T
  BY <1>1, <1>3, Turns!UpToFollows
<1>5. ASSUME NEW k \in m .. Len(R)
      PROVE  OK(k)
  <2>1. k \in T /\ k >= m
    BY <1>1, <1>4
  <2> HIDE DEF OK
  <2>2. QED
    BY <2>1 DEF T
<1>6. QED
  BY <1>5

\* Two records of the agent's work are in one turn unless work was asked for between them.
LEMMA OneTurn ==
  ASSUME NEW E, AreRecords(E), NEW R \in Seq(E), NEW g, Grow(g, R), NEW m \in 1 .. Len(R),
         Works(R[m])
  PROVE  \A n \in m .. Len(R) :
           Len(g[m]) = Len(g[n]) <=> \A k \in m + 1 .. n : ~R[k].starts
<1> DEFINE OK(n) == Len(g[m]) = Len(g[n]) <=> \A k \in m + 1 .. n : ~R[k].starts
           T == {n \in 0 .. Len(R) : n >= m => OK(n)}
<1>1. Len(R) \in Nat /\ m \in Nat /\ m >= 1 /\ 0 \in T
  OBVIOUS
<1>2. ASSUME NEW n \in 1 .. Len(R), n - 1 \in T, n >= m
      PROVE  OK(n)
  <2> DEFINE r == R[n]
             w == g[n - 1]
  <2>1. CASE n = m
    <3>1. m + 1 .. n = {}
      BY <1>1, <2>1
    <3>2. QED
      BY <2>1, <3>1
  <2>2. CASE n # m
    <3>1. /\ n - 1 \in m .. Len(R) /\ n - 1 \in 0 .. Len(R) /\ n \in 0 .. Len(R)
          /\ m \in 0 .. Len(R) /\ n # 1 /\ n - 1 >= m
          /\ m + 1 .. n = (m + 1 .. n - 1) \cup {n}
      BY <1>1, <1>2, <2>2
    <3>2. OK(n - 1)
      BY <1>2, <3>1
    <3>3. /\ Len(g[n]) = Len(w) + (IF Opens(w, r) THEN 1 ELSE 0)
          /\ Len(w) \in Nat /\ Len(g[n]) \in Nat /\ Len(g[m]) \in Nat
      BY <3>1, TurnsCount
    <3>4. Len(g[m]) <= Len(w) /\ (Len(g[m]) = Len(w) => HasOutput(Last(w)))
      BY <3>1, OutputStays
    <3>5. r \in E /\ w # <<>>
      BY <3>1, LastTurn
    <3>6. r.starts \in BOOLEAN
      BY <3>5 DEF AreRecords
    <3>7. CASE Opens(w, r)
      <4>1. r.starts
        BY <3>5, <3>7 DEF Opens
      <4>2. Len(g[m]) # Len(g[n])
        BY <3>3, <3>4, <3>7
      <4>3. QED
        BY <3>1, <4>1, <4>2
    <3>8. CASE ~Opens(w, r)
      <4>1. Len(g[n]) = Len(w)
        BY <3>3, <3>8
      <4>2. CASE r.starts
        <5>1. ~HasOutput(Last(w))
          BY <3>8, <4>2 DEF Opens
        <5>2. QED
          BY <3>1, <3>4, <4>1, <4>2, <5>1
      <4>3. CASE ~r.starts
        BY <3>1, <3>2, <4>1, <4>3
      <4>4. QED
        BY <3>6, <4>2, <4>3
    <3>9. QED
      BY <3>7, <3>8
  <2>3. QED
    BY <2>1, <2>2
<1>3. ASSUME NEW n \in 1 .. Len(R), n - 1 \in T
      PROVE  n \in T
  <2>1. n >= m => OK(n)
    BY <1>2, <1>3
  <2> HIDE DEF OK
  <2>2. QED
    BY <1>1, <2>1
<1> HIDE DEF T
<1>4. 0 .. Len(R) \subseteq T
  BY <1>1, <1>3, Turns!UpToFollows
<1>5. ASSUME NEW n \in m .. Len(R)
      PROVE  OK(n)
  <2>1. n \in T /\ n >= m
    BY <1>1, <1>4
  <2> HIDE DEF OK
  <2>2. QED
    BY <2>1 DEF T
<1>6. QED
  BY <1>5

-------------------------------------------------------------------------------
\* The records of the first t turns.
FirstTurns(T, t) == FlattenSeq([u \in 1 .. t |-> T[u].records])

LEMMA TurnsRecords ==
  ASSUME NEW E, NEW T \in Seq(TurnOf(E))
  PROVE  /\ Len(T) \in Nat /\ DOMAIN T = 1 .. Len(T)
         /\ \A t \in 1 .. Len(T) : T[t] \in TurnOf(E) /\ T[t].records \in Seq(E)
<1>1. Len(T) \in Nat /\ DOMAIN T = 1 .. Len(T) /\ \A t \in 1 .. Len(T) : T[t] \in TurnOf(E)
  OBVIOUS
<1>2. \A w \in TurnOf(E) : w.records \in Seq(E)
  BY DEF TurnOf
<1>3. QED
  BY <1>1, <1>2

\* They are those of one turn less, and then that turn's.
LEMMA FirstTurnsStep ==
  ASSUME NEW E, NEW T \in Seq(TurnOf(E))
  PROVE  /\ FirstTurns(T, 0) = <<>>
         /\ \A t \in 0 .. Len(T) : FirstTurns(T, t) \in Seq(E)
         /\ \A t \in 1 .. Len(T) : FirstTurns(T, t) = FirstTurns(T, t - 1) \o T[t].records
<1>1. /\ Len(T) \in Nat /\ DOMAIN T = 1 .. Len(T)
      /\ \A t \in 1 .. Len(T) : T[t] \in TurnOf(E) /\ T[t].records \in Seq(E)
  BY TurnsRecords
<1>2. ASSUME NEW t \in 0 .. Len(T)
      PROVE  [u \in 1 .. t |-> T[u].records] \in Seq(Seq(E))
  <2>1. \A u \in 1 .. t : T[u].records \in Seq(E)
    BY <1>1
  <2>2. t \in Nat
    BY <1>1
  <2>3. QED
    BY <2>1, <2>2, IsASeq
<1>3. \A t \in 0 .. Len(T) : FirstTurns(T, t) \in Seq(E)
  <2>1. <<>> \in Seq(E)
    OBVIOUS
  <2>2. QED
    BY <1>2, <2>1, FlattenAppend DEF FirstTurns
<1>4. ASSUME NEW t \in 1 .. Len(T)
      PROVE  FirstTurns(T, t) = FirstTurns(T, t - 1) \o T[t].records
  <2> DEFINE q == [u \in 1 .. t - 1 |-> T[u].records]
             x == T[t].records
  <2>1. t - 1 \in 0 .. Len(T) /\ x \in Seq(E)
    BY <1>1
  <2>2. q \in Seq(Seq(E)) /\ Len(q) = t - 1
    BY <1>2, <2>1
  <2>3. [u \in 1 .. t |-> T[u].records] = Append(q, x)
    <3> DEFINE p == [u \in 1 .. t |-> T[u].records]
    <3>1. p \in Seq(Seq(E)) /\ Len(p) = t
      BY <1>1, <1>2
    <3>2. Append(q, x) \in Seq(Seq(E)) /\ Len(Append(q, x)) = t /\ Append(q, x)[t] = x
      BY <2>1, <2>2
    <3>3. \A u \in 1 .. t - 1 : Append(q, x)[u] = T[u].records
      BY <2>1, <2>2
    <3>4. \A u \in 1 .. t : p[u] = T[u].records
      OBVIOUS
    <3>5. \A u \in 1 .. t : Append(q, x)[u] = p[u]
      BY <3>2, <3>3, <3>4
    <3> HIDE DEF p, q, x
    <3>6. p = Append(q, x)
      BY <3>1, <3>2, <3>5, SeqEqual
    <3>7. QED
      BY <3>6 DEF p
  <2>4. FirstTurns(T, t) = FlattenSeq(Append(q, x)) /\ FirstTurns(T, t - 1) = FlattenSeq(q)
    BY <2>3 DEF FirstTurns
  <2> HIDE DEF q, x
  <2>5. FlattenSeq(Append(q, x)) = FlattenSeq(q) \o x
    BY <2>1, <2>2, FlattenAppend
  <2>6. QED
    BY <2>4, <2>5 DEF x
<1>5. FirstTurns(T, 0) = <<>>
  <2>1. [u \in 1 .. 0 |-> T[u].records] = <<>>
    OBVIOUS
  <2>2. QED
    BY <2>1 DEF FirstTurns, FlattenSeq
<1>6. QED
  BY <1>3, <1>4, <1>5

LEMMA FirstTurnsSame ==
  ASSUME NEW T, NEW V, NEW t, \A u \in 1 .. t : T[u] = V[u]
  PROVE  FirstTurns(T, t) = FirstTurns(V, t)
<1>1. [u \in 1 .. t |-> T[u].records] = [u \in 1 .. t |-> V[u].records]
  OBVIOUS
<1>2. QED
  BY <1>1 DEF FirstTurns

LEMMA FirstTurnsGrow ==
  ASSUME NEW E, NEW T \in Seq(TurnOf(E)), NEW t \in 0 .. Len(T)
  PROVE  \A u \in t .. Len(T) :
           Len(FirstTurns(T, t)) <= Len(FirstTurns(T, u)) /\ Len(FirstTurns(T, u)) \in Nat
<1> DEFINE OK(u) == Len(FirstTurns(T, t)) <= Len(FirstTurns(T, u)) /\ Len(FirstTurns(T, u)) \in Nat
           S == {u \in 0 .. Len(T) : u >= t => OK(u)}
<1>1. /\ Len(T) \in Nat /\ t \in Nat /\ t >= 0
      /\ \A u \in 0 .. Len(T) : FirstTurns(T, u) \in Seq(E)
      /\ \A u \in 1 .. Len(T) : FirstTurns(T, u) = FirstTurns(T, u - 1) \o T[u].records
      /\ \A u \in 1 .. Len(T) : T[u].records \in Seq(E)
  <2>1. Len(T) \in Nat /\ \A u \in 1 .. Len(T) : T[u].records \in Seq(E)
    BY TurnsRecords
  <2>2. t \in Nat /\ t >= 0
    BY <2>1
  <2>3. QED
    BY <2>1, <2>2, FirstTurnsStep
<1>2. \A u \in 0 .. Len(T) : Len(FirstTurns(T, u)) \in Nat
  BY <1>1
<1>3. OK(t)
  BY <1>2
<1>4. 0 \in S
  <2>1. 0 >= t => t = 0
    BY <1>1
  <2> HIDE DEF OK
  <2>2. 0 >= t => OK(0)
    BY <1>3, <2>1
  <2>3. QED
    BY <1>1, <2>2
<1>5. ASSUME NEW u \in 1 .. Len(T), u - 1 \in S
      PROVE  u \in S
  <2>1. ASSUME u > t
        PROVE  OK(u)
    <3>1. u - 1 >= t /\ u - 1 \in 0 .. Len(T)
      BY <1>1, <2>1
    <3>2. OK(u - 1)
      BY <1>5, <3>1
    <3>3. FirstTurns(T, u - 1) \in Seq(E) /\ T[u].records \in Seq(E)
          /\ FirstTurns(T, u) = FirstTurns(T, u - 1) \o T[u].records
      BY <1>1, <3>1
    <3>4. Len(FirstTurns(T, u)) = Len(FirstTurns(T, u - 1)) + Len(T[u].records)
          /\ Len(T[u].records) \in Nat
      BY <3>3
    <3>5. Len(FirstTurns(T, t)) \in Nat
      BY <1>2
    <3> DEFINE a == Len(FirstTurns(T, t))
               b == Len(FirstTurns(T, u - 1))
               c == Len(T[u].records)
               d == Len(FirstTurns(T, u))
    <3>6. a \in Nat /\ b \in Nat /\ c \in Nat /\ a <= b /\ d = b + c
      BY <3>2, <3>4, <3>5
    <3> HIDE DEF a, b, c, d
    <3>7. a <= d /\ d \in Nat
      BY <3>6
    <3>8. QED
      BY <3>7 DEF a, d
  <2> HIDE DEF OK
  <2>2. u >= t => OK(u)
    BY <1>1, <1>3, <2>1
  <2>3. QED
    BY <1>1, <2>2
<1> HIDE DEF S
<1>6. 0 .. Len(T) \subseteq S
  BY <1>1, <1>4, <1>5, Turns!UpToFollows
<1>7. ASSUME NEW u \in t .. Len(T)
      PROVE  OK(u)
  <2>1. u \in S /\ u >= t
    BY <1>1, <1>6
  <2> HIDE DEF OK
  <2>2. QED
    BY <2>1 DEF S
<1>8. QED
  BY <1>7

\* The n-th record is in the t-th turn.
InTurn(T, n, t) == t \in 1 .. Len(T) /\ Len(FirstTurns(T, t - 1)) < n /\ n <= Len(FirstTurns(T, t))

\* The turns after k records are these records in their order, each where it was put.
Laid(g, R, k) == /\ FirstTurns(g[k], Len(g[k])) = SubSeq(R, 1, k)
                 /\ \A n \in 1 .. k : InTurn(g[k], n, Len(g[n]))

LEMMA OpenedLaid ==
  ASSUME NEW E, NEW T \in Seq(TurnOf(E)), NEW x \in TurnOf(E)
  PROVE  /\ \A t \in 0 .. Len(T) : FirstTurns(Append(T, x), t) = FirstTurns(T, t)
         /\ FirstTurns(Append(T, x), Len(T) + 1) = FirstTurns(T, Len(T)) \o x.records
<1> DEFINE V == Append(T, x)
<1>1. V \in Seq(TurnOf(E)) /\ Len(V) = Len(T) + 1 /\ Len(T) \in Nat /\ V[Len(T) + 1] = x
      /\ \A u \in 1 .. Len(T) : V[u] = T[u]
  OBVIOUS
<1> HIDE DEF V
<1>2. ASSUME NEW t \in 0 .. Len(T)
      PROVE  FirstTurns(V, t) = FirstTurns(T, t)
  <2>1. \A u \in 1 .. t : V[u] = T[u]
    BY <1>1
  <2>2. QED
    BY <2>1, FirstTurnsSame
<1>3. FirstTurns(V, Len(T) + 1) = FirstTurns(V, (Len(T) + 1) - 1) \o V[Len(T) + 1].records
  <2>1. Len(T) + 1 \in 1 .. Len(V)
    BY <1>1
  <2>2. QED
    BY <1>1, <2>1, FirstTurnsStep
<1>4. (Len(T) + 1) - 1 = Len(T) /\ Len(T) \in 0 .. Len(T)
  BY <1>1
<1>5. QED
  BY <1>1, <1>2, <1>3, <1>4 DEF V

LEMMA PrefixAppend ==
  ASSUME NEW E, NEW R \in Seq(E), NEW k \in 1 .. Len(R)
  PROVE  /\ SubSeq(R, 1, k) = SubSeq(R, 1, k - 1) \o <<R[k]>>
         /\ SubSeq(R, 1, k - 1) \in Seq(E) /\ Len(SubSeq(R, 1, k - 1)) = k - 1
         /\ SubSeq(R, 1, k) \in Seq(E) /\ Len(SubSeq(R, 1, k)) = k
<1>1. Len(R) \in Nat /\ k \in Nat /\ 1 \in 1 .. k /\ 1 \in 1 .. Len(R) + 1
      /\ k \in 1 - 1 .. Len(R) /\ k - 1 \in 1 - 1 .. Len(R) /\ k >= 1 /\ k <= Len(R)
  OBVIOUS
<1>2. SubSeq(R, 1, k) = SubSeq(R, 1, k - 1) \o <<R[k]>>
  OBVIOUS
<1>3. \A n \in 1 - 1 .. Len(R) : /\ SubSeq(R, 1, n) \in Seq(E)
                                 /\ Len(SubSeq(R, 1, n)) = IF 1 <= n THEN n - 1 + 1 ELSE 0
  BY <1>1, SubSeqProperties
<1> DEFINE L(n) == Len(SubSeq(R, 1, n))
<1>4. \A n \in 0 .. Len(R) : L(n) = IF 1 <= n THEN n - 1 + 1 ELSE 0
  BY <1>3
<1> HIDE DEF L
<1>5. L(k) = k /\ L(k - 1) = k - 1
  BY <1>1, <1>4
<1>6. QED
  BY <1>1, <1>2, <1>3, <1>5 DEF L

\* turns() loses no record and moves none.
LEMMA TurnsLaid ==
  ASSUME NEW E, AreRecords(E), NEW R \in Seq(E), NEW g, Grow(g, R)
  PROVE  \A k \in 0 .. Len(R) : Laid(g, R, k)
<1> DEFINE S == {k \in 0 .. Len(R) : Laid(g, R, k)}
<1>1. Len(R) \in Nat
  OBVIOUS
<1>2. 0 \in S
  <2>1. g[0] = <<>> /\ <<>> \in Seq(TurnOf(E)) /\ Len(<<>>) = 0
    BY DEF Grow
  <2>2. FirstTurns(<<>>, 0) = <<>>
    BY <2>1, FirstTurnsStep
  <2>3. SubSeq(R, 1, 0) = <<>>
    OBVIOUS
  <2>4. Laid(g, R, 0)
    <3>1. FirstTurns(g[0], Len(g[0])) = SubSeq(R, 1, 0)
      BY <2>1, <2>2, <2>3
    <3>2. \A n \in 1 .. 0 : FALSE
      OBVIOUS
    <3>3. QED
      BY <3>1, <3>2 DEF Laid
  <2>5. QED
    BY <1>1, <2>4
<1>3. ASSUME NEW k \in 1 .. Len(R), k - 1 \in S
      PROVE  k \in S
  <2> DEFINE T == g[k - 1]
             r == R[k]
             w == Last(T)
             V == g[k]
  <2>1. /\ Opens(T, r) => V = Append(T, NewTurn(r))
        /\ ~Opens(T, r) => /\ T # <<>> /\ w \in TurnOf(E) /\ V = Append(Front(T), Longer(w, r))
        /\ r \in E /\ T \in Seq(TurnOf(E))
    BY LastTurn
  <2>2. /\ FirstTurns(T, Len(T)) = SubSeq(R, 1, k - 1)
        /\ \A n \in 1 .. k - 1 : InTurn(T, n, Len(g[n]))
    BY <1>3 DEF Laid
  <2>3. /\ SubSeq(R, 1, k) = SubSeq(R, 1, k - 1) \o <<r>>
        /\ SubSeq(R, 1, k - 1) \in Seq(E) /\ Len(SubSeq(R, 1, k - 1)) = k - 1
        /\ SubSeq(R, 1, k) \in Seq(E) /\ Len(SubSeq(R, 1, k)) = k
    BY PrefixAppend
  <2>4. r.starts \in BOOLEAN /\ r.ends \in BOOLEAN /\ Len(T) \in Nat /\ k \in Nat /\ k >= 1
    BY <2>1 DEF AreRecords
  <2>5. CASE Opens(T, r)
    <3>1. NewTurn(r) \in TurnOf(E) /\ NewTurn(r).records = <<r>>
      BY <2>1, <2>4 DEF NewTurn, TurnOf
    <3>2. /\ \A t \in 0 .. Len(T) : FirstTurns(V, t) = FirstTurns(T, t)
          /\ FirstTurns(V, Len(T) + 1) = FirstTurns(T, Len(T)) \o <<r>>
          /\ Len(V) = Len(T) + 1
      <4> DEFINE x == NewTurn(r)
      <4>1. V = Append(T, x) /\ x \in TurnOf(E) /\ T \in Seq(TurnOf(E)) /\ x.records = <<r>>
        BY <2>1, <2>5, <3>1
      <4> HIDE DEF x, T, V
      <4>2. /\ \A t \in 0 .. Len(T) : FirstTurns(Append(T, x), t) = FirstTurns(T, t)
            /\ FirstTurns(Append(T, x), Len(T) + 1) = FirstTurns(T, Len(T)) \o x.records
            /\ Len(Append(T, x)) = Len(T) + 1
        BY <4>1, OpenedLaid, LastOfAppend
      <4>3. QED
        BY <4>1, <4>2
    <3>3. FirstTurns(V, Len(V)) = SubSeq(R, 1, k)
      BY <2>2, <2>3, <3>2
    <3>4. ASSUME NEW n \in 1 .. k
          PROVE  InTurn(V, n, Len(g[n]))
      <4>1. CASE n = k
        <5>1. /\ Len(g[n]) = Len(V) /\ Len(V) - 1 = Len(T) /\ Len(V) \in 1 .. Len(V)
              /\ Len(T) \in 0 .. Len(T)
          BY <2>4, <3>2, <4>1
        <5>2. Len(FirstTurns(V, Len(T))) = k - 1 /\ Len(FirstTurns(V, Len(V))) = k
          BY <2>2, <2>3, <3>2, <3>3, <5>1
        <5>3. Len(FirstTurns(V, Len(V) - 1)) < n /\ n <= Len(FirstTurns(V, Len(V)))
          BY <2>4, <4>1, <5>1, <5>2
        <5>4. QED
          BY <5>1, <5>3 DEF InTurn
      <4>2. CASE n # k
        <5>1. n \in 1 .. k - 1
          BY <2>4, <4>2
        <5>2. InTurn(T, n, Len(g[n]))
          BY <2>2, <5>1
        <5>3. /\ Len(g[n]) \in 1 .. Len(T) /\ Len(g[n]) \in 1 .. Len(V)
              /\ Len(g[n]) \in 0 .. Len(T) /\ Len(g[n]) - 1 \in 0 .. Len(T)
          BY <2>4, <3>2, <5>2 DEF InTurn
        <5>4. QED
          BY <3>2, <5>2, <5>3 DEF InTurn
      <4>3. QED
        BY <4>1, <4>2
    <3>5. QED
      BY <1>1, <3>3, <3>4 DEF Laid
  <2>6. CASE ~Opens(T, r)
    <3> DEFINE F == Front(T)
               N == Len(T)
               x == Longer(w, r)
    <3>1. /\ F \in Seq(TurnOf(E)) /\ Len(F) = N - 1 /\ N \in Nat \ {0}
          /\ T = Append(F, w) /\ w \in TurnOf(E) /\ V = Append(F, x)
      BY <2>1, <2>6, FrontLast
    <3>2. x \in TurnOf(E) /\ x.records = Append(w.records, r) /\ w.records \in Seq(E)
      BY <2>1, <2>4, <3>1 DEF Longer, TurnOf
    <3> HIDE DEF F, N, x
    <3>3. /\ \A t \in 0 .. N - 1 :
               FirstTurns(V, t) = FirstTurns(F, t) /\ FirstTurns(T, t) = FirstTurns(F, t)
          /\ FirstTurns(V, N - 1 + 1) = FirstTurns(F, N - 1) \o x.records
          /\ FirstTurns(T, N - 1 + 1) = FirstTurns(F, N - 1) \o w.records
      <4>1. /\ \A t \in 0 .. Len(F) : FirstTurns(Append(F, x), t) = FirstTurns(F, t)
            /\ FirstTurns(Append(F, x), Len(F) + 1) = FirstTurns(F, Len(F)) \o x.records
        BY <3>1, <3>2, OpenedLaid
      <4>2. /\ \A t \in 0 .. Len(F) : FirstTurns(Append(F, w), t) = FirstTurns(F, t)
            /\ FirstTurns(Append(F, w), Len(F) + 1) = FirstTurns(F, Len(F)) \o w.records
        BY <3>1, OpenedLaid
      <4> HIDE DEF T, V, w
      <4>3. QED
        BY <3>1, <4>1, <4>2
    <3>4. N - 1 + 1 = N /\ Len(V) = N /\ N - 1 \in 0 .. N - 1 /\ N - 1 \in 0 .. Len(F)
      BY <3>1, <3>2
    <3>5. FirstTurns(F, N - 1) \in Seq(E)
      BY <3>1, <3>4, FirstTurnsStep
    <3>6. FirstTurns(V, N) = FirstTurns(T, N) \o <<r>>
      <4>1. \A a, b \in Seq(E) : a \o Append(b, r) = (a \o b) \o <<r>>
        BY <2>1
      <4> DEFINE a == FirstTurns(F, N - 1)
                 b == w.records
      <4>2. a \in Seq(E) /\ b \in Seq(E)
        BY <3>2, <3>5
      <4>3. FirstTurns(V, N) = a \o Append(b, r) /\ FirstTurns(T, N) = a \o b
        BY <3>2, <3>3, <3>4
      <4> HIDE DEF a, b
      <4>4. QED
        BY <4>1, <4>2, <4>3
    <3>7. FirstTurns(V, Len(V)) = SubSeq(R, 1, k)
      BY <2>2, <2>3, <3>4, <3>6 DEF N
    <3>8. Len(FirstTurns(T, N)) = k - 1 /\ Len(FirstTurns(V, N)) = k
      BY <2>2, <2>3, <3>4, <3>7 DEF N
    <3>9. Len(FirstTurns(T, N - 1)) <= k - 1
      <4>1. N - 1 \in 0 .. Len(T) /\ N \in N - 1 .. Len(T)
        BY <3>1 DEF N
      <4>2. Len(FirstTurns(T, N - 1)) <= Len(FirstTurns(T, N))
        BY <2>1, <4>1, FirstTurnsGrow
      <4>3. QED
        BY <3>8, <4>2
    <3>10. FirstTurns(V, N - 1) = FirstTurns(T, N - 1) /\ Len(FirstTurns(T, N - 1)) \in Nat
      <4>1. FirstTurns(T, N - 1) \in Seq(E)
        BY <3>3, <3>4, <3>5
      <4>2. QED
        BY <3>3, <3>4, <4>1
    <3>11. ASSUME NEW n \in 1 .. k
           PROVE  InTurn(V, n, Len(g[n]))
      <4>1. CASE n = k
        <5>1. Len(g[n]) = N /\ N \in 1 .. Len(V)
          BY <3>1, <3>4, <4>1
        <5>2. Len(FirstTurns(V, N - 1)) < n /\ n <= Len(FirstTurns(V, N))
          BY <2>4, <3>8, <3>9, <3>10, <4>1
        <5>3. QED
          BY <5>1, <5>2 DEF InTurn
      <4>2. CASE n # k
        <5>1. n \in 1 .. k - 1
          BY <2>4, <4>2
        <5>2. InTurn(T, n, Len(g[n]))
          BY <2>2, <5>1
        <5>3. Len(g[n]) \in 1 .. N /\ Len(g[n]) \in 1 .. Len(V)
          BY <3>4, <5>2 DEF InTurn, N
        <5>4. CASE Len(g[n]) = N
          <6>1. Len(FirstTurns(V, N - 1)) < n /\ n <= Len(FirstTurns(V, N))
            BY <2>4, <3>8, <3>10, <5>2, <5>4 DEF InTurn
          <6>2. QED
            BY <5>3, <5>4, <6>1 DEF InTurn
        <5>5. CASE Len(g[n]) # N
          <6>1. Len(g[n]) \in 0 .. N - 1 /\ Len(g[n]) - 1 \in 0 .. N - 1
            BY <3>1, <5>3, <5>5
          <6>2. QED
            BY <3>3, <5>2, <5>3, <6>1 DEF InTurn
        <5>6. QED
          BY <5>4, <5>5
      <4>3. QED
        BY <4>1, <4>2
    <3>12. QED
      BY <1>1, <3>7, <3>11 DEF Laid
  <2>7. QED
    BY <2>5, <2>6
<1> HIDE DEF S
<1>4. 0 .. Len(R) \subseteq S
  BY <1>1, <1>2, <1>3, Turns!UpToFollows
<1>5. QED
  BY <1>4 DEF S

\* TurnAt finds it.
LEMMA TurnAtIs ==
  ASSUME NEW E, NEW T \in Seq(TurnOf(E)), NEW n \in Nat, NEW t, InTurn(T, n, t)
  PROVE  TurnAt(T, n) = t
<1> DEFINE At(u) == n <= Len(FirstTurns(T, u)) /\ n > Len(FirstTurns(T, u - 1))
<1>1. DOMAIN T = 1 .. Len(T) /\ Len(T) \in Nat
  OBVIOUS
<1>2. TurnAt(T, n) = CHOOSE u \in DOMAIN T : At(u)
  BY DEF TurnAt, FirstTurns
<1>3. \A u \in 0 .. Len(T) : Len(FirstTurns(T, u)) \in Nat
  <2>1. \A u \in 0 .. Len(T) : FirstTurns(T, u) \in Seq(E)
    BY FirstTurnsStep
  <2>2. QED
    BY <2>1
<1>4. t \in DOMAIN T /\ At(t)
  <2>1. t \in 1 .. Len(T) /\ t - 1 \in 0 .. Len(T)
    BY <1>1 DEF InTurn
  <2>2. Len(FirstTurns(T, t - 1)) \in Nat
    BY <1>3, <2>1
  <2>3. QED
    BY <1>1, <2>1, <2>2 DEF InTurn
<1>5. ASSUME NEW u \in DOMAIN T, NEW v \in DOMAIN T, At(u), At(v), u < v
      PROVE  FALSE
  <2>1. u \in 0 .. Len(T) /\ v - 1 \in u .. Len(T) /\ v - 1 \in 0 .. Len(T)
    BY <1>1, <1>5
  <2>2. Len(FirstTurns(T, u)) <= Len(FirstTurns(T, v - 1))
    BY <2>1, FirstTurnsGrow
  <2>3. Len(FirstTurns(T, u)) \in Nat /\ Len(FirstTurns(T, v - 1)) \in Nat
    BY <1>3, <2>1
  <2> DEFINE a == Len(FirstTurns(T, u))
             b == Len(FirstTurns(T, v - 1))
  <2>4. n <= a /\ n > b /\ a <= b /\ a \in Nat /\ b \in Nat
    BY <1>5, <2>2, <2>3
  <2> HIDE DEF a, b
  <2>5. QED
    BY <2>4
<1> HIDE DEF At
<1>6. ASSUME NEW u \in DOMAIN T, At(u)
      PROVE  u = t
  <2>1. u \in Nat /\ t \in Nat
    BY <1>1, <1>4
  <2>2. ~(u < t) /\ ~(t < u)
    BY <1>4, <1>5, <1>6
  <2>3. QED
    BY <2>1, <2>2
<1>7. QED
  BY <1>2, <1>4, <1>6

-------------------------------------------------------------------------------
(***************************************************************************)
(* Calls.                                                                  *)
(***************************************************************************)
Places(F, x) == {i \in DOMAIN F : F[i] = x}
Num(F, x)    == Cardinality(Places(F, x))

Aside == {"call", "context", "thinking"}

\* The calls with nothing but calls, context and thoughts after them.
Trail(F) == {i \in Places(F, "call") : \A j \in i .. Len(F) : F[j] \in Aside}

LEMMA PlacesFinite ==
  ASSUME NEW F \in Seq(Kind), NEW x
  PROVE  /\ IsFiniteSet(Places(F, x)) /\ Num(F, x) \in Nat
         /\ IsFiniteSet(Trail(F)) /\ Cardinality(Trail(F)) \in Nat
<1>1. IsFiniteSet(1 .. Len(F)) /\ DOMAIN F = 1 .. Len(F)
  BY FS_Interval
<1>2. Places(F, x) \subseteq 1 .. Len(F) /\ Trail(F) \subseteq 1 .. Len(F)
  BY <1>1 DEF Places, Trail
<1>3. QED
  BY <1>1, <1>2, FS_Subset, FS_CardinalityType DEF Num

LEMMA NumAppend ==
  ASSUME NEW F \in Seq(Kind), NEW y \in Kind, NEW x
  PROVE  /\ Num(F, x) \in Nat
         /\ Num(Append(F, y), x) = Num(F, x) + (IF y = x THEN 1 ELSE 0)
<1> DEFINE n == Len(F) + 1
           G == Append(F, y)
<1>1. /\ DOMAIN F = 1 .. Len(F) /\ DOMAIN G = (1 .. Len(F)) \cup {n} /\ n \notin 1 .. Len(F)
      /\ G[n] = y /\ \A i \in 1 .. Len(F) : G[i] = F[i]
  OBVIOUS
<1> HIDE DEF n, G
<1>2. Places(G, x) = IF y = x THEN Places(F, x) \cup {n} ELSE Places(F, x)
  BY <1>1 DEF Places
<1>3. n \notin Places(F, x) /\ IsFiniteSet(Places(F, x)) /\ Num(F, x) \in Nat
  BY <1>1, PlacesFinite DEF Places
<1>4. y = x => Cardinality(Places(F, x) \cup {n}) = Cardinality(Places(F, x)) + 1
  BY <1>3, FS_AddElement
<1>5. QED
  BY <1>2, <1>3, <1>4 DEF Num, G

\* A call joins the trail, words end it.
LEMMA TrailAppend ==
  ASSUME NEW F \in Seq(Kind), NEW y \in Kind
  PROVE  Cardinality(Trail(Append(F, y))) =
           IF y = "call" THEN Cardinality(Trail(F)) + 1
           ELSE IF y \in Aside THEN Cardinality(Trail(F)) ELSE 0
<1> DEFINE n == Len(F) + 1
           G == Append(F, y)
<1>1. /\ DOMAIN F = 1 .. Len(F) /\ DOMAIN G = (1 .. Len(F)) \cup {n} /\ n \notin 1 .. Len(F)
      /\ Len(G) = n /\ n \in Nat
      /\ G[n] = y /\ \A i \in 1 .. Len(F) : G[i] = F[i]
      /\ \A i \in 1 .. Len(F) : i .. n = (i .. Len(F)) \cup {n} /\ i .. Len(F) \subseteq 1 .. Len(F)
      /\ n .. n = {n}
  OBVIOUS
<1> HIDE DEF n, G
<1>2. \A i \in 1 .. Len(F) : i \in Trail(G) <=> i \in Trail(F) /\ y \in Aside
  <2>1. ASSUME NEW i \in 1 .. Len(F)
        PROVE  /\ i \in Places(G, "call") <=> i \in Places(F, "call")
               /\ (\A j \in i .. n : G[j] \in Aside) <=>
                    ((\A j \in i .. Len(F) : F[j] \in Aside) /\ y \in Aside)
    <3>1. i \in Places(G, "call") <=> i \in Places(F, "call")
      BY <1>1 DEF Places
    <3>2. \A j \in i .. Len(F) : G[j] = F[j]
      BY <1>1
    <3>3. QED
      BY <1>1, <3>1, <3>2
  <2>2. QED
    BY <1>1, <2>1 DEF Trail
<1>3. n \in Trail(G) <=> y = "call"
  BY <1>1 DEF Trail, Places, Aside
<1>4. Trail(G) \subseteq (1 .. Len(F)) \cup {n} /\ Trail(F) \subseteq 1 .. Len(F)
  BY <1>1 DEF Trail, Places
<1>5. IsFiniteSet(Trail(F)) /\ n \notin Trail(F)
  BY <1>1, <1>4, PlacesFinite
<1>6. CASE y = "call"
  <2>1. y \in Aside
    BY <1>6 DEF Aside
  <2>2. Trail(G) = Trail(F) \cup {n}
    BY <1>2, <1>3, <1>4, <1>6, <2>1
  <2>3. Cardinality(Trail(F) \cup {n}) = Cardinality(Trail(F)) + 1
    BY <1>5, FS_AddElement
  <2>4. QED
    BY <1>6, <2>2, <2>3 DEF G
<1>7. CASE y # "call" /\ y \in Aside
  <2>1. Trail(G) = Trail(F)
    BY <1>2, <1>3, <1>4, <1>5, <1>7
  <2>2. QED
    BY <1>7, <2>1 DEF G
<1>8. CASE y \notin Aside
  <2>1. y # "call"
    BY <1>8 DEF Aside
  <2>2. Trail(G) = {}
    BY <1>2, <1>3, <1>4, <1>8, <2>1
  <2>3. QED
    BY <1>8, <2>1, <2>2, FS_EmptySet DEF G
<1>9. QED
  BY <1>6, <1>7, <1>8

\* The last of some places, or 0.
LEMMA LastOrZero ==
  ASSUME NEW n \in Nat, NEW P \in SUBSET (1 .. n)
  PROVE  LET m == Max({0} \cup P)
         IN  m \in {0} \cup P /\ m \in 0 .. n /\ \A i \in P : i <= m
<1>1. CASE P = {}
  <2>1. {0} \cup P = {0}
    BY <1>1
  <2>2. Max({0}) = 0
    BY DEF Max
  <2>3. QED
    BY <1>1, <2>1, <2>2
<1>2. CASE P # {}
  <2> DEFINE m == Max(P)
  <2>1. m \in P /\ \A i \in P : i <= m
    BY <1>2, LastPlace
  <2> HIDE DEF m
  <2>2. m \in {0} \cup P /\ m \in 0 .. n /\ \A i \in {0} \cup P : m >= i /\ i \in Nat
    BY <2>1
  <2>3. \A x \in {0} \cup P : (\A y \in {0} \cup P : x >= y) => x = m
    BY <2>2
  <2>4. Max({0} \cup P) = CHOOSE x \in {0} \cup P : \A y \in {0} \cup P : x >= y
    BY DEF Max
  <2>5. Max({0} \cup P) = m
    BY <2>2, <2>3, <2>4
  <2>6. QED
    BY <2>1, <2>2, <2>5
<1>3. QED
  BY <1>1, <1>2

\* pending() looks at the end.
LEMMA PendingIs ==
  ASSUME NEW E, AreRecords(E), NEW w \in TurnOf(E), EntriesOf(w.records) \in Seq(Kind)
  PROVE  Pending(w) = Trail(EntriesOf(w.records))
<1> DEFINE F == EntriesOf(w.records)
           n == Len(F)
           P == {i \in 1 .. n : F[i] \notin Aside}
           S == LastOther(F, n, Aside)
<1>1. n \in Nat /\ DOMAIN F = 1 .. n /\ n = Len(F)
  OBVIOUS
<1> HIDE DEF F, n
<1>2. Pending(w) = {i \in S + 1 .. n : F[i] = "call"}
  BY DEF Pending, F, n, Aside
<1>3. S = Max({0} \cup P)
  BY DEF LastOther
<1>4. S \in {0} \cup P /\ \A i \in P : i <= S
  <2>1. P \in SUBSET (1 .. n)
    OBVIOUS
  <2> HIDE DEF P
  <2>2. QED
    BY <1>1, <1>3, <2>1, LastOrZero
<1> HIDE DEF S
<1>5. ASSUME NEW i \in 1 .. n
      PROVE  i >= S + 1 <=> \A j \in i .. n : F[j] \in Aside
  <2>1. S \in Nat /\ S <= n /\ (S # 0 => F[S] \notin Aside)
    BY <1>1, <1>4
  <2>2. \A j \in 1 .. n : j > S => F[j] \in Aside
    BY <1>1, <1>4, <2>1
  <2>3. QED
    BY <1>1, <2>1, <2>2
<1>6. S \in Nat
  BY <1>1, <1>4
<1>7. Trail(F) = {i \in 1 .. n : F[i] = "call" /\ \A j \in i .. n : F[j] \in Aside}
  BY <1>1 DEF Trail, Places, n
<1>8. \A i : i \in S + 1 .. n <=> i \in 1 .. n /\ i >= S + 1
  BY <1>1, <1>6
<1>9. {i \in S + 1 .. n : F[i] = "call"} =
        {i \in 1 .. n : F[i] = "call" /\ \A j \in i .. n : F[j] \in Aside}
  BY <1>5, <1>8
<1>10. QED
  BY <1>2, <1>7, <1>9 DEF F

Net(F)  == Num(F, "call") - Num(F, "result")
TrailCount(F) == Cardinality(Trail(F))

\* What one entry does to the calls without a result, and to the trail.
LEMMA OneEntry ==
  ASSUME NEW F \in Seq(Kind)
  PROVE  /\ Net(F) \in Int /\ TrailCount(F) \in Nat
         /\ Net(Append(F, "call")) = Net(F) + 1 /\ TrailCount(Append(F, "call")) = TrailCount(F) + 1
         /\ Net(Append(F, "result")) = Net(F) - 1 /\ TrailCount(Append(F, "result")) = 0
         /\ \A x \in {"text", "prompt"} : Net(Append(F, x)) = Net(F) /\ TrailCount(Append(F, x)) = 0
         /\ \A x \in {"context", "thinking"} :
              Net(Append(F, x)) = Net(F) /\ TrailCount(Append(F, x)) = TrailCount(F)
<1>1. Num(F, "call") \in Nat /\ Num(F, "result") \in Nat /\ TrailCount(F) \in Nat
  BY PlacesFinite DEF TrailCount
<1>2. ASSUME NEW y \in Kind
      PROVE  /\ Num(Append(F, y), "call") = Num(F, "call") + (IF y = "call" THEN 1 ELSE 0)
             /\ Num(Append(F, y), "result") = Num(F, "result") + (IF y = "result" THEN 1 ELSE 0)
             /\ TrailCount(Append(F, y)) = IF y = "call" THEN TrailCount(F) + 1
                                     ELSE IF y \in Aside THEN TrailCount(F) ELSE 0
  BY NumAppend, TrailAppend DEF TrailCount
<1>3. \A x \in {"text", "prompt", "call", "result", "context", "thinking"} : x \in Kind
  BY DEF Kind
<1>4. "text" \notin Aside /\ "prompt" \notin Aside /\ "result" \notin Aside
      /\ "call" \in Aside /\ "context" \in Aside /\ "thinking" \in Aside
  BY DEF Aside
<1> HIDE DEF Aside
<1>5. Net(Append(F, "call")) = Net(F) + 1 /\ TrailCount(Append(F, "call")) = TrailCount(F) + 1
  BY <1>1, <1>2, <1>3, <1>4 DEF Net
<1>6. Net(Append(F, "result")) = Net(F) - 1 /\ TrailCount(Append(F, "result")) = 0
  BY <1>1, <1>2, <1>3, <1>4 DEF Net
<1>7. \A x \in {"text", "prompt"} : Net(Append(F, x)) = Net(F) /\ TrailCount(Append(F, x)) = 0
  BY <1>1, <1>2, <1>3, <1>4 DEF Net
<1>8. \A x \in {"context", "thinking"} :
        Net(Append(F, x)) = Net(F) /\ TrailCount(Append(F, x)) = TrailCount(F)
  BY <1>1, <1>2, <1>3, <1>4 DEF Net
<1>9. QED
  BY <1>1, <1>5, <1>6, <1>7, <1>8 DEF Net

LEMMA OneByOne ==
  ASSUME NEW F \in Seq(Kind)
  PROVE  /\ F \o <<>> = F
         /\ \A x \in Kind : F \o <<x>> = Append(F, x) /\ Append(F, x) \in Seq(Kind)
         /\ \A x, y \in Kind : F \o <<x, y>> = Append(Append(F, x), y)
OBVIOUS

\* What a record's entries do: if the trail of the turn G was no longer than the calls
\* of the log F that wait, it still is not.
LEMMA EntriesCount ==
  ASSUME NEW F \in Seq(Kind), NEW e, e \in Sayings \cup {<<"result">>}
  PROVE  /\ e = <<"result">> => Net(F \o e) = Net(F) - 1
         /\ e \in Sayings => Net(F \o e) >= Net(F)
         /\ \A G \in Seq(Kind) :
              (TrailCount(G) <= Net(F) \/ G = <<>>) /\ Net(F) >= 0 /\ Net(F \o e) >= 0
                => TrailCount(G \o e) <= Net(F \o e)
<1>1. \A x \in {"text", "prompt", "call", "result", "context", "thinking"} : x \in Kind
  BY DEF Kind
<1>2. TrailCount(<<>>) = 0
  <2>1. Trail(<<>>) = {}
    BY DEF Trail, Places
  <2>2. QED
    BY <2>1, FS_EmptySet DEF TrailCount
<1> SUFFICES ASSUME NEW G \in Seq(Kind)
             PROVE  /\ e = <<"result">> => Net(F \o e) = Net(F) - 1
                    /\ e \in Sayings => Net(F \o e) >= Net(F)
                    /\ (TrailCount(G) <= Net(F) \/ G = <<>>) /\ Net(F) >= 0 /\ Net(F \o e) >= 0
                         => TrailCount(G \o e) <= Net(F \o e)
  <2>1. <<>> \in Seq(Kind)
    OBVIOUS
  <2>2. QED
    BY <2>1
<1>3. Net(F) \in Int /\ TrailCount(G) \in Nat /\ (G = <<>> => TrailCount(G) = 0)
  BY <1>2, OneEntry
<1> DEFINE Right(x) == /\ x = <<"result">> => Net(F \o x) = Net(F) - 1
                       /\ x # <<"result">> => Net(F \o x) >= Net(F)
                       /\ TrailCount(G) <= Net(F) /\ Net(F) >= 0 /\ Net(F \o x) >= 0
                            => TrailCount(G \o x) <= Net(F \o x)
<1>4. Right(<<>>)
  BY <1>3, OneByOne
<1>5. ASSUME NEW x \in {"text", "prompt", "context", "thinking", "call", "result"}
      PROVE  Right(<<x>>)
  <2>1. F \o <<x>> = Append(F, x) /\ G \o <<x>> = Append(G, x)
    BY <1>1, OneByOne
  <2> DEFINE u == F \o <<x>>
             v == G \o <<x>>
  <2>2. (<<x>> = <<"result">>) <=> x = "result"
    OBVIOUS
  <2>3. /\ x = "call" => Net(u) = Net(F) + 1 /\ TrailCount(v) = TrailCount(G) + 1
        /\ x = "result" => Net(u) = Net(F) - 1 /\ TrailCount(v) = 0
        /\ x \in {"text", "prompt"} => Net(u) = Net(F) /\ TrailCount(v) = 0
        /\ x \in {"context", "thinking"} => Net(u) = Net(F) /\ TrailCount(v) = TrailCount(G)
    <3>1. u = Append(F, x) /\ v = Append(G, x)
      BY <2>1
    <3> HIDE DEF u, v
    <3>2. CASE x = "call"
      BY <3>1, <3>2, OneEntry
    <3>3. CASE x = "result"
      BY <3>1, <3>3, OneEntry
    <3>4. CASE x \in {"text", "prompt"}
      <4>1. Net(u) = Net(F) /\ TrailCount(v) = 0
        BY <3>1, <3>4, OneEntry
      <4>2. QED
        BY <3>4, <4>1
    <3>5. CASE x \in {"context", "thinking"}
      <4>1. Net(u) = Net(F) /\ TrailCount(v) = TrailCount(G)
        BY <3>1, <3>5, OneEntry
      <4>2. QED
        BY <3>5, <4>1
    <3>6. QED
      BY <3>2, <3>3, <3>4, <3>5
  <2>4. /\ x = "result" => Net(u) = Net(F) - 1
        /\ x # "result" => Net(u) >= Net(F)
        /\ TrailCount(G) <= Net(F) /\ Net(F) >= 0 /\ Net(u) >= 0 => TrailCount(v) <= Net(u)
    <3> HIDE DEF u, v
    <3>1. QED
      BY <1>3, <2>3
  <2>5. QED
    BY <2>2, <2>4
<1>6. ASSUME NEW x \in {"call", "text"}, NEW y \in {"call", "result"}, x = "call" \/ y = "call"
      PROVE  Right(<<x, y>>)
  <2> DEFINE A == Append(F, x)
             B == Append(G, x)
  <2>1. /\ F \o <<x, y>> = Append(A, y) /\ G \o <<x, y>> = Append(B, y)
        /\ A \in Seq(Kind) /\ B \in Seq(Kind) /\ <<x, y>> # <<"result">>
    BY <1>1, OneByOne
  <2>2. /\ x = "call" => Net(A) = Net(F) + 1 /\ TrailCount(B) = TrailCount(G) + 1
        /\ x = "text" => Net(A) = Net(F) /\ TrailCount(B) = 0
    BY OneEntry
  <2> HIDE DEF A, B
  <2>3. /\ y = "call" => Net(Append(A, y)) = Net(A) + 1 /\ TrailCount(Append(B, y)) = TrailCount(B) + 1
        /\ y = "result" => Net(Append(A, y)) = Net(A) - 1 /\ TrailCount(Append(B, y)) = 0
    BY <2>1, OneEntry
  <2> DEFINE u == Append(A, y)
             v == Append(B, y)
  <2>4. /\ F \o <<x, y>> = u /\ G \o <<x, y>> = v
        /\ y = "call" => Net(u) = Net(A) + 1 /\ TrailCount(v) = TrailCount(B) + 1
        /\ y = "result" => Net(u) = Net(A) - 1 /\ TrailCount(v) = 0
    BY <2>1, <2>3
  <2> HIDE DEF u, v
  <2>5. Net(u) >= Net(F) /\ (TrailCount(G) <= Net(F) /\ Net(F) >= 0 => TrailCount(v) <= Net(u))
    <3>1. CASE x = "call" /\ y = "call"
      BY <1>3, <2>2, <2>4, <3>1
    <3>2. CASE x = "call" /\ y = "result"
      BY <1>3, <2>2, <2>4, <3>2
    <3>3. CASE x = "text" /\ y = "call"
      BY <1>3, <2>2, <2>4, <3>3
    <3>4. QED
      BY <1>6, <3>1, <3>2, <3>3
  <2>6. QED
    BY <2>1, <2>4, <2>5
<1>7. Right(e)
  <2> HIDE DEF Right
  <2>1. CASE e = <<>>
    BY <1>4, <2>1
  <2>2. CASE e \in {<<"text">>, <<"call">>, <<"thinking">>, <<"prompt">>, <<"context">>, <<"result">>}
    BY <1>5, <2>2
  <2>3. CASE e \in {<<"call", "call">>, <<"text", "call">>, <<"call", "result">>}
    BY <1>6, <2>3
  <2>4. QED
    BY <2>1, <2>2, <2>3 DEF Sayings
<1>8. e \in Sayings => e # <<"result">>
  <2>1. /\ <<>> # <<"result">> /\ <<"text">> # <<"result">> /\ <<"call">> # <<"result">>
        /\ <<"thinking">> # <<"result">> /\ <<"prompt">> # <<"result">>
        /\ <<"context">> # <<"result">>
    OBVIOUS
  <2>2. \A x, y : <<x, y>> # <<"result">>
    OBVIOUS
  <2>3. QED
    BY <2>1, <2>2 DEF Sayings
<1>9. QED
  BY <1>3, <1>7, <1>8

AreSpoken(E) == \A r \in E : Spoken(r)

BlankPlaces(R) == {n \in DOMAIN R : R[n].row = "blank"}

LEMMA WaitingIs ==
  ASSUME NEW E, AreRecords(E), NEW R \in Seq(E)
  PROVE  /\ Waiting(R) = Net(EntriesOf(R)) - Blanks(R)
         /\ EntriesOf(R) \in Seq(Kind) /\ Blanks(R) \in Nat /\ Net(EntriesOf(R)) \in Int
         /\ Blanks(R) = 0 => \A n \in 1 .. Len(R) : R[n].row # "blank"
         /\ (\A n \in 1 .. Len(R) : R[n].row # "blank") => Blanks(R) = 0
<1>1. EntriesOf(R) \in Seq(Kind)
  <2>1. CASE R = <<>>
    <3>1. <<>> \in Seq(Kind)
      OBVIOUS
    <3>2. QED
      BY <2>1, <3>1, EntriesOfFew
  <2>2. CASE R # <<>>
    <3>1. R[1] \in E
      BY <2>2
    <3>2. QED
      BY <3>1, EntriesAppend
  <2>3. QED
    BY <2>1, <2>2
<1>2. IsFiniteSet(BlankPlaces(R)) /\ Blanks(R) = Cardinality(BlankPlaces(R))
  <2>1. DOMAIN R = 1 .. Len(R) /\ IsFiniteSet(1 .. Len(R))
    BY FS_Interval
  <2>2. BlankPlaces(R) \subseteq 1 .. Len(R)
    BY <2>1 DEF BlankPlaces
  <2>3. QED
    BY <2>1, <2>2, FS_Subset DEF Blanks, BlankPlaces
<1>3. Blanks(R) \in Nat /\ (Blanks(R) = 0 <=> BlankPlaces(R) = {})
  BY <1>2, FS_CardinalityType, FS_EmptySet
<1>4. Waiting(R) = Net(EntriesOf(R)) - Blanks(R)
  BY DEF Waiting, NumberOf, Net, Num, Places
<1>5. Net(EntriesOf(R)) \in Int
  BY <1>1, OneEntry
<1>6. DOMAIN R = 1 .. Len(R)
  OBVIOUS
<1>7. QED
  BY <1>1, <1>3, <1>4, <1>5, <1>6 DEF BlankPlaces

LEMMA BlanksAppend ==
  ASSUME NEW E, AreRecords(E), NEW R \in Seq(E), NEW r \in E
  PROVE  Blanks(Append(R, r)) = Blanks(R) + (IF r.row = "blank" THEN 1 ELSE 0)
<1> DEFINE n == Len(R) + 1
           V == Append(R, r)
<1>1. /\ DOMAIN R = 1 .. Len(R) /\ DOMAIN V = (1 .. Len(R)) \cup {n} /\ n \notin 1 .. Len(R)
      /\ V[n] = r /\ \A i \in 1 .. Len(R) : V[i] = R[i]
  OBVIOUS
<1> HIDE DEF n, V
<1>2. BlankPlaces(V) = IF r.row = "blank" THEN BlankPlaces(R) \cup {n} ELSE BlankPlaces(R)
  BY <1>1 DEF BlankPlaces
<1>3. n \notin BlankPlaces(R) /\ IsFiniteSet(BlankPlaces(R))
  <2>1. BlankPlaces(R) \subseteq 1 .. Len(R) /\ IsFiniteSet(1 .. Len(R))
    BY <1>1, FS_Interval DEF BlankPlaces
  <2>2. QED
    BY <1>1, <2>1, FS_Subset
<1>4. Cardinality(BlankPlaces(R) \cup {n}) = Cardinality(BlankPlaces(R)) + 1
  BY <1>3, FS_AddElement
<1>5. Cardinality(BlankPlaces(R)) \in Nat
  BY <1>3, FS_CardinalityType
<1>6. Blanks(R) = Cardinality(BlankPlaces(R)) /\ Blanks(V) = Cardinality(BlankPlaces(V))
  BY DEF Blanks, BlankPlaces
<1>7. QED
  BY <1>2, <1>4, <1>5, <1>6 DEF V

\* What a record does to the number of calls that wait.
LEMMA WaitingAppend ==
  ASSUME NEW E, AreRecords(E), AreSpoken(E), NEW R \in Seq(E), NEW r \in E
  PROVE  /\ Waiting(R) \in Int /\ Waiting(Append(R, r)) \in Int
         /\ r.row \in DOMAIN Results => Waiting(Append(R, r)) = Waiting(R) - 1
         /\ r.row \notin DOMAIN Results => Waiting(Append(R, r)) >= Waiting(R)
<1> DEFINE V == Append(R, r)
           F == EntriesOf(R)
           a == Waiting(R)
           b == Waiting(V)
           m == Net(F)
           n == Net(F \o r.entries)
           x == Blanks(R)
           y == Blanks(V)
<1>1. V \in Seq(E)
  OBVIOUS
<1>2. EntriesOf(V) = F \o r.entries /\ F \in Seq(Kind)
  BY EntriesAppend
<1>3. a = m - x /\ m \in Int /\ x \in Nat
  BY WaitingIs
<1>4. b = n - y /\ n \in Int /\ y \in Nat
  BY <1>1, <1>2, WaitingIs
<1>5. y = x + (IF r.row = "blank" THEN 1 ELSE 0)
  BY BlanksAppend
<1>6. DOMAIN Results = {"result", "blank"}
  BY DEF Results
<1>7. /\ r.row = "result" => n = m - 1
      /\ r.row = "blank" => n = m
      /\ r.row \notin {"result", "blank"} => n >= m
  <2>1. Spoken(r)
    BY DEF AreSpoken
  <2>2. CASE r.row = "result"
    <3>1. r.entries = <<"result">>
      BY <2>1, <2>2 DEF Spoken
    <3>2. QED
      BY <1>2, <2>2, <3>1, EntriesCount
  <2>3. CASE r.row = "blank"
    <3>1. r.entries = <<>>
      BY <2>1, <2>3 DEF Spoken
    <3>2. QED
      BY <1>2, <2>3, <3>1, OneByOne
  <2>4. CASE r.row \notin {"result", "blank"}
    <3>1. r.entries \in Sayings
      BY <2>1, <2>4 DEF Spoken
    <3>2. QED
      BY <1>2, <2>4, <3>1, EntriesCount
  <2>5. QED
    BY <2>2, <2>3, <2>4
<1> HIDE DEF a, b, m, n, x, y
<1>8. /\ a \in Int /\ b \in Int
      /\ r.row \in DOMAIN Results => b = a - 1
      /\ r.row \notin DOMAIN Results => b >= a
  <2>1. CASE r.row = "result"
    BY <1>3, <1>4, <1>5, <1>6, <1>7, <2>1
  <2>2. CASE r.row = "blank"
    BY <1>3, <1>4, <1>5, <1>6, <1>7, <2>2
  <2>3. CASE r.row \notin {"result", "blank"}
    BY <1>3, <1>4, <1>5, <1>6, <1>7, <2>3
  <2>4. QED
    BY <2>1, <2>2, <2>3
<1>9. QED
  BY <1>8 DEF a, b, V

\* No result comes before its call.
Balanced(R) == \A k \in 0 .. Len(R) : Waiting(SubSeq(R, 1, k)) >= 0

\* The calls at the end of the newest turn wait for a result.
LEMMA PendingBounded ==
  ASSUME NEW E, AreRecords(E), AreSpoken(E), NEW R \in Seq(E), NEW g, Grow(g, R),
         Balanced(R), Blanks(R) = 0
  PROVE  \A k \in 1 .. Len(R) : Cardinality(Pending(Last(g[k]))) <= Waiting(SubSeq(R, 1, k))
<1> DEFINE P(k) == SubSeq(R, 1, k)
           L(k) == EntriesOf(Last(g[k]).records)
           OK(k) == TrailCount(L(k)) <= Net(EntriesOf(P(k)))
           S == {k \in 0 .. Len(R) : k # 0 => OK(k)}
<1>1. Len(R) \in Nat /\ 0 \in S
  OBVIOUS
<1>2. \A n \in 1 .. Len(R) : R[n].row # "blank"
  BY WaitingIs
<1>3. ASSUME NEW k \in 0 .. Len(R)
      PROVE  /\ P(k) \in Seq(E) /\ Waiting(P(k)) = Net(EntriesOf(P(k)))
             /\ Net(EntriesOf(P(k))) >= 0 /\ EntriesOf(P(k)) \in Seq(Kind)
             /\ Net(EntriesOf(P(k))) \in Int
  <2>1. P(k) \in Seq(E) /\ Len(P(k)) = k /\ \A n \in 1 .. k : P(k)[n] = R[n]
    <3>1. CASE k = 0
      BY <3>1
    <3>2. CASE k # 0
      <4>1. k \in 1 .. Len(R)
        BY <1>1, <3>2
      <4>2. P(k) \in Seq(E) /\ Len(P(k)) = k
        BY <4>1, PrefixAppend
      <4>3. \A n \in 1 .. k : P(k)[n] = R[n]
        BY <4>1
      <4>4. QED
        BY <4>2, <4>3
    <3>3. QED
      BY <3>1, <3>2
  <2> DEFINE Q == P(k)
  <2>2. Q \in Seq(E) /\ Len(Q) = k /\ \A n \in 1 .. Len(Q) : Q[n].row # "blank"
    BY <1>1, <1>2, <2>1
  <2>3. Waiting(Q) >= 0
    BY DEF Balanced
  <2> HIDE DEF Q
  <2>4. Waiting(Q) = Net(EntriesOf(Q)) - 0 /\ EntriesOf(Q) \in Seq(Kind) /\ Net(EntriesOf(Q)) \in Int
    BY <2>2, WaitingIs
  <2> DEFINE m == Net(EntriesOf(Q))
             a == Waiting(Q)
  <2>5. a = m - 0 /\ m \in Int /\ a >= 0
    BY <2>3, <2>4
  <2> HIDE DEF m, a
  <2>6. a = m /\ m >= 0
    BY <2>5
  <2>7. QED
    BY <2>2, <2>4, <2>6 DEF a, m, Q
<1>4. ASSUME NEW k \in 1 .. Len(R)
      PROVE  /\ Last(g[k]) \in TurnOf(E) /\ L(k) \in Seq(Kind)
             /\ k \in 0 .. Len(R)
  <2>1. k \in 0 .. Len(R) /\ k # 0
    BY <1>1
  <2>2. g[k] \in Seq(TurnOf(E)) /\ g[k] # <<>>
    BY <2>1, TurnsTyped
  <2>3. Last(g[k]) \in TurnOf(E)
    BY <2>2, FrontLast
  <2>4. Last(g[k]).records \in Seq(E)
    BY <2>3 DEF TurnOf
  <2>5. QED
    BY <2>1, <2>3, <2>4, WaitingIs
<1>5. ASSUME NEW k \in 1 .. Len(R), k - 1 \in S
      PROVE  k \in S
  <2> DEFINE r == R[k]
             w == Last(g[k - 1])
             F == EntriesOf(P(k - 1))
  <2>1. /\ Opens(g[k - 1], r) => Last(g[k]) = NewTurn(r)
        /\ ~Opens(g[k - 1], r) => k > 1 /\ w \in TurnOf(E) /\ Last(g[k]) = Longer(w, r)
        /\ r \in E
    BY LastTurn
  <2>2. k - 1 \in 0 .. Len(R) /\ k \in 0 .. Len(R)
    BY <1>1
  <2>3. P(k) = Append(P(k - 1), r)
    <3>1. P(k) = P(k - 1) \o <<r>> /\ P(k - 1) \in Seq(E)
      BY PrefixAppend
    <3>2. QED
      BY <2>1, <3>1
  <2>4. F \in Seq(Kind) /\ EntriesOf(P(k)) = F \o r.entries
    <3>1. P(k - 1) \in Seq(E)
      BY <1>3, <2>2
    <3> HIDE DEF P
    <3>2. EntriesOf(P(k - 1)) \in Seq(Kind)
          /\ EntriesOf(Append(P(k - 1), r)) = EntriesOf(P(k - 1)) \o r.entries
      BY <2>1, <3>1, EntriesAppend
    <3>3. QED
      BY <2>3, <3>2
  <2>5. Net(F) >= 0 /\ Net(F \o r.entries) >= 0
    <3>1. Net(EntriesOf(P(k))) >= 0 /\ Net(EntriesOf(P(k - 1))) >= 0
      BY <1>3, <2>2
    <3>2. QED
      BY <2>4, <3>1
  <2>6. r.entries \in Sayings \cup {<<"result">>} /\ r.entries \in Seq(Kind)
    BY <1>2, <2>1 DEF AreSpoken, Spoken, AreRecords
  <2>7. CASE Opens(g[k - 1], r)
    <3>1. L(k) = <<>> \o r.entries
      <4>1. L(k) = r.entries
        BY <2>1, <2>7, EntriesOfFew DEF NewTurn
      <4>2. QED
        BY <2>6, <4>1
    <3>2. <<>> \in Seq(Kind)
      OBVIOUS
    <3> HIDE DEF F
    <3>3. TrailCount(<<>> \o r.entries) <= Net(F \o r.entries)
      BY <2>4, <2>5, <2>6, <3>2, EntriesCount
    <3>4. OK(k)
      BY <2>4, <3>1, <3>3
    <3> HIDE DEF OK
    <3>5. QED
      BY <2>2, <3>4
  <2>8. CASE ~Opens(g[k - 1], r)
    <3>1. k > 1 /\ w \in TurnOf(E) /\ Last(g[k]) = Longer(w, r)
      BY <2>1, <2>8
    <3>2. k - 1 # 0 /\ k - 1 \in 1 .. Len(R)
      BY <1>1, <3>1
    <3>3. OK(k - 1)
      BY <1>5, <3>2
    <3>4. L(k - 1) \in Seq(Kind) /\ L(k) = L(k - 1) \o r.entries
      <4>1. w.records \in Seq(E)
        BY <3>1 DEF TurnOf
      <4>2. EntriesOf(w.records) \in Seq(Kind)
            /\ EntriesOf(Append(w.records, r)) = EntriesOf(w.records) \o r.entries
        BY <2>1, <4>1, EntriesAppend
      <4>3. Last(g[k]).records = Append(w.records, r)
        BY <3>1 DEF Longer
      <4>4. L(k) = EntriesOf(Append(w.records, r)) /\ L(k - 1) = EntriesOf(w.records)
        BY <4>3
      <4> HIDE DEF L, w
      <4>5. QED
        BY <4>2, <4>4
    <3> DEFINE G == L(k - 1)
    <3>5. G \in Seq(Kind) /\ TrailCount(G) <= Net(F) /\ L(k) = G \o r.entries
      BY <3>3, <3>4
    <3> HIDE DEF F, G
    <3>6. TrailCount(G \o r.entries) <= Net(F \o r.entries)
      BY <2>4, <2>5, <2>6, <3>5, EntriesCount
    <3>7. OK(k)
      BY <2>4, <3>5, <3>6
    <3> HIDE DEF OK
    <3>8. QED
      BY <2>2, <3>7
  <2>9. QED
    BY <2>7, <2>8
<1> HIDE DEF S
<1>6. 0 .. Len(R) \subseteq S
  BY <1>1, <1>5, Turns!UpToFollows
<1>7. ASSUME NEW k \in 1 .. Len(R)
      PROVE  Cardinality(Pending(Last(g[k]))) <= Waiting(P(k))
  <2>1. OK(k)
    <3>1. k \in S /\ k # 0
      BY <1>1, <1>4, <1>6
    <3> HIDE DEF OK
    <3>2. QED
      BY <3>1 DEF S
  <2>2. Pending(Last(g[k])) = Trail(L(k))
    BY <1>4, PendingIs
  <2>3. Waiting(P(k)) = Net(EntriesOf(P(k)))
    BY <1>3, <1>4
  <2>4. QED
    BY <2>1, <2>2, <2>3 DEF TrailCount
<1>8. QED
  BY <1>7

-------------------------------------------------------------------------------
\* There is a reply exactly if the turn has text.
LEMMA ReplyIs ==
  ASSUME NEW w, EntriesOf(w.records) \in Seq(Kind)
  PROVE  Reply(w) # {} <=> Says(w, "text")
<1> DEFINE F == EntriesOf(w.records)
           n == Len(F)
           P == {i \in DOMAIN F : F[i] = "text"}
           m == Max(P)
           s == LastOther(F, m, {"text"})
<1>1. n \in Nat /\ DOMAIN F = 1 .. n
  OBVIOUS
<1>2. Says(w, "text") <=> P # {}
  BY DEF Says, ToSet
<1>3. Reply(w) = IF P = {} THEN {} ELSE s + 1 .. m
  BY DEF Reply
<1>4. ASSUME P # {}
      PROVE  s + 1 .. m # {}
  <2>1. m \in P
    BY <1>1, <1>4, LastPlace
  <2>2. m \in Nat /\ F[m] = "text"
    BY <1>1, <2>1
  <2> DEFINE Q == {i \in 1 .. m : F[i] \notin {"text"}}
  <2>3. s = Max({0} \cup Q)
    BY DEF LastOther
  <2> HIDE DEF F, P, m, s
  <2>4. Q \in SUBSET (1 .. m) /\ m \notin Q
    BY <2>2
  <2> HIDE DEF Q
  <2>5. s \in {0} \cup Q /\ s \in 0 .. m
    BY <2>2, <2>3, <2>4, LastOrZero
  <2>6. m # 0
    BY <1>1, <2>1 DEF P
  <2>7. s + 1 <= m
    BY <2>2, <2>4, <2>5, <2>6
  <2>8. m \in s + 1 .. m
    BY <2>2, <2>5, <2>7
  <2>9. QED
    BY <2>8
<1> HIDE DEF P, m, s
<1>5. QED
  BY <1>2, <1>3, <1>4

\* The records since the last of those that ask for work.
LEMMA SinceIs ==
  ASSUME NEW R, NEW E, AreRecords(E), R \in Seq(E)
  PROVE  (Max({0} \cup {n \in DOMAIN R : R[n].starts}) .. Len(R)) \ {0} = Since(R, Len(R))
<1> DEFINE K == Len(R)
           P == {n \in DOMAIN R : R[n].starts}
           s == Max({0} \cup P)
<1>1. K \in Nat /\ DOMAIN R = 1 .. K
  OBVIOUS
<1> HIDE DEF K
<1>2. s \in {0} \cup P /\ s \in 0 .. K /\ \A i \in P : i <= s
  <2>1. P \in SUBSET (1 .. K)
    BY <1>1
  <2> HIDE DEF P
  <2>2. QED
    BY <1>1, <2>1, LastOrZero
<1> HIDE DEF s
<1>3. ASSUME NEW n \in 1 .. K
      PROVE  n >= s <=> \A j \in n + 1 .. K : ~R[j].starts
  <2>1. \A j \in 1 .. K : j > s => ~R[j].starts
    BY <1>1, <1>2
  <2>2. s # 0 => s \in 1 .. K /\ R[s].starts
    BY <1>1, <1>2
  <2>3. n >= s => \A j \in n + 1 .. K : j \in 1 .. K /\ j > s
    BY <1>1, <1>2
  <2>4. ~(n >= s) => s # 0 /\ s \in n + 1 .. K
    BY <1>1, <1>2
  <2>5. QED
    BY <2>1, <2>2, <2>3, <2>4
<1>4. \A n : n \in (s .. K) \ {0} <=> n \in 1 .. K /\ n >= s
  BY <1>1, <1>2
<1>5. (s .. K) \ {0} = Since(R, K)
  BY <1>3, <1>4 DEF Since
<1>6. QED
  BY <1>5 DEF s, K

\* latest() has the newest turn, and not more than it was asked for.
LEMMA LatestIs ==
  ASSUME NEW T, NEW E, T \in Seq(E), T # <<>>, NEW count \in 1 .. Len(T)
  PROVE  Len(T) \in Latest(T, count) /\ Cardinality(Latest(T, count)) <= count
<1> DEFINE K == Len(T)
           P == {n \in DOMAIN T : n = K \/ HasOutput(T[n])}
           After(n) == {m \in P : m > n}
           L == Latest(T, count)
<1>1. K \in Nat /\ K \in 1 .. K /\ DOMAIN T = 1 .. K /\ count \in 1 .. K
  OBVIOUS
<1>2. L = {n \in P : Cardinality(After(n)) < count}
  BY DEF Latest
<1> HIDE DEF L
<1>3. P \subseteq 1 .. K /\ K \in P /\ count \in Nat /\ count >= 1
  BY <1>1
<1> HIDE DEF P, K
<1>4. \A n : IsFiniteSet(After(n)) /\ Cardinality(After(n)) \in Nat
  <2>1. \A n : After(n) \subseteq 1 .. K
    BY <1>3
  <2>2. IsFiniteSet(1 .. K)
    BY <1>1, FS_Interval
  <2>3. QED
    BY <2>1, <2>2, FS_Subset, FS_CardinalityType
<1>5. K \in L
  <2>1. After(K) = {}
    <3>1. \A m \in P : m \in 1 .. K
      BY <1>3
    <3>2. \A m \in P : ~(m > K)
      BY <1>1, <3>1
    <3>3. QED
      BY <3>2
  <2>2. Cardinality(After(K)) = 0
    BY <2>1, FS_EmptySet
  <2>3. QED
    BY <1>2, <1>3, <2>2
<1>6. Cardinality(L) <= count
  <2> DEFINE Q == {i \in 1 .. K : K + 1 - i \in L}
             j == Max(Q)
             n == K + 1 - j
  <2>1. L \subseteq 1 .. K /\ L \subseteq P
    BY <1>2, <1>3
  <2>2. Q \in SUBSET (1 .. K) /\ 1 \in Q
    BY <1>1, <1>5
  <2>3. j \in Q /\ \A i \in Q : i <= j
    <3> HIDE DEF Q
    <3>1. QED
      BY <1>1, <2>2, LastPlace
  <2> HIDE DEF j
  <2>4. n \in L /\ n \in 1 .. K
    BY <1>1, <2>3
  <2>5. ASSUME NEW m \in L
        PROVE  m >= n
    <3>1. m \in 1 .. K /\ j \in 1 .. K
      BY <2>1, <2>3
    <3>2. K + 1 - m \in 1 .. K /\ K + 1 - (K + 1 - m) = m
      BY <1>1, <3>1
    <3>3. K + 1 - m \in Q
      BY <3>2
    <3>4. K + 1 - m <= j
      BY <2>3, <3>3
    <3>5. QED
      BY <1>1, <3>1, <3>2, <3>4
  <2> HIDE DEF n
  <2>6. L \subseteq After(n) \cup {n}
    BY <1>1, <2>1, <2>4, <2>5
  <2> DEFINE A == After(n)
  <2>7. IsFiniteSet(A) /\ Cardinality(A) \in Nat /\ Cardinality(A) < count
    BY <1>2, <1>4, <2>4
  <2>8. n \notin A
    BY <2>4
  <2> HIDE DEF A
  <2>9. IsFiniteSet(A \cup {n}) /\ Cardinality(A \cup {n}) = Cardinality(A) + 1
    BY <2>7, <2>8, FS_AddElement
  <2>10. L \subseteq A \cup {n}
    BY <2>6 DEF A
  <2>11. IsFiniteSet(L) /\ Cardinality(L) <= Cardinality(A \cup {n})
    BY <2>9, <2>10, FS_Subset
  <2>12. Cardinality(L) \in Nat
    BY <2>11, FS_CardinalityType
  <2>13. QED
    BY <1>3, <2>7, <2>9, <2>11, <2>12
<1>7. QED
  BY <1>5, <1>6 DEF L, K

-------------------------------------------------------------------------------
\* The record of a row of a harness, and the log of its lines.
RecordOf(h, row) == [row |-> row, entries |-> RowsOf[h][row].entries,
                     starts |-> RowsOf[h][row].starts, ends |-> RowsOf[h][row].ends]
RecordsOf(h) == {RecordOf(h, row) : row \in DOMAIN RowsOf[h]}

Ids(log)     == {log[n].id : n \in DOMAIN log}
LogOf(h, log) == [id \in Ids(log) |-> RecordOf(h, LastWritten(log, id).row)]
LineOf(h)    == [id : Nat \ {0}, row : DOMAIN RowsOf[h]]
Newest(log)  == IF log = <<>> THEN 0 ELSE Last(log).id

\* The harness numbers its messages, only the newest grows, and no result comes
\* before its call.
HarnessInv ==
  /\ harness \in Provider
  /\ lines \in Seq(LineOf(harness))
  /\ Ids(lines) = 1 .. Newest(lines)
  /\ Balanced(FullLog(lines))

LEMMA FullLogIs ==
  /\ FullLog(lines) = LogOf(harness, lines)
  /\ FullLog(lines)' = LogOf(harness', lines')
BY DEF FullLog, LogOf, RecordOf, Ids, LastWritten

\* Every provider's records are of the kind the lemmas speak of.
LEMMA RecordsFit ==
  ASSUME NEW h \in Provider
  PROVE  /\ AreRecords(RecordsOf(h)) /\ AreSpoken(RecordsOf(h))
         /\ \A row \in DOMAIN RowsOf[h] : RecordOf(h, row) \in RecordsOf(h)
<1>1. h \in DOMAIN RowsOf
  BY TurnsAssumption
<1>2. \A e \in Sayings \cup {<<"result">>} : e \in Seq(Kind)
  <2>1. \A x \in Kind : <<x>> \in Seq(Kind)
    OBVIOUS
  <2>2. \A x, y \in Kind : <<x, y>> \in Seq(Kind)
    OBVIOUS
  <2>3. <<>> \in Seq(Kind)
    OBVIOUS
  <2>4. \A x \in {"text", "prompt", "call", "result", "context", "thinking"} : x \in Kind
    BY DEF Kind
  <2>5. QED
    BY <2>1, <2>2, <2>3, <2>4 DEF Sayings
<1>3. ASSUME NEW row \in DOMAIN RowsOf[h]
      PROVE  LET r == RecordOf(h, row)
             IN  r.entries \in Seq(Kind) /\ r.starts \in BOOLEAN /\ r.ends \in BOOLEAN /\ Spoken(r)
  <2> DEFINE v == RowsOf[h][row]
             r == RecordOf(h, row)
  <2>1. RecOK(v, row)
    BY <1>1, AllRowsOK DEF RowsOK
  <2>2. r.row = row /\ r.entries = v.entries /\ r.starts = v.starts /\ r.ends = v.ends
    BY DEF RecordOf
  <2> HIDE DEF v, r
  <2>3. Spoken(r) /\ r.starts \in BOOLEAN /\ r.ends \in BOOLEAN
    BY <2>1, <2>2 DEF RecOK, Spoken
  <2>4. r.entries \in Seq(Kind)
    <3>1. r.entries \in Sayings \cup {<<"result">>}
      <4>1. <<>> \in Sayings
        BY DEF Sayings
      <4>2. QED
        BY <2>3, <4>1 DEF Spoken
    <3>2. QED
      BY <1>2, <3>1
  <2>5. QED
    BY <2>3, <2>4 DEF r
<1>4. QED
  BY <1>3 DEF RecordsOf, AreRecords, AreSpoken

LEMMA LastWrittenIs ==
  ASSUME NEW log, NEW id, NEW n \in DOMAIN log, DOMAIN log \subseteq Nat, log[n].id = id,
         \A m \in DOMAIN log : log[m].id = id => m <= n
  PROVE  LastWritten(log, id) = log[n]
<1> DEFINE Newer(k) == log[k].id = id /\ \A m \in DOMAIN log : log[m].id = id => m <= k
<1>1. LastWritten(log, id) = log[CHOOSE k \in DOMAIN log : Newer(k)]
  BY DEF LastWritten
<1>2. \A k \in DOMAIN log : Newer(k) => k = n
  OBVIOUS
<1>3. Newer(n)
  OBVIOUS
<1> HIDE DEF Newer
<1>4. QED
  BY <1>1, <1>2, <1>3

\* Each id has a line that was written last.
LEMMA SomeLastLine ==
  ASSUME NEW L, NEW log \in Seq(L), NEW id \in Ids(log)
  PROVE  \E n \in 1 .. Len(log) : /\ log[n].id = id
                                  /\ \A m \in 1 .. Len(log) : log[m].id = id => m <= n
                                  /\ LastWritten(log, id) = log[n]
<1> DEFINE P == {n \in 1 .. Len(log) : log[n].id = id}
<1>1. DOMAIN log = 1 .. Len(log) /\ Len(log) \in Nat
  OBVIOUS
<1>2. P \in SUBSET (1 .. Len(log)) /\ P # {}
  BY <1>1 DEF Ids
<1>3. Max(P) \in P /\ \A i \in P : i <= Max(P)
  <2> HIDE DEF P
  <2>1. QED
    BY <1>1, <1>2, LastPlace
<1> DEFINE n == Max(P)
<1>4. n \in 1 .. Len(log) /\ log[n].id = id /\ \A m \in 1 .. Len(log) : log[m].id = id => m <= n
  BY <1>3
<1> HIDE DEF n
<1>5. DOMAIN log \subseteq Nat /\ n \in DOMAIN log /\ \A m \in DOMAIN log : log[m].id = id => m <= n
  BY <1>1, <1>4
<1>6. QED
  BY <1>4, <1>5, LastWrittenIs

\* A line sets the record of its id.
LEMMA LogAppend ==
  ASSUME NEW h, NEW log \in Seq(LineOf(h)), NEW l \in LineOf(h)
  PROVE  /\ Ids(Append(log, l)) = Ids(log) \cup {l.id}
         /\ LogOf(h, Append(log, l))[l.id] = RecordOf(h, l.row)
         /\ \A id \in Ids(log) : id # l.id => LogOf(h, Append(log, l))[id] = LogOf(h, log)[id]
<1> DEFINE N == Len(log) + 1
           V == Append(log, l)
<1>1. /\ DOMAIN log = 1 .. Len(log) /\ DOMAIN V = 1 .. N /\ Len(V) = N /\ V \in Seq(LineOf(h))
      /\ N \in 1 .. N /\ Len(log) \in Nat
      /\ 1 .. N = (1 .. Len(log)) \cup {N}
      /\ V[N] = l /\ \A i \in 1 .. Len(log) : V[i] = log[i]
  OBVIOUS
<1> HIDE DEF N, V
<1>2. Ids(V) = Ids(log) \cup {l.id}
  BY <1>1 DEF Ids
<1>3. LastWritten(V, l.id) = l
  <2>1. \A m \in DOMAIN V : m <= N
    BY <1>1
  <2>2. DOMAIN V \subseteq Nat
    BY <1>1
  <2>3. QED
    BY <1>1, <2>1, <2>2, LastWrittenIs
<1>4. ASSUME NEW id \in Ids(log), id # l.id
      PROVE  LastWritten(V, id) = LastWritten(log, id)
  <2>1. PICK n \in 1 .. Len(log) : /\ log[n].id = id
                                   /\ \A m \in 1 .. Len(log) : log[m].id = id => m <= n
                                   /\ LastWritten(log, id) = log[n]
    BY SomeLastLine
  <2>2. n \in DOMAIN V /\ V[n].id = id /\ V[n] = log[n]
    BY <1>1, <2>1
  <2>3. \A m \in DOMAIN V : V[m].id = id => m <= n
    BY <1>1, <1>4, <2>1
  <2>4. DOMAIN V \subseteq Nat
    BY <1>1
  <2>5. QED
    BY <2>1, <2>2, <2>3, <2>4, LastWrittenIs
<1>5. LogOf(h, V)[l.id] = RecordOf(h, l.row)
  BY <1>2, <1>3 DEF LogOf
<1>6. \A id \in Ids(log) : id # l.id => LogOf(h, V)[id] = LogOf(h, log)[id]
  BY <1>2, <1>4 DEF LogOf
<1>7. QED
  BY <1>2, <1>5, <1>6 DEF V

\* The records are a sequence.
LEMMA LogIsSeq ==
  ASSUME NEW h \in Provider, NEW log \in Seq(LineOf(h)), NEW K \in Nat, Ids(log) = 1 .. K
  PROVE  LogOf(h, log) \in Seq(RecordsOf(h)) /\ Len(LogOf(h, log)) = K
<1> DEFINE R == LogOf(h, log)
<1>1. DOMAIN R = 1 .. K
  BY DEF LogOf
<1>2. ASSUME NEW id \in 1 .. K
      PROVE  R[id] \in RecordsOf(h)
  <2>1. PICK n \in 1 .. Len(log) : LastWritten(log, id) = log[n]
    BY SomeLastLine
  <2>2. log[n] \in LineOf(h)
    OBVIOUS
  <2>3. log[n].row \in DOMAIN RowsOf[h]
    BY <2>2 DEF LineOf
  <2>4. R[id] = RecordOf(h, log[n].row)
    BY <2>1 DEF LogOf
  <2>5. QED
    BY <2>3, <2>4, RecordsFit
<1>3. R = [id \in 1 .. K |-> R[id]]
  BY <1>1 DEF LogOf
<1> HIDE DEF R
<1>4. [id \in 1 .. K |-> R[id]] \in Seq(RecordsOf(h))
  BY <1>2, IsASeq
<1>5. R \in Seq(RecordsOf(h))
  BY <1>3, <1>4
<1>6. Len(R) \in Nat /\ DOMAIN R = 1 .. Len(R)
  BY <1>5
<1>7. Len(R) = K
  BY <1>1, <1>6
<1>8. QED
  BY <1>5, <1>7 DEF R

LEMMA PrefixItems ==
  ASSUME NEW E, NEW R \in Seq(E), NEW n \in 0 .. Len(R)
  PROVE  /\ SubSeq(R, 1, n) \in Seq(E) /\ Len(SubSeq(R, 1, n)) = n
         /\ \A i \in 1 .. n : SubSeq(R, 1, n)[i] = R[i]
<1>1. CASE n = 0
  BY <1>1
<1>2. CASE n # 0
  <2>1. n \in 1 .. Len(R)
    BY <1>2
  <2>2. SubSeq(R, 1, n) \in Seq(E) /\ Len(SubSeq(R, 1, n)) = n
    BY <2>1, PrefixAppend
  <2>3. \A i \in 1 .. n : SubSeq(R, 1, n)[i] = R[i]
    OBVIOUS
  <2>4. QED
    BY <2>2, <2>3
<1>3. QED
  BY <1>1, <1>2

\* Sequences have the same prefix if they have the same items that far.
LEMMA SamePrefix ==
  ASSUME NEW E, NEW R \in Seq(E), NEW P \in Seq(E), NEW n \in 0 .. Len(R), n <= Len(P),
         \A i \in 1 .. n : P[i] = R[i]
  PROVE  SubSeq(P, 1, n) = SubSeq(R, 1, n)
<1> DEFINE A == SubSeq(P, 1, n)
           B == SubSeq(R, 1, n)
<1>1. n \in 0 .. Len(P)
  OBVIOUS
<1>2. /\ A \in Seq(E) /\ Len(A) = n /\ \A i \in 1 .. n : A[i] = P[i]
      /\ B \in Seq(E) /\ Len(B) = n /\ \A i \in 1 .. n : B[i] = R[i]
  BY <1>1, PrefixItems
<1> HIDE DEF A, B
<1>3. \A i \in 1 .. Len(A) : A[i] = B[i]
  BY <1>2
<1>4. A = B
  BY <1>2, <1>3, SeqEqual
<1>5. QED
  BY <1>4 DEF A, B

LEMMA PrefixIs ==
  ASSUME NEW E, NEW R \in Seq(E), NEW n \in 0 .. Len(R)
  PROVE  LET P == SubSeq(R, 1, n)
         IN  /\ P \in Seq(E) /\ Len(P) = n /\ (n = Len(R) => P = R)
             /\ \A i \in 1 .. n : P[i] = R[i]
             /\ \A k \in 0 .. n : SubSeq(P, 1, k) = SubSeq(R, 1, k)
<1> DEFINE P == SubSeq(R, 1, n)
<1>1. P \in Seq(E) /\ Len(P) = n /\ \A i \in 1 .. n : P[i] = R[i]
  BY PrefixItems
<1> HIDE DEF P
<1>2. n = Len(R) => P = R
  BY <1>1, SeqEqual
<1>3. ASSUME NEW k \in 0 .. n
      PROVE  SubSeq(P, 1, k) = SubSeq(R, 1, k)
  <2>1. k \in 0 .. Len(R) /\ k <= Len(P) /\ \A i \in 1 .. k : P[i] = R[i]
    BY <1>1
  <2>2. QED
    BY <1>1, <2>1, SamePrefix
<1>4. QED
  BY <1>1, <1>2, <1>3 DEF P

LEMMA PrefixOfAppend ==
  ASSUME NEW E, NEW R \in Seq(E), NEW r \in E
  PROVE  /\ Append(R, r) \in Seq(E) /\ Len(Append(R, r)) = Len(R) + 1 /\ Len(R) \in Nat
         /\ \A k \in 0 .. Len(R) : SubSeq(Append(R, r), 1, k) = SubSeq(R, 1, k)
         /\ SubSeq(Append(R, r), 1, Len(R) + 1) = Append(R, r)
<1> DEFINE V == Append(R, r)
<1>1. V \in Seq(E) /\ Len(V) = Len(R) + 1 /\ Len(R) \in Nat
      /\ \A i \in 1 .. Len(R) : V[i] = R[i]
  OBVIOUS
<1> HIDE DEF V
<1>2. ASSUME NEW k \in 0 .. Len(R)
      PROVE  SubSeq(V, 1, k) = SubSeq(R, 1, k)
  <2>1. k <= Len(V) /\ \A i \in 1 .. k : V[i] = R[i]
    BY <1>1
  <2>2. QED
    BY <1>1, <2>1, SamePrefix
<1>3. Len(R) + 1 \in 0 .. Len(V) /\ Len(R) + 1 = Len(V)
  BY <1>1
<1>4. SubSeq(V, 1, Len(R) + 1) = V
  BY <1>1, <1>3, PrefixIs
<1>5. QED
  BY <1>1, <1>2, <1>4 DEF V

LEMMA BalancedPrefix ==
  ASSUME NEW E, NEW R \in Seq(E), Balanced(R), NEW n \in 0 .. Len(R)
  PROVE  Balanced(SubSeq(R, 1, n)) /\ Waiting(SubSeq(R, 1, n)) >= 0
<1>1. Len(SubSeq(R, 1, n)) = n /\ \A k \in 0 .. n : SubSeq(SubSeq(R, 1, n), 1, k) = SubSeq(R, 1, k)
  BY PrefixIs
<1>2. \A k \in 0 .. n : k \in 0 .. Len(R)
  OBVIOUS
<1>3. QED
  BY <1>1, <1>2 DEF Balanced

LEMMA BalancedAppend ==
  ASSUME NEW E, AreRecords(E), AreSpoken(E), NEW R \in Seq(E), NEW r \in E, Balanced(R),
         r.row \in DOMAIN Results => Waiting(R) > 0
  PROVE  Balanced(Append(R, r))
<1> DEFINE V == Append(R, r)
<1>1. /\ V \in Seq(E) /\ Len(V) = Len(R) + 1 /\ Len(R) \in Nat
      /\ \A k \in 0 .. Len(R) : SubSeq(V, 1, k) = SubSeq(R, 1, k)
      /\ SubSeq(V, 1, Len(R) + 1) = V
  BY PrefixOfAppend
<1>2. Waiting(R) >= 0
  <2>1. Len(R) \in 0 .. Len(R)
    BY <1>1
  <2>2. SubSeq(R, 1, Len(R)) = R
    BY <2>1, PrefixIs
  <2>3. QED
    BY <2>1, <2>2 DEF Balanced
<1>3. Waiting(V) >= 0
  <2> DEFINE a == Waiting(R)
             b == Waiting(V)
  <2>1. /\ a \in Int /\ b \in Int
        /\ r.row \in DOMAIN Results => b = a - 1
        /\ r.row \notin DOMAIN Results => b >= a
    BY WaitingAppend
  <2>2. a >= 0 /\ (r.row \in DOMAIN Results => a > 0)
    BY <1>2
  <2> HIDE DEF a, b
  <2>3. b >= 0
    BY <2>1, <2>2
  <2>4. QED
    BY <2>3 DEF b
<1> HIDE DEF V
<1>4. ASSUME NEW k \in 0 .. Len(V)
      PROVE  Waiting(SubSeq(V, 1, k)) >= 0
  <2>1. CASE k \in 0 .. Len(R)
    BY <1>1, <2>1 DEF Balanced
  <2>2. CASE k = Len(R) + 1
    BY <1>1, <1>3, <2>2
  <2>3. QED
    BY <1>1, <2>1, <2>2
<1>5. QED
  BY <1>4 DEF Balanced, V

LEMMA NoLogBalanced ==
  ASSUME NEW h
  PROVE  Ids(<<>>) = 1 .. 0 /\ LogOf(h, <<>>) = <<>> /\ Balanced(<<>>)
<1>1. Ids(<<>>) = {} /\ 1 .. 0 = {}
  BY DEF Ids
<1>2. LogOf(h, <<>>) = <<>>
  BY <1>1 DEF LogOf
<1>3. Waiting(<<>>) >= 0
  <2> DEFINE E == {}
  <2>1. <<>> \in Seq(E) /\ AreRecords(E)
    BY DEF AreRecords
  <2>2. Blanks(<<>>) = 0
    <3>1. Len(<<>>) = 0
      OBVIOUS
    <3>2. \A n \in 1 .. Len(<<>>) : <<>>[n].row # "blank"
      BY <3>1
    <3>3. QED
      BY <2>1, <3>2, WaitingIs
  <2>3. Net(<<>>) = 0
    <3>1. Places(<<>>, "call") = {} /\ Places(<<>>, "result") = {}
      BY DEF Places
    <3>2. Num(<<>>, "call") = 0 /\ Num(<<>>, "result") = 0
      BY <3>1, FS_EmptySet DEF Num
    <3>3. QED
      BY <3>2 DEF Net
  <2>4. Waiting(<<>>) = Net(EntriesOf(<<>>)) - Blanks(<<>>)
    BY <2>1, WaitingIs
  <2>5. EntriesOf(<<>>) = <<>>
    BY EntriesOfFew
  <2>6. Waiting(<<>>) = 0 - 0
    BY <2>2, <2>3, <2>4, <2>5
  <2>7. QED
    BY <2>6
<1>4. Balanced(<<>>)
  <2>1. \A k \in 0 .. Len(<<>>) : SubSeq(<<>>, 1, k) = <<>>
    OBVIOUS
  <2>2. QED
    BY <1>3, <2>1 DEF Balanced
<1>5. QED
  BY <1>1, <1>2, <1>4

\* The newest line's id is the number of records.
LEMMA NewestIs ==
  ASSUME HarnessInv
  PROVE  /\ Newest(lines) \in Nat
         /\ FullLog(lines) \in Seq(RecordsOf(harness)) /\ Len(FullLog(lines)) = Newest(lines)
         /\ Cardinality({lines[n].id : n \in DOMAIN lines}) = Newest(lines)
         /\ lines # <<>> => /\ Last(lines) \in LineOf(harness) /\ Newest(lines) = Last(lines).id
                            /\ Newest(lines) # 0
<1>1. lines # <<>> => Last(lines) \in LineOf(harness)
  BY FrontLast DEF HarnessInv
<1>2. lines # <<>> => Newest(lines) = Last(lines).id /\ Last(lines).id \in Nat \ {0}
  BY <1>1 DEF Newest, LineOf
<1>3. lines = <<>> => Newest(lines) = 0
  BY DEF Newest
<1>4. Newest(lines) \in Nat
  BY <1>2, <1>3
<1>5. FullLog(lines) \in Seq(RecordsOf(harness)) /\ Len(FullLog(lines)) = Newest(lines)
  BY <1>4, LogIsSeq, FullLogIs DEF HarnessInv
<1>6. Cardinality({lines[n].id : n \in DOMAIN lines}) = Newest(lines)
  <2> DEFINE K == Newest(lines)
  <2>1. {lines[n].id : n \in DOMAIN lines} = 1 .. K /\ K \in Nat
    BY <1>4 DEF HarnessInv, Ids
  <2> HIDE DEF K
  <2>2. Cardinality(1 .. K) = K
    BY <2>1, FS_Interval
  <2>3. QED
    BY <2>1, <2>2 DEF K
<1>7. QED
  BY <1>1, <1>2, <1>4, <1>5, <1>6

\* A line of the record after the n-th: the log goes on from there.
LEMMA LogGoesOn ==
  ASSUME HarnessInv, NEW n \in 0 .. Newest(lines), n >= Newest(lines) - 1,
         NEW row \in DOMAIN RowsOf[harness], harness' = harness,
         AppendLine(n + 1, row),
         row \in DOMAIN Results => n = Newest(lines) /\ Waiting(FullLog(lines)) > 0
  PROVE  HarnessInv'
<1> DEFINE h == harness
           K == Newest(lines)
           l == [id |-> n + 1, row |-> row]
           R == FullLog(lines)
           r == RecordOf(h, row)
           P == SubSeq(R, 1, n)
           V == LogOf(h, lines')
<1>1. /\ h \in Provider /\ lines \in Seq(LineOf(h)) /\ Ids(lines) = 1 .. K /\ Balanced(R)
      /\ lines' = Append(lines, l) /\ R = LogOf(h, lines)
  BY FullLogIs DEF HarnessInv, AppendLine
<1>2. K \in Nat /\ R \in Seq(RecordsOf(h)) /\ Len(R) = K
  BY NewestIs
<1>3. l \in LineOf(h) /\ l.id = n + 1 /\ l.row = row
  BY <1>2 DEF LineOf
<1>4. AreRecords(RecordsOf(h)) /\ AreSpoken(RecordsOf(h)) /\ r \in RecordsOf(h) /\ r.row = row
  BY <1>1, RecordsFit DEF RecordOf
<1> HIDE DEF l, r, R, h, K
<1>5. (1 .. K) \cup {n + 1} = 1 .. n + 1 /\ n \in Nat
  BY <1>2 DEF K
<1>6. /\ Ids(lines') = Ids(lines) \cup {l.id}
      /\ V[l.id] = RecordOf(h, l.row)
      /\ \A id \in Ids(lines) : id # l.id => V[id] = LogOf(h, lines)[id]
  <2>0. lines \in Seq(LineOf(h)) /\ l \in LineOf(h)
    BY <1>1, <1>3
  <2> HIDE DEF V
  <2>1. Ids(Append(lines, l)) = Ids(lines) \cup {l.id}
    BY <2>0, LogAppend
  <2>2. LogOf(h, Append(lines, l))[l.id] = RecordOf(h, l.row)
    BY <2>0, LogAppend
  <2>3. \A id \in Ids(lines) : id # l.id => LogOf(h, Append(lines, l))[id] = LogOf(h, lines)[id]
    BY <2>0, LogAppend
  <2>4. QED
    BY <1>1, <2>1, <2>2, <2>3 DEF V
<1>7. Ids(lines') = 1 .. n + 1 /\ V[n + 1] = r /\ \A i \in 1 .. n : V[i] = R[i]
  <2>1. \A i \in 1 .. n : i \in 1 .. K /\ i # n + 1
    BY <1>2, <1>5 DEF K
  <2> HIDE DEF V
  <2>2. QED
    BY <1>1, <1>3, <1>5, <1>6, <2>1 DEF r
<1>8. P \in Seq(RecordsOf(h)) /\ Len(P) = n /\ \A i \in 1 .. n : P[i] = R[i]
  BY <1>2, PrefixItems DEF K
<1>9. lines' \in Seq(LineOf(h)) /\ Last(lines') = l /\ lines' # <<>>
  BY <1>1, <1>3, LastOfAppend
<1>10. V = Append(P, r)
  <2>1. V \in Seq(RecordsOf(h)) /\ Len(V) = n + 1
    <3>1. n + 1 \in Nat
      BY <1>5
    <3>2. QED
      BY <1>1, <1>7, <1>9, <3>1, LogIsSeq
  <2>2. Append(P, r) \in Seq(RecordsOf(h)) /\ Len(Append(P, r)) = n + 1
        /\ Append(P, r)[n + 1] = r /\ \A i \in 1 .. n : Append(P, r)[i] = P[i]
    BY <1>4, <1>8
  <2> HIDE DEF V, P
  <2>4. \A i \in 1 .. n + 1 : V[i] = Append(P, r)[i]
    BY <1>5, <1>7, <1>8, <2>2
  <2> DEFINE A == Append(P, r)
  <2>5. A \in Seq(RecordsOf(h)) /\ Len(V) = Len(A) /\ \A i \in 1 .. Len(V) : V[i] = A[i]
    BY <2>1, <2>2, <2>4
  <2> HIDE DEF A
  <2>6. V = A
    BY <2>1, <2>5, SeqEqual
  <2>7. QED
    BY <2>6 DEF A
<1>11. Balanced(P) /\ (row \in DOMAIN Results => Waiting(P) > 0)
  <2>1. Balanced(P)
    BY <1>1, <1>2, BalancedPrefix DEF K
  <2>2. n = K => P = R
    BY <1>2, PrefixIs
  <2>3. QED
    BY <2>1, <2>2 DEF K, R
<1> HIDE DEF P, V
<1>12. Balanced(V)
  BY <1>4, <1>8, <1>10, <1>11, BalancedAppend
<1>13. FullLog(lines)' = V
  BY FullLogIs DEF V, h
<1>14. Newest(lines)' = n + 1
  BY <1>3, <1>9 DEF Newest
<1>15. QED
  BY <1>1, <1>7, <1>9, <1>12, <1>13, <1>14 DEF HarnessInv, h

LEMMA HarnessStep ==
  ASSUME HarnessInv, TurnsNext
  PROVE  HarnessInv'
<1> DEFINE K == Newest(lines)
<1>1. /\ K \in Nat
      /\ Cardinality({lines[n].id : n \in DOMAIN lines}) = K
      /\ lines # <<>> => K = Last(lines).id /\ K # 0
  BY NewestIs
<1> HIDE DEF K
<1>2. ASSUME UNCHANGED harness, NEW row \in DOMAIN RowsOf[harness], WriteRow(row)
      PROVE  HarnessInv'
  <2>1. AppendLine(K + 1, row) /\ (row \in DOMAIN Results => Waiting(FullLog(lines)) > 0)
    BY <1>1, <1>2 DEF WriteRow
  <2>2. K \in 0 .. K /\ K >= K - 1
    BY <1>1
  <2>3. QED
    BY <1>2, <2>1, <2>2, LogGoesOn DEF K
<1>3. ASSUME UNCHANGED harness, Rewrite
      PROVE  HarnessInv'
  <2>1. PICK grown \in {<<"text", "spoken">>, <<"call", "tool">>, <<"call", "calls">>} :
          /\ lines # <<>> /\ grown[2] \in DOMAIN RowsOf[harness]
          /\ AppendLine(Last(lines).id, grown[2])
    BY <1>3 DEF Rewrite
  <2> DEFINE row == grown[2]
  <2>2. row \notin DOMAIN Results
    <3>1. row \in {"spoken", "tool", "calls"}
      OBVIOUS
    <3>2. DOMAIN Results = {"result", "blank"}
      BY DEF Results
    <3>3. QED
      BY <3>1, <3>2
  <2>3. K - 1 \in 0 .. K /\ K - 1 >= K - 1 /\ (K - 1) + 1 = K /\ K = Last(lines).id
    BY <1>1, <2>1
  <2>4. row \in DOMAIN RowsOf[harness] /\ AppendLine((K - 1) + 1, row)
    BY <2>1, <2>3
  <2> HIDE DEF row
  <2>5. QED
    BY <1>3, <2>2, <2>3, <2>4, LogGoesOn DEF K
<1>4. ASSUME OtherLog
      PROVE  HarnessInv'
  <2>1. lines' = <<>> /\ harness' \in Provider /\ <<>> \in Seq(LineOf(harness'))
    BY <1>4 DEF OtherLog
  <2>2. FullLog(lines)' = <<>> /\ Newest(lines)' = 0
    BY <2>1, FullLogIs, NoLogBalanced DEF Newest
  <2>3. QED
    BY <2>1, <2>2, NoLogBalanced DEF HarnessInv
<1>5. QED
  BY <1>2, <1>3, <1>4 DEF TurnsNext

LEMMA HarnessBegins == TurnsInit => HarnessInv
<1> SUFFICES ASSUME TurnsInit PROVE HarnessInv
  OBVIOUS
<1>1. lines = <<>> /\ harness \in Provider /\ <<>> \in Seq(LineOf(harness))
  BY DEF TurnsInit
<1>2. FullLog(lines) = <<>> /\ Newest(lines) = 0
  BY <1>1, FullLogIs, NoLogBalanced DEF Newest
<1>3. QED
  BY <1>1, <1>2, NoLogBalanced DEF HarnessInv

\* transcript.rs:562-606: the log that full() reads is a sequence of records, one for
\* each message, and at every place in it no more results than calls were read.
THEOREM HarnessInvariant == TurnsSpec => []HarnessInv
<1>1. HarnessInv /\ [TurnsNext]_turnsVars => HarnessInv'
  <2>1. ASSUME HarnessInv, UNCHANGED turnsVars
        PROVE  HarnessInv'
    <3>1. harness' = harness /\ lines' = lines
      BY <2>1 DEF turnsVars
    <3>2. FullLog(lines)' = FullLog(lines) /\ Newest(lines)' = Newest(lines)
      BY <3>1, FullLogIs DEF Newest
    <3>3. QED
      BY <2>1, <3>1, <3>2 DEF HarnessInv
  <2>2. QED
    BY <2>1, HarnessStep
<1>2. QED
  BY <1>1, HarnessBegins, PTL DEF TurnsSpec

-------------------------------------------------------------------------------
LEMMA SaysOutput ==
  ASSUME NEW R, NEW n \in DOMAIN R
  PROVE  n \in Outputs(R) <=> Works(R[n])
BY DEF Outputs, Works, Utters

\* transcript.rs:275-295: for every provider and logs of any length, the turns are the
\* log, work goes to the turn of the request before it, and the reply, the end and the
\* pending calls of the newest turn are those of the records since.
THEOREM TurnsAlwaysFollowRequests == TurnsSpec => []TurnsFollowRequests
<1>1. HarnessInv => TurnsFollowRequests
  <2> SUFFICES ASSUME HarnessInv PROVE TurnsFollowRequests
    OBVIOUS
  <2> DEFINE E == RecordsOf(harness)
             R == FullLog(lines)
             K == Len(R)
             T == TurnsOf(R)
             since == Max({0} \cup {n \in DOMAIN R : R[n].starts}) .. Len(R)
             Did(kind) == \E n \in since \ {0} : kind \in ToSet(R[n].entries)
  <2>1. R \in Seq(E) /\ Balanced(R) /\ AreRecords(E) /\ AreSpoken(E)
    BY NewestIs, RecordsFit DEF HarnessInv
  <2> HIDE DEF R, E
  <2>2. PICK g : Grow(g, R) /\ T = g[K]
    BY <2>1, TurnsGrow
  <2> HIDE DEF T
  <2>3. K \in Nat /\ DOMAIN R = 1 .. K /\ K \in 0 .. K
    BY <2>1
  <2>4. T \in Seq(TurnOf(E)) /\ (T = <<>> <=> K = 0) /\ DOMAIN T = 1 .. Len(T)
    <3>1. T \in Seq(TurnOf(E)) /\ (K # 0 => T # <<>>)
      BY <2>1, <2>2, <2>3, TurnsTyped
    <3>2. K = 0 => T = <<>>
      BY <2>2 DEF Grow
    <3>3. QED
      BY <3>1, <3>2
  <2>5. FirstTurns(T, Len(T)) = R /\ \A n \in 1 .. K : InTurn(T, n, Len(g[n]))
    <3>1. Laid(g, R, K)
      BY <2>1, <2>2, <2>3, TurnsLaid
    <3>2. SubSeq(R, 1, K) = R
      BY <2>1, <2>3, PrefixIs
    <3>3. QED
      BY <2>2, <3>1, <3>2 DEF Laid
  <2>6. FlattenSeq([t \in DOMAIN T |-> T[t].records]) = R
    BY <2>4, <2>5 DEF FirstTurns
  <2>7. ASSUME NEW m \in Outputs(R), NEW n \in Outputs(R), m < n
        PROVE  (TurnAt(T, m) = TurnAt(T, n)) <=> \A k \in (m + 1) .. n : ~R[k].starts
    <3>1. m \in 1 .. K /\ n \in m .. K /\ n \in 1 .. K /\ m \in Nat /\ n \in Nat /\ Works(R[m])
      <4>1. m \in DOMAIN R /\ n \in DOMAIN R
        BY DEF Outputs
      <4>2. QED
        BY <2>3, <2>7, <4>1, SaysOutput
    <3>2. TurnAt(T, m) = Len(g[m]) /\ TurnAt(T, n) = Len(g[n])
      BY <2>4, <2>5, <3>1, TurnAtIs
    <3>3. Len(g[m]) = Len(g[n]) <=> \A k \in m + 1 .. n : ~R[k].starts
      BY <2>1, <2>2, <3>1, OneTurn
    <3>4. QED
      BY <3>2, <3>3
  <2>8. since \ {0} = Since(R, K)
    BY <2>1, SinceIs
  <2> HIDE DEF since
  <2>9. CASE K = 0
    <3>1. T = <<>> /\ Final(T).reply = {} /\ Final(T).pending = {}
      BY <2>4, <2>9 DEF Final
    <3>2. since \ {0} = {}
      BY <2>8, <2>9 DEF Since
    <3>3. Cardinality({}) = 0 /\ Waiting(R) >= 0
      <4>1. SubSeq(R, 1, K) = R
        BY <2>1, <2>3, PrefixIs
      <4>2. QED
        BY <2>1, <2>3, <4>1, FS_EmptySet DEF Balanced
    <3>4. 1 .. Len(T) = {}
      BY <3>1
    <3>5. Cardinality(Final(T).pending) <= Waiting(R)
      BY <3>1, <3>3
    <3>6. ~Did("text")
      BY <3>2
    <3>7. QED
      BY <2>6, <2>7, <3>1, <3>4, <3>5, <3>6 DEF TurnsFollowRequests, R, T, since
  <2>10. CASE K # 0
    <3> DEFINE w == Last(T)
    <3>1. K \in 1 .. K /\ T # <<>>
      BY <2>3, <2>4, <2>10
    <3>2. w \in TurnOf(E) /\ EntriesOf(w.records) \in Seq(Kind)
      <4>1. w \in TurnOf(E)
        BY <2>4, <3>1, FrontLast
      <4>2. w.records \in Seq(E)
        BY <4>1 DEF TurnOf
      <4>3. QED
        BY <2>1, <4>1, <4>2, WaitingIs
    <3>3. /\ Says(w, "text") <=> \E n \in Since(R, K) : Utters(R[n], "text")
          /\ w.complete <=> \E n \in Since(R, K) : R[n].ends
      BY <2>1, <2>2, <3>1, NewestTurn
    <3>4. Final(T).reply = Reply(w) /\ Final(T).pending = Pending(w)
      BY <3>1 DEF Final
    <3>5. Reply(w) # {} <=> Says(w, "text")
      BY <3>2, ReplyIs
    <3>6. Final(T).reply # {} <=> Did("text")
      BY <2>8, <3>3, <3>4, <3>5 DEF Utters
    <3>7. w.complete <=> \E n \in since \ {0} : R[n].ends
      BY <2>8, <3>3
    <3>8. ASSUME Blanks(R) = 0
          PROVE  Cardinality(Final(T).pending) <= Waiting(R)
      <4>1. Cardinality(Pending(Last(g[K]))) <= Waiting(SubSeq(R, 1, K))
        BY <2>1, <2>2, <3>1, <3>8, PendingBounded
      <4>2. SubSeq(R, 1, K) = R
        BY <2>1, <2>3, PrefixIs
      <4>3. QED
        BY <2>2, <3>4, <4>1, <4>2
    <3>9. NotRepliedYet(T) => Final(T).reply = {}
      BY DEF NotRepliedYet
    <3>10. \A count \in 1 .. Len(T) :
             Len(T) \in Latest(T, count) /\ Cardinality(Latest(T, count)) <= count
      BY <2>4, <3>1, LatestIs
    <3>11. QED
      BY <2>6, <2>7, <3>6, <3>7, <3>8, <3>9, <3>10 DEF TurnsFollowRequests, R, T, since
  <2>11. QED
    BY <2>9, <2>10
<1>2. QED
  BY <1>1, HarnessInvariant, PTL
===============================================================================
