--------------------------- MODULE EventSyncProofs ---------------------------
(***************************************************************************)
(* Proofs about EventSync, for any messages and events: the types for any  *)
(* writers and readers, and, for one writer at a time and clean backfills, *)
(* that the mirror is never behind its cursor (NothingIsSkipped), misses   *)
(* no message after a backfill (NothingIsMissing) and holds no body older  *)
(* than its cursor (BodiesAreCurrent).                                     *)
(***************************************************************************)
EXTENDS MCEventSync, TLAPS, SequenceTheorems, FiniteSetTheorems, WellFoundedInduction

(* ---------------- the last event that did something to a message -------- *)

LEMMA LastDoneIs ==
  ASSUME NEW n \in Nat, NEW m, NEW acts
  PROVE  /\ LastDone(n, m, acts) \in 0 .. n
         /\ LastDone(n, m, acts) # 0 => Does(LastDone(n, m, acts), m, acts)
         /\ \A k \in 1 .. n : Does(k, m, acts) => k <= LastDone(n, m, acts)
<1> DEFINE S == {i \in 1 .. n : Does(i, m, acts)}
<1>1. CASE S = {}
  BY <1>1 DEF LastDone, None
<1>2. CASE S # {}
  <2> DEFINE T == {x \in 0 .. n : n - x \in S}
  <2>1. T \subseteq Nat
    OBVIOUS
  <2>2. T # {}
    <3>1. PICK i \in S : TRUE
      BY <1>2
    <3>2. n - i \in 0 .. n /\ n - (n - i) = i
      OBVIOUS
    <3>3. n - i \in T
      BY <3>1, <3>2
    <3> QED
      BY <3>3
  <2> HIDE DEF T
  <2>3. PICK x \in T : \A y \in T : ~(<<y, x>> \in OpToRel(<, Nat))
    BY <2>1, <2>2, NatLessThanWellFounded, WFMin, Zenon
  <2>4. \A y \in T : ~(y < x)
    BY <2>1, <2>3 DEF OpToRel
  <2>5. x \in 0 .. n /\ n - x \in S
    BY DEF T
  <2>6. \A k \in S : k <= n - x
    <3> TAKE k \in S
    <3>1. k \in 1 .. n
      OBVIOUS
    <3>2. n - k \in 0 .. n /\ n - (n - k) = k
      BY <3>1
    <3>3. n - k \in T
      BY <3>2 DEF T
    <3> QED
      BY <2>4, <2>5, <3>1, <3>3
  <2>7. LastDone(n, m, acts) = CHOOSE i \in S : \A k \in S : k <= i
    BY <1>2 DEF LastDone
  <2>8. LastDone(n, m, acts) \in S /\ \A k \in S : k <= LastDone(n, m, acts)
    <3> HIDE DEF S
    <3> QED
      BY <2>5, <2>6, <2>7
  <2> QED
    BY <2>8
<1> QED
  BY <1>1, <1>2

(* ... and there is only one such number.                                  *)
LEMMA LastDoneIsUnique ==
  ASSUME NEW n \in Nat, NEW m, NEW acts, NEW i \in 0 .. n,
         i # 0 => Does(i, m, acts), \A k \in 1 .. n : Does(k, m, acts) => k <= i
  PROVE  LastDone(n, m, acts) = i
  BY LastDoneIs

LEMMA AtIs ==
  ASSUME NEW n \in Nat, NEW m
  PROVE  At(n, m) \in 0 .. n /\ BodyAt(n, m) \in 0 .. n
  BY LastDoneIs DEF At, BodyAt, None

(* An event that leaves m alone leaves what the server holds of it.        *)
LEMMA AtSame ==
  ASSUME NEW n \in Nat, NEW m, ~Does(n + 1, m, Actions)
  PROVE  At(n + 1, m) = At(n, m)
<1> DEFINE i == LastDone(n, m, Actions)
<1>1. /\ i \in 0 .. n /\ (i # 0 => Does(i, m, Actions))
      /\ \A k \in 1 .. n : Does(k, m, Actions) => k <= i
  BY LastDoneIs
<1> HIDE DEF i
<1>2. LastDone(n + 1, m, Actions) = i
  <2>1. n + 1 \in Nat /\ i \in 0 .. (n + 1)
    BY <1>1
  <2>2. \A k \in 1 .. (n + 1) : Does(k, m, Actions) => k <= i
    BY <1>1
  <2> QED
    BY <1>1, <2>1, <2>2, LastDoneIsUnique
<1> QED
  BY <1>2 DEF At, i

LEMMA AtNew ==
  ASSUME NEW n \in Nat, NEW m, Does(n + 1, m, Actions), ~Does(n + 1, m, {"delete"})
  PROVE  At(n + 1, m) = n + 1
<1>1. LastDone(n + 1, m, Actions) = n + 1
  BY LastDoneIsUnique
<1> QED
  BY <1>1 DEF At, None

(* The server's log only grows: its past does not change.                  *)
LEMMA PastIsKept ==
  ASSUME NEW n \in Nat, NEW m, \A i \in 1 .. n : log'[i] = log[i]
  PROVE  /\ \A acts : LastDone(n, m, acts)' = LastDone(n, m, acts)
         /\ At(n, m)' = At(n, m)
<1>1. \A i \in 1 .. n : \A acts : Does(i, m, acts)' <=> Does(i, m, acts)
  BY DEF Does
<1>2. ASSUME NEW acts PROVE LastDone(n, m, acts)' = LastDone(n, m, acts)
  <2> DEFINE S == {i \in 1 .. n : Does(i, m, acts)}
             P == {i \in 1 .. n : Does(i, m, acts)'}
             Most(X) == IF X = {} THEN None ELSE CHOOSE i \in X : \A k \in X : k <= i
  <2>1. S = P
    BY <1>1
  <2>2. LastDone(n, m, acts) = Most(S) /\ LastDone(n, m, acts)' = Most(P)
    BY DEF LastDone
  <2> HIDE DEF S, P, Most
  <2> QED
    BY <2>1, <2>2
<1>3. LastDone(n, m, Actions) \in 0 .. n
  BY LastDoneIs
<1>4. At(n, m)' = At(n, m)
  BY <1>1, <1>2, <1>3 DEF At, None
<1> QED
  BY <1>2, <1>4

----------------------------------------------------------------------------
(* Sequences of writes. *)

LEMMA TailIs ==
  ASSUME NEW S, NEW s \in Seq(S), s # <<>>
  PROVE  /\ Tail(s) \in Seq(S) /\ Len(s) \in Nat /\ Len(s) > 0 /\ s[1] \in S
         /\ Len(Tail(s)) = Len(s) - 1
         /\ \A j \in 1 .. Len(Tail(s)) : Tail(s)[j] = s[j + 1] /\ j + 1 \in 1 .. Len(s)
         /\ Tail(s) # <<>> <=> Len(s) > 1
<1>1. /\ Tail(s) \in Seq(S) /\ Len(Tail(s)) = Len(s) - 1
      /\ \A j \in 1 .. Len(Tail(s)) : Tail(s)[j] = s[j + 1]
  BY HeadTailProperties
<1>2. Len(s) \in Nat /\ Len(s) > 0 /\ s[1] \in S
  BY EmptySeq, ElementOfSeq
<1>3. Tail(s) # <<>> => Len(Tail(s)) > 0
  BY <1>1, EmptySeq
<1>4. Tail(s) = <<>> => Len(Tail(s)) = 0
  BY EmptySeq
<1> QED
  BY <1>1, <1>2, <1>3, <1>4

(* One diff per message in an event, and at least one.                     *)
EventsOK ==
    \A i \in 1 .. Latest :
        /\ Len(log[i]) >= 1
        /\ \A j, k \in DOMAIN log[i] : log[i][j].msg = log[i][k].msg => j = k

WriteOf == [msg : Messages, action : Actions, ver : 1 .. Latest]

LEMMA WriteIs ==
  ASSUME Latest \in Nat, NEW d \in WriteOf
  PROVE  d.msg \in Messages /\ d.ver \in 1 .. Latest /\ d.ver \in 0 .. Latest /\ d.ver # 0
  BY DEF WriteOf

(* A write of event i: it says what the event did to its message.          *)
FromEvent(d, i) ==
    /\ d.ver = i /\ Does(i, d.msg, Actions)
    /\ d.action = "delete" <=> Does(i, d.msg, {"delete"})
    /\ d.action = "update" <=> Does(i, d.msg, {"update"})

(* Where a run is, and what it holds there.                                *)
Writing(w) == pc[w] \in {"row", "tags", "body"}
Local(w) ==
    /\ Writing(w) => todo[w] # <<>>
    /\ pc[w] = "tags" => todo[w][1].action # "delete"
    /\ w \in Runners =>
         /\ pc[w] # "walk"
         /\ Writing(w) \/ pc[w] = "save" => at[w] < upto[w]
         /\ Writing(w) => \A j \in 1 .. Len(todo[w]) : FromEvent(todo[w][j], at[w] + 1)
    /\ w \in Backfills =>
         /\ pc[w] \in {"idle", "walk", "row", "tags", "save"}
         /\ Writing(w) => \A j \in 1 .. Len(todo[w]) : todo[w][j].action = "flags"

LocalInv == TypeOK /\ EventsOK /\ \A w \in Writers : Local(w)

LEMMA Types ==
  ASSUME TypeOK
  PROVE  /\ log \in Seq(Seq(Diffs)) /\ Latest \in Nat /\ horizon \in 0 .. Latest
         /\ row \in [Messages -> 0 .. Latest] /\ tags \in [Messages -> 0 .. Latest]
         /\ body \in [Messages -> 0 .. Latest] /\ cursor \in NoCursor .. Latest
         /\ \A m \in Messages : row[m] = 0 => tags[m] = 0 /\ body[m] = 0
         /\ pc \in [Writers -> PCs] /\ at \in [Writers -> 0 .. Latest]
         /\ upto \in [Writers -> 0 .. Latest] /\ todo \in [Writers -> Seq(WriteOf)]
         /\ page \in [Writers -> Nat] /\ fetched \in [Readers -> [Messages -> 0 .. Latest]]
         /\ aborts \in Nat /\ expiries \in Nat
<1>1. log \in Seq(Seq(Diffs)) /\ Latest \in Nat
  BY LenProperties DEF TypeOK, Latest
<1> QED
  BY <1>1 DEF TypeOK, WriteOf, None

LEMMA EventIs ==
  ASSUME NEW e \in Events
  PROVE  /\ e \in Seq(Diffs) /\ Len(e) >= 1
         /\ \A j, k \in DOMAIN e : e[j].msg = e[k].msg => j = k
<1>1. CASE e \in {<<d>> : d \in {d \in Diffs : Legal(d)}}
  <2>1. PICK d \in Diffs : e = <<d>>
    BY <1>1
  <2> QED
    BY <2>1
<1>2. CASE e \in {<<d, f>> : d, f \in {g \in Diffs : Legal(g) /\ g.action \in Paired}}
           /\ e[1].msg # e[2].msg
  <2>1. PICK d \in Diffs, f \in Diffs : e = <<d, f>>
    BY <1>2
  <2> QED
    BY <1>2, <2>1
<1> QED
  BY <1>1, <1>2 DEF Events

(* What event i asks for.                                                  *)
LEMMA WritesIs ==
  ASSUME TypeOK, EventsOK, NEW i \in 1 .. Latest
  PROVE  /\ Writes(i) \in Seq(WriteOf) /\ Writes(i) # <<>>
         /\ \A j \in 1 .. Len(Writes(i)) : FromEvent(Writes(i)[j], i)
         /\ \A m : Does(i, m, Actions) => \E j \in 1 .. Len(Writes(i)) : Writes(i)[j].msg = m
<1>1. log[i] \in Seq(Diffs) /\ Len(log[i]) \in Nat /\ Len(log[i]) >= 1
      /\ DOMAIN log[i] = 1 .. Len(log[i])
  BY Types DEF EventsOK, Latest
<1>2. \A j \in 1 .. Len(log[i]) : log[i][j].msg \in Messages /\ log[i][j].action \in Actions
  <2> TAKE j \in 1 .. Len(log[i])
  <2>1. log[i][j] \in Diffs
    BY <1>1, ElementOfSeq
  <2> QED
    BY <2>1 DEF Diffs
<1> DEFINE W == [j \in 1 .. Len(log[i]) |->
                   [msg |-> log[i][j].msg, action |-> log[i][j].action, ver |-> i]]
<1>3. Writes(i) = W
  BY <1>1 DEF Writes
<1>4. W \in Seq(WriteOf) /\ Len(W) = Len(log[i])
      /\ \A j \in 1 .. Len(W) : W[j].msg = log[i][j].msg /\ W[j].action = log[i][j].action
                                /\ W[j].ver = i
  <2>1. \A j \in 1 .. Len(log[i]) : W[j] \in WriteOf
    BY <1>2 DEF WriteOf
  <2>2. W \in [1 .. Len(log[i]) -> WriteOf]
    BY <2>1
  <2>3. W \in Seq(WriteOf)
    <3>1. PICK n \in Nat : n = Len(log[i]) /\ W \in [1 .. n -> WriteOf]
      BY <1>1, <2>2
    <3> HIDE DEF W
    <3> QED
      BY <3>1, SeqDef
  <2>4. Len(W) = Len(log[i])
    BY <1>1, <2>2, <2>3, LenProperties
  <2> QED
    BY <2>3, <2>4
<1>5. \A j \in 1 .. Len(W) : FromEvent(W[j], i)
  <2> SUFFICES ASSUME NEW j \in 1 .. Len(W) PROVE FromEvent(W[j], i)
    OBVIOUS
  <2>1. Does(i, W[j].msg, Actions)
    BY <1>1, <1>2, <1>4 DEF Does
  <2>2. \A a : Does(i, W[j].msg, {a}) <=> W[j].action = a
    BY <1>1, <1>4 DEF Does, EventsOK
  <2> QED
    BY <1>4, <2>1, <2>2 DEF FromEvent
<1>6. \A m : Does(i, m, Actions) => \E j \in 1 .. Len(W) : W[j].msg = m
  BY <1>1, <1>4 DEF Does
<1>7. W # <<>>
  BY <1>1, <1>4
<1> HIDE DEF W
<1> QED
  BY <1>3, <1>4, <1>5, <1>6, <1>7

----------------------------------------------------------------------------
(* What a step does to its writer, and that it leaves the others alone. *)

Others(w) ==
    \A v \in Writers : v # w => /\ pc'[v] = pc[v] /\ at'[v] = at[v]
                                /\ upto'[v] = upto[v] /\ todo'[v] = todo[v]
Typed ==
    /\ pc' \in [Writers -> PCs] /\ at' \in [Writers -> 0 .. Latest]
    /\ upto' \in [Writers -> 0 .. Latest] /\ todo' \in [Writers -> Seq(WriteOf)]
    /\ page' \in [Writers -> Nat]

LEMMA Numbers == NoCursor = -1 /\ None = 0
  BY DEF NoCursor, None

LEMMA ReturnIs ==
  ASSUME TypeOK, NEW w \in Writers, Return(w)
  PROVE  /\ Typed /\ Others(w)
         /\ pc'[w] = "idle" /\ at'[w] = 0 /\ upto'[w] = 0 /\ todo'[w] = <<>>
<1>1. /\ pc \in [Writers -> PCs] /\ at \in [Writers -> 0 .. Latest] /\ Latest \in Nat
      /\ upto \in [Writers -> 0 .. Latest] /\ todo \in [Writers -> Seq(WriteOf)]
      /\ page \in [Writers -> Nat]
  BY Types
<1>2. <<>> \in Seq(WriteOf)
  BY EmptySeq
<1> QED
  BY <1>1, <1>2 DEF Return, Goto, Typed, Others, PCs

LEMMA DoneIs ==
  ASSUME TypeOK, NEW w \in Writers, todo[w] # <<>>, Done(w), UNCHANGED <<at, upto, page>>
  PROVE  /\ Typed /\ Others(w)
         /\ todo'[w] = Tail(todo[w]) /\ at'[w] = at[w] /\ upto'[w] = upto[w]
         /\ pc'[w] = IF Len(todo[w]) > 1 THEN "row"
                     ELSE IF w \in Runners THEN "save" ELSE "walk"
<1>1. /\ pc \in [Writers -> PCs] /\ at \in [Writers -> 0 .. Latest] /\ Latest \in Nat
      /\ upto \in [Writers -> 0 .. Latest] /\ todo \in [Writers -> Seq(WriteOf)]
      /\ page \in [Writers -> Nat]
  BY Types
<1>2. Tail(todo[w]) \in Seq(WriteOf)
  BY <1>1, TailIs
<1>3. PICK s \in PCs : /\ s = IF Len(todo[w]) > 1 THEN "row"
                              ELSE IF w \in Runners THEN "save" ELSE "walk"
                       /\ pc' = [pc EXCEPT ![w] = s]
  BY DEF Done, Goto, PCs
<1>4. todo' = [todo EXCEPT ![w] = Tail(todo[w])]
  BY DEF Done
<1> QED
  BY <1>1, <1>2, <1>3, <1>4 DEF Typed, Others

(* Events happen, and the server forgets some.                             *)
LEMMA EmitIs ==
  ASSUME TypeOK, EventsOK, Emit
  PROVE  /\ log' \in Seq(Seq(Diffs)) /\ Latest' = Latest + 1 /\ EventsOK'
         /\ \A i \in 1 .. Latest : log'[i] = log[i]
         /\ UNCHANGED <<horizon, expiries, row, tags, body, cursor, pc, at, upto, todo, page>>
         /\ UNCHANGED <<fetched, aborts>>
<1>0. log \in Seq(Seq(Diffs)) /\ Latest \in Nat
  BY Types
<1>1. PICK e \in Events : log' = Append(log, e)
  BY DEF Emit
<1>2. e \in Seq(Diffs) /\ Len(e) >= 1 /\ \A j, k \in DOMAIN e : e[j].msg = e[k].msg => j = k
  BY EventIs
<1>3. /\ log' \in Seq(Seq(Diffs)) /\ Len(log') = Len(log) + 1
      /\ \A i \in 1 .. Len(log) : log'[i] = log[i]
      /\ log'[Len(log) + 1] = e
  BY <1>0, <1>1, <1>2, AppendProperties
<1>4. EventsOK'
  <2> SUFFICES ASSUME NEW i \in 1 .. Len(log')
               PROVE  /\ Len(log'[i]) >= 1
                      /\ \A j, k \in DOMAIN log'[i] : log'[i][j].msg = log'[i][k].msg => j = k
    BY DEF EventsOK, Latest
  <2>1. CASE i \in 1 .. Len(log)
    BY <1>3, <2>1 DEF EventsOK, Latest
  <2>2. CASE i = Len(log) + 1
    BY <1>2, <1>3, <2>2
  <2> QED
    BY <1>0, <1>3, <2>1, <2>2 DEF Latest
<1> QED
  BY <1>0, <1>3, <1>4 DEF Emit, Latest, mirrorVars, writerVars

LEMMA EmitLocal ==
  ASSUME LocalInv, Emit PROVE LocalInv'
<1>0. /\ log' \in Seq(Seq(Diffs)) /\ Latest' = Latest + 1 /\ EventsOK' /\ Latest \in Nat
      /\ \A i \in 1 .. Latest : log'[i] = log[i]
      /\ UNCHANGED <<horizon, expiries, row, tags, body, cursor, pc, at, upto, todo, page>>
      /\ UNCHANGED <<fetched, aborts>>
  BY EmitIs, Types DEF LocalInv
<1>1. TypeOK'
  <2>1. 0 .. Latest \subseteq 0 .. Latest' /\ 1 .. Latest \subseteq 1 .. Latest'
        /\ NoCursor .. Latest \subseteq NoCursor .. Latest'
    BY <1>0, Numbers
  <2>2. todo \in [Writers -> Seq(WriteOf')]
    <3>1. WriteOf \subseteq WriteOf'
      BY <2>1 DEF WriteOf
    <3> QED
      BY <3>1, SeqMonotonic, Types DEF LocalInv
  <2>3. /\ horizon' \in 0 .. Latest' /\ row' \in [Messages -> 0 .. Latest']
        /\ tags' \in [Messages -> 0 .. Latest'] /\ body' \in [Messages -> 0 .. Latest']
        /\ cursor' \in NoCursor .. Latest' /\ at' \in [Writers -> 0 .. Latest']
        /\ upto' \in [Writers -> 0 .. Latest']
        /\ fetched' \in [Readers -> [Messages -> 0 .. Latest']]
    BY <1>0, <2>1, Types DEF LocalInv
  <2>4. \A m \in Messages : row'[m] = None => tags'[m] = None /\ body'[m] = None
    BY <1>0 DEF LocalInv, TypeOK
  <2>5. /\ pc' \in [Writers -> PCs] /\ page' \in [Writers -> Nat] /\ aborts' \in Nat
        /\ expiries' \in Nat
    BY <1>0, Types DEF LocalInv
  <2>6. todo' \in [Writers -> Seq([msg : Messages, action : Actions, ver : 1 .. Latest'])]
    BY <1>0, <2>2 DEF WriteOf
  <2> QED
    BY <1>0, <2>3, <2>4, <2>5, <2>6 DEF TypeOK
<1>2. ASSUME NEW w \in Writers PROVE Local(w)'
  <2>1. Local(w) /\ at[w] \in 0 .. Latest /\ upto[w] \in 0 .. Latest
    BY Types DEF LocalInv
  <2>2. \A i \in 1 .. Latest : \A d : FromEvent(d, i)' <=> FromEvent(d, i)
    BY <1>0 DEF FromEvent, Does
  <2>3. w \in Runners /\ Writing(w) =>
          \A j \in 1 .. Len(todo[w]) : FromEvent(todo[w][j], at[w] + 1)'
    <3> SUFFICES ASSUME w \in Runners, Writing(w), NEW j \in 1 .. Len(todo[w])
                 PROVE  FromEvent(todo[w][j], at[w] + 1)'
      OBVIOUS
    <3>0. FromEvent(todo[w][j], at[w] + 1) /\ at[w] < upto[w]
      BY <2>1 DEF Local
    <3>1. at[w] + 1 \in 1 .. Latest /\ FromEvent(todo[w][j], at[w] + 1)
      BY <1>0, <2>1, <3>0
    <3>2. PICK d, i : d = todo[w][j] /\ i = at[w] + 1
      OBVIOUS
    <3>3. d = todo'[w][j] /\ i = at'[w] + 1 /\ FromEvent(d, i)'
      BY <1>0, <2>2, <3>1, <3>2
    <3> QED
      BY <3>3 DEF FromEvent, Does
  <2> QED
    BY <1>0, <2>1, <2>3 DEF Local, Writing
<1> QED
  BY <1>0, <1>1, <1>2 DEF LocalInv

(* The mirror and the cursor keep their types.                             *)
MirrorTyped ==
    /\ row' \in [Messages -> 0 .. Latest] /\ tags' \in [Messages -> 0 .. Latest]
    /\ body' \in [Messages -> 0 .. Latest]
    /\ \A m \in Messages : row'[m] = 0 => tags'[m] = 0 /\ body'[m] = 0
    /\ cursor' \in NoCursor .. Latest

LEMMA WriterStep ==
  ASSUME LocalInv, NEW w \in Writers, UNCHANGED <<log, horizon, expiries, fetched>>,
         aborts' \in Nat, Typed, Others(w), Local(w)', MirrorTyped
  PROVE  LocalInv'
<1>1. Latest' = Latest /\ EventsOK'
  BY DEF LocalInv, EventsOK, Latest
<1>2. TypeOK'
  BY <1>1, Types DEF LocalInv, TypeOK, Typed, MirrorTyped, WriteOf, None
<1>3. ASSUME NEW v \in Writers, v # w PROVE Local(v)'
  <2>1. Local(v) /\ pc'[v] = pc[v] /\ at'[v] = at[v] /\ upto'[v] = upto[v] /\ todo'[v] = todo[v]
    BY <1>3 DEF LocalInv, Others
  <2> QED
    BY <2>1 DEF Local, Writing, FromEvent, Does
<1> QED
  BY <1>1, <1>2, <1>3 DEF LocalInv

(* A run that takes up the event after n.                                  *)
LEMMA TakesUp ==
  ASSUME LocalInv, NEW w \in Runners, log' = log, NEW n \in 0 .. Latest, n < upto'[w],
         upto'[w] \in 0 .. Latest,
         pc'[w] = "row", at'[w] = n, todo'[w] = Writes(n + 1)
  PROVE  Local(w)' /\ todo'[w] \in Seq(WriteOf)
<1>1. n + 1 \in 1 .. Latest
  BY Types DEF LocalInv
<1>2. /\ todo'[w] \in Seq(WriteOf) /\ todo'[w] # <<>>
      /\ \A j \in 1 .. Len(todo'[w]) : FromEvent(todo'[w][j], n + 1)
  BY <1>1, WritesIs DEF LocalInv
<1>3. w \notin Backfills
  BY SyncAssumption
<1> QED
  BY <1>2, <1>3 DEF Local, Writing, FromEvent, Does

LEMMA FetchIs ==
  ASSUME LocalInv, NEW r \in Runners, Fetch(r)
  PROVE  /\ UNCHANGED <<log, horizon, expiries, row, tags, body, cursor, fetched, aborts>>
         /\ Typed /\ Others(r) /\ Local(r)'
         /\ \/ pc'[r] = "idle"
            \/ /\ pc'[r] = "row" /\ pc[r] = "fetch" /\ at'[r] = at[r]
               /\ at[r] + 1 \in 1 .. Latest
               /\ todo'[r] = Writes(at[r] + 1)
<1>0. /\ r \in Writers /\ TypeOK /\ EventsOK /\ Latest \in Nat /\ r \notin Backfills
      /\ at \in [Writers -> 0 .. Latest] /\ upto \in [Writers -> 0 .. Latest]
      /\ todo \in [Writers -> Seq(WriteOf)] /\ pc \in [Writers -> PCs]
      /\ page \in [Writers -> Nat]
  BY Types, SyncAssumption DEF LocalInv, Writers
<1>1. UNCHANGED <<log, horizon, expiries, row, tags, body, cursor, fetched, aborts>>
      /\ pc[r] = "fetch"
  BY DEF Fetch, serverVars, mirrorVars
<1>2. CASE Return(r)
  <2>1. Typed /\ Others(r) /\ pc'[r] = "idle"
    BY <1>0, <1>2, ReturnIs
  <2> QED
    BY <1>0, <1>1, <2>1 DEF Local, Writing
<1>3. CASE ~Return(r)
  <2>0. ~(at[r] >= Latest)
    BY <1>3 DEF Fetch
  <2>1. PICK k \in (at[r] + 1) .. Latest :
          /\ upto' = [upto EXCEPT ![r] = k]
          /\ todo' = [todo EXCEPT ![r] = Writes(at[r] + 1)]
          /\ pc' = [pc EXCEPT ![r] = "row"]
          /\ UNCHANGED <<at, page>>
    BY <1>3 DEF Fetch, Goto
  <2>2. at[r] \in 0 .. Latest /\ k \in 0 .. Latest /\ at[r] < k /\ at[r] + 1 \in 1 .. Latest
    BY <1>0, <2>0, <2>1
  <2>3. /\ pc'[r] = "row" /\ at'[r] = at[r] /\ upto'[r] = k
        /\ todo'[r] = Writes(at[r] + 1) /\ Others(r)
        /\ pc' \in [Writers -> PCs] /\ upto' \in [Writers -> 0 .. Latest]
    BY <1>0, <2>1, <2>2 DEF Others, PCs
  <2>4. Local(r)' /\ todo'[r] \in Seq(WriteOf)
    BY <1>0, <1>1, <2>2, <2>3, TakesUp
  <2>5. todo' \in [Writers -> Seq(WriteOf)]
    BY <1>0, <2>1, <2>3, <2>4
  <2>6. Typed
    BY <1>0, <2>1, <2>3, <2>5 DEF Typed
  <2> QED
    BY <1>1, <2>2, <2>3, <2>4, <2>6
<1> QED
  BY <1>2, <1>3

LEMMA SaveCursorIs ==
  ASSUME LocalInv, NEW r \in Runners, SaveCursor(r)
  PROVE  /\ UNCHANGED <<log, horizon, expiries, row, tags, body, fetched, aborts>>
         /\ pc[r] = "save" /\ cursor' = at[r] + 1 /\ cursor' \in NoCursor .. Latest
         /\ Typed /\ Others(r) /\ Local(r)'
         /\ \/ pc'[r] = "idle"
            \/ pc'[r] = "fetch" /\ at'[r] = at[r] + 1
            \/ /\ pc'[r] = "row" /\ at'[r] = at[r] + 1 /\ at[r] + 2 \in 1 .. Latest
               /\ todo'[r] = Writes(at[r] + 2)
<1>0. /\ r \in Writers /\ TypeOK /\ EventsOK /\ Latest \in Nat /\ r \notin Backfills
      /\ at \in [Writers -> 0 .. Latest] /\ upto \in [Writers -> 0 .. Latest]
      /\ todo \in [Writers -> Seq(WriteOf)] /\ pc \in [Writers -> PCs]
      /\ page \in [Writers -> Nat]
  BY Types, SyncAssumption DEF LocalInv, Writers
<1>1. /\ UNCHANGED <<log, horizon, expiries, row, tags, body, fetched, aborts>>
      /\ pc[r] = "save" /\ cursor' = at[r] + 1
  BY DEF SaveCursor, NextCursor, serverVars, mirrorVars
<1>2. at[r] < upto[r] /\ at[r] \in 0 .. Latest /\ upto[r] \in 0 .. Latest
  BY <1>0, <1>1 DEF LocalInv, Local
<1>3. cursor' \in NoCursor .. Latest
  BY <1>0, <1>1, <1>2, Numbers
<1>4. CASE Return(r)
  <2>1. Typed /\ Others(r) /\ pc'[r] = "idle"
    BY <1>0, <1>4, ReturnIs
  <2> QED
    BY <1>0, <1>1, <1>3, <2>1 DEF Local, Writing
<1>5. CASE pc' = [pc EXCEPT ![r] = "fetch"] /\ at' = [at EXCEPT ![r] = at[r] + 1]
           /\ UNCHANGED <<upto, todo, page>>
  <2>1. at[r] + 1 \in 0 .. Latest
    BY <1>0, <1>2
  <2>2. Typed /\ Others(r) /\ pc'[r] = "fetch" /\ at'[r] = at[r] + 1
    BY <1>0, <1>5, <2>1 DEF Typed, Others, PCs
  <2> QED
    BY <1>0, <1>1, <1>3, <2>2 DEF Local, Writing
<1>6. CASE /\ pc' = [pc EXCEPT ![r] = "row"] /\ at' = [at EXCEPT ![r] = at[r] + 1]
           /\ todo' = [todo EXCEPT ![r] = Writes(at[r] + 2)]
           /\ UNCHANGED <<upto, page>> /\ at[r] + 1 < upto[r]
  <2>1. at[r] + 1 \in 0 .. Latest /\ at[r] + 2 \in 1 .. Latest /\ at[r] + 2 = (at[r] + 1) + 1
    BY <1>0, <1>2, <1>6
  <2>2. /\ pc'[r] = "row" /\ at'[r] = at[r] + 1 /\ upto'[r] = upto[r]
        /\ todo'[r] = Writes((at[r] + 1) + 1) /\ Others(r)
        /\ pc' \in [Writers -> PCs] /\ at' \in [Writers -> 0 .. Latest]
    BY <1>0, <1>6, <2>1 DEF Others, PCs
  <2>3. PICK n \in 0 .. Latest : n = at[r] + 1
    BY <2>1
  <2>4. Local(r)' /\ todo'[r] \in Seq(WriteOf)
    BY <1>0, <1>1, <1>2, <1>6, <2>2, <2>3, TakesUp
  <2>5. todo' \in [Writers -> Seq(WriteOf)]
    BY <1>0, <1>6, <2>2, <2>4
  <2>6. Typed
    BY <1>0, <1>6, <2>2, <2>5 DEF Typed
  <2> QED
    BY <1>1, <1>3, <2>1, <2>2, <2>4, <2>6
<1> QED
  BY <1>4, <1>5, <1>6 DEF SaveCursor, Goto

(* A write; of what, and what is left.                                     *)
LEMMA WriteRowIs ==
  ASSUME LocalInv, NEW w \in Writers, WriteRow(w)
  PROVE  /\ UNCHANGED <<log, horizon, expiries, cursor, fetched, aborts>>
         /\ Typed /\ Others(w) /\ Local(w)' /\ MirrorTyped /\ at'[w] = at[w]
         /\ pc[w] = "row" /\ todo[w][1] \in WriteOf
         /\ LET d == todo[w][1] IN
            /\ \A m \in Messages : m # d.msg => row'[m] = row[m] /\ tags'[m] = tags[m]
            /\ \/ /\ d.action = "delete" /\ row'[d.msg] = 0 /\ tags'[d.msg] = 0
                  /\ todo'[w] = Tail(todo[w])
                  /\ pc'[w] = IF Len(todo[w]) > 1 THEN "row"
                              ELSE IF w \in Runners THEN "save" ELSE "walk"
               \/ /\ d.action # "delete" /\ row'[d.msg] = d.ver /\ tags'[d.msg] = tags[d.msg]
                  /\ pc'[w] = "tags" /\ todo'[w] = todo[w]
<1>0. /\ TypeOK /\ Latest \in Nat /\ Local(w)
      /\ at \in [Writers -> 0 .. Latest] /\ upto \in [Writers -> 0 .. Latest]
      /\ todo \in [Writers -> Seq(WriteOf)] /\ pc \in [Writers -> PCs]
      /\ page \in [Writers -> Nat]
      /\ row \in [Messages -> 0 .. Latest] /\ tags \in [Messages -> 0 .. Latest]
      /\ body \in [Messages -> 0 .. Latest] /\ cursor \in NoCursor .. Latest
      /\ \A m \in Messages : row[m] = 0 => tags[m] = 0 /\ body[m] = 0
  BY Types DEF LocalInv
<1> DEFINE d == todo[w][1]
<1>1. /\ UNCHANGED <<log, horizon, expiries, cursor, at, upto, page, fetched, aborts>>
      /\ pc[w] = "row" /\ Writing(w)
  BY DEF WriteRow, serverVars, Writing
<1>2. /\ todo[w] # <<>> /\ d \in WriteOf /\ Len(todo[w]) \in Nat /\ Len(todo[w]) > 0
      /\ Tail(todo[w]) \in Seq(WriteOf) /\ Len(Tail(todo[w])) = Len(todo[w]) - 1
      /\ \A j \in 1 .. Len(Tail(todo[w])) : Tail(todo[w])[j] = todo[w][j + 1]
                                            /\ j + 1 \in 1 .. Len(todo[w])
      /\ Tail(todo[w]) # <<>> <=> Len(todo[w]) > 1
  BY <1>0, <1>1, TailIs DEF Local
<1>3. d.msg \in Messages /\ d.ver \in 0 .. Latest /\ d.ver # 0
  BY <1>0, <1>2, WriteIs
<1>4. CASE d.action = "delete"
  <2>1. /\ row' = [row EXCEPT ![d.msg] = 0] /\ tags' = [tags EXCEPT ![d.msg] = 0]
        /\ body' = [body EXCEPT ![d.msg] = 0] /\ Done(w)
    BY <1>4 DEF WriteRow, None
  <2>2. /\ Typed /\ Others(w) /\ todo'[w] = Tail(todo[w]) /\ at'[w] = at[w] /\ upto'[w] = upto[w]
        /\ pc'[w] = IF Len(todo[w]) > 1 THEN "row"
                    ELSE IF w \in Runners THEN "save" ELSE "walk"
    BY <1>0, <1>1, <1>2, <2>1, DoneIs
  <2>3. MirrorTyped
    BY <1>0, <1>1, <1>3, <2>1 DEF MirrorTyped
  <2>4. Local(w)'
    BY <1>0, <1>1, <1>2, <2>2, SyncAssumption DEF Local, Writing, FromEvent, Does
  <2> QED
    BY <1>0, <1>1, <1>2, <1>3, <1>4, <2>1, <2>2, <2>3, <2>4
<1>5. CASE d.action # "delete"
  <2>1. /\ row' = [row EXCEPT ![d.msg] = d.ver] /\ pc' = [pc EXCEPT ![w] = "tags"]
        /\ UNCHANGED <<tags, body, todo>>
    BY <1>5 DEF WriteRow, Goto
  <2>2. Typed /\ Others(w) /\ pc'[w] = "tags"
    BY <1>0, <1>1, <2>1 DEF Typed, Others, PCs
  <2>3. MirrorTyped
    BY <1>0, <1>1, <1>3, <2>1 DEF MirrorTyped
  <2>4. Local(w)'
    BY <1>0, <1>1, <1>5, <2>1, <2>2 DEF Local, Writing, FromEvent, Does
  <2> QED
    BY <1>0, <1>1, <1>2, <1>3, <1>5, <2>1, <2>2, <2>3, <2>4
<1> QED
  BY <1>4, <1>5

LEMMA WriteTagsIs ==
  ASSUME LocalInv, NEW w \in Writers, WriteTags(w)
  PROVE  /\ UNCHANGED <<log, horizon, expiries, row, body, cursor, fetched, aborts>>
         /\ Typed /\ Others(w) /\ Local(w)' /\ MirrorTyped /\ at'[w] = at[w]
         /\ pc[w] = "tags" /\ todo[w][1] \in WriteOf
         /\ LET d == todo[w][1] IN
            /\ \A m \in Messages : m # d.msg => tags'[m] = tags[m]
            /\ tags'[d.msg] = d.ver
            /\ \/ /\ todo'[w] = Tail(todo[w])
                  /\ pc'[w] = IF Len(todo[w]) > 1 THEN "row"
                              ELSE IF w \in Runners THEN "save" ELSE "walk"
               \/ d.action = "update" /\ pc'[w] = "body" /\ todo'[w] = todo[w]
<1>0. /\ TypeOK /\ Latest \in Nat /\ Local(w)
      /\ at \in [Writers -> 0 .. Latest] /\ upto \in [Writers -> 0 .. Latest]
      /\ todo \in [Writers -> Seq(WriteOf)] /\ pc \in [Writers -> PCs]
      /\ page \in [Writers -> Nat]
      /\ row \in [Messages -> 0 .. Latest] /\ tags \in [Messages -> 0 .. Latest]
      /\ body \in [Messages -> 0 .. Latest] /\ cursor \in NoCursor .. Latest
      /\ \A m \in Messages : row[m] = 0 => tags[m] = 0 /\ body[m] = 0
  BY Types DEF LocalInv
<1> DEFINE d == todo[w][1]
<1>1. /\ UNCHANGED <<log, horizon, expiries, row, body, cursor, at, upto, page, fetched, aborts>>
      /\ pc[w] = "tags" /\ Writing(w) /\ row[d.msg] # 0
      /\ tags' = [tags EXCEPT ![d.msg] = d.ver]
  BY DEF WriteTags, serverVars, Writing, None
<1>2. /\ todo[w] # <<>> /\ d \in WriteOf /\ Len(todo[w]) \in Nat /\ Len(todo[w]) > 0
      /\ Tail(todo[w]) \in Seq(WriteOf) /\ Len(Tail(todo[w])) = Len(todo[w]) - 1
      /\ \A j \in 1 .. Len(Tail(todo[w])) : Tail(todo[w])[j] = todo[w][j + 1]
                                            /\ j + 1 \in 1 .. Len(todo[w])
      /\ Tail(todo[w]) # <<>> <=> Len(todo[w]) > 1
  BY <1>0, <1>1, TailIs DEF Local
<1>3. d.msg \in Messages /\ d.ver \in 0 .. Latest
  BY <1>0, <1>2, WriteIs
<1>4. MirrorTyped
  BY <1>0, <1>1, <1>3 DEF MirrorTyped
<1>5. \A m \in Messages : m # d.msg => tags'[m] = tags[m]
  BY <1>0, <1>1
<1>6. tags'[d.msg] = d.ver
  BY <1>0, <1>1, <1>3
<1>7. CASE Done(w)
  <2>2. /\ Typed /\ Others(w) /\ todo'[w] = Tail(todo[w]) /\ at'[w] = at[w] /\ upto'[w] = upto[w]
        /\ pc'[w] = IF Len(todo[w]) > 1 THEN "row"
                    ELSE IF w \in Runners THEN "save" ELSE "walk"
    BY <1>0, <1>1, <1>2, <1>7, DoneIs
  <2>4. Local(w)'
    BY <1>0, <1>1, <1>2, <2>2, SyncAssumption DEF Local, Writing, FromEvent, Does
  <2> QED
    BY <1>1, <1>2, <1>4, <1>5, <1>6, <2>2, <2>4
<1>8. CASE d.action = "update" /\ pc' = [pc EXCEPT ![w] = "body"] /\ todo' = todo
  <2>1. Typed /\ Others(w) /\ pc'[w] = "body" /\ at'[w] = at[w]
    BY <1>0, <1>1, <1>8 DEF Typed, Others, PCs
  <2>2. w \notin Backfills
    BY <1>0, <1>1, <1>2, <1>8 DEF Local
  <2>3. Local(w)'
    BY <1>0, <1>1, <1>2, <1>8, <2>1, <2>2 DEF Local, Writing, FromEvent, Does
  <2> QED
    BY <1>1, <1>2, <1>4, <1>5, <1>6, <1>8, <2>1, <2>3
<1> QED
  BY <1>7, <1>8 DEF WriteTags, ChangesBody, Goto

LEMMA InvalidateIs ==
  ASSUME LocalInv, NEW w \in Writers, InvalidateBodyCache(w)
  PROVE  /\ UNCHANGED <<log, horizon, expiries, row, tags, cursor, fetched, aborts>>
         /\ Typed /\ Others(w) /\ Local(w)' /\ MirrorTyped /\ at'[w] = at[w]
         /\ pc[w] = "body"
         /\ todo'[w] = Tail(todo[w])
         /\ pc'[w] = IF Len(todo[w]) > 1 THEN "row"
                     ELSE IF w \in Runners THEN "save" ELSE "walk"
<1>0. /\ TypeOK /\ Latest \in Nat /\ Local(w)
      /\ at \in [Writers -> 0 .. Latest] /\ upto \in [Writers -> 0 .. Latest]
      /\ todo \in [Writers -> Seq(WriteOf)] /\ pc \in [Writers -> PCs]
      /\ row \in [Messages -> 0 .. Latest] /\ tags \in [Messages -> 0 .. Latest]
      /\ body \in [Messages -> 0 .. Latest] /\ cursor \in NoCursor .. Latest
      /\ \A m \in Messages : row[m] = 0 => tags[m] = 0 /\ body[m] = 0
  BY Types DEF LocalInv
<1> DEFINE d == todo[w][1]
<1>1. /\ UNCHANGED <<log, horizon, expiries, row, tags, cursor, at, upto, page, fetched, aborts>>
      /\ pc[w] = "body" /\ Writing(w) /\ Done(w)
      /\ body' = [body EXCEPT ![d.msg] = 0]
  BY DEF InvalidateBodyCache, serverVars, Writing, None
<1>2. /\ todo[w] # <<>> /\ Len(todo[w]) \in Nat /\ Len(todo[w]) > 0
      /\ Tail(todo[w]) \in Seq(WriteOf) /\ Len(Tail(todo[w])) = Len(todo[w]) - 1
      /\ \A j \in 1 .. Len(Tail(todo[w])) : Tail(todo[w])[j] = todo[w][j + 1]
                                            /\ j + 1 \in 1 .. Len(todo[w])
      /\ Tail(todo[w]) # <<>> <=> Len(todo[w]) > 1
  BY <1>0, <1>1, TailIs DEF Local
<1>3. MirrorTyped
  <2>1. body' \in [Messages -> 0 .. Latest]
    <3>1. 0 \in 0 .. Latest
      BY <1>0
    <3> QED
      BY <1>0, <1>1, <3>1
  <2>2. \A m \in Messages : row[m] = 0 => body'[m] = 0
    BY <1>0, <1>1
  <2> QED
    BY <1>0, <1>1, <2>1, <2>2 DEF MirrorTyped
<1>4. /\ Typed /\ Others(w) /\ todo'[w] = Tail(todo[w]) /\ at'[w] = at[w] /\ upto'[w] = upto[w]
      /\ pc'[w] = IF Len(todo[w]) > 1 THEN "row"
                  ELSE IF w \in Runners THEN "save" ELSE "walk"
  BY <1>0, <1>1, <1>2, DoneIs
<1>5. Local(w)'
  BY <1>0, <1>1, <1>2, <1>4, SyncAssumption DEF Local, Writing, FromEvent, Does
<1> QED
  BY <1>1, <1>3, <1>4, <1>5

LEMMA BeginIs ==
  ASSUME LocalInv, NEW r \in Runners, Begin(r)
  PROVE  /\ UNCHANGED <<log, horizon, expiries, row, tags, body, cursor, fetched, aborts>>
         /\ MayStart(r) /\ Typed /\ Others(r) /\ Local(r)'
         /\ \/ pc'[r] = "seed" /\ cursor = NoCursor
            \/ pc'[r] = "fetch" /\ cursor # NoCursor /\ at'[r] = cursor
<1>0. /\ r \in Writers /\ r \notin Backfills /\ Latest \in Nat
      /\ at \in [Writers -> 0 .. Latest] /\ pc \in [Writers -> PCs]
      /\ upto \in [Writers -> 0 .. Latest] /\ todo \in [Writers -> Seq(WriteOf)]
      /\ page \in [Writers -> Nat] /\ cursor \in NoCursor .. Latest
  BY Types, SyncAssumption DEF LocalInv, Writers
<1>1. /\ UNCHANGED <<log, horizon, expiries, row, tags, body, cursor, fetched, aborts>>
      /\ UNCHANGED <<upto, todo, page>> /\ MayStart(r)
  BY DEF Begin, serverVars, mirrorVars
<1>2. CASE cursor = NoCursor
  <2>1. pc' = [pc EXCEPT ![r] = "seed"] /\ at' = [at EXCEPT ![r] = Latest]
    BY <1>2 DEF Begin, Goto, LatestEventID
  <2> QED
    BY <1>0, <1>1, <1>2, <2>1 DEF Typed, Others, PCs, Local, Writing
<1>3. CASE cursor # NoCursor
  <2>1. pc' = [pc EXCEPT ![r] = "fetch"] /\ at' = [at EXCEPT ![r] = cursor]
    BY <1>3 DEF Begin, Goto
  <2>2. cursor \in 0 .. Latest
    BY <1>0, <1>3, Numbers
  <2> QED
    BY <1>0, <1>1, <1>3, <2>1, <2>2 DEF Typed, Others, PCs, Local, Writing
<1> QED
  BY <1>2, <1>3

LEMMA CaptureIs ==
  ASSUME LocalInv, NEW b \in Backfills, Capture(b)
  PROVE  /\ UNCHANGED <<log, horizon, expiries, row, tags, body, cursor, fetched, aborts>>
         /\ MayStart(b) /\ Typed /\ Others(b) /\ Local(b)'
         /\ pc'[b] = "walk" /\ at'[b] = Latest
         /\ CleanBackfill => \A m \in Messages : row[m] = 0
<1>0. /\ b \in Writers /\ b \notin Runners /\ Latest \in Nat
      /\ at \in [Writers -> 0 .. Latest] /\ pc \in [Writers -> PCs]
      /\ upto \in [Writers -> 0 .. Latest] /\ todo \in [Writers -> Seq(WriteOf)]
      /\ page \in [Writers -> Nat]
  BY Types, SyncAssumption DEF LocalInv, Writers
<1>1. /\ UNCHANGED <<log, horizon, expiries, row, tags, body, cursor, fetched, aborts>>
      /\ UNCHANGED <<upto, todo, page>> /\ MayStart(b)
      /\ pc' = [pc EXCEPT ![b] = "walk"] /\ at' = [at EXCEPT ![b] = Latest]
      /\ CleanBackfill => \A m \in Messages : row[m] = 0
  BY DEF Capture, Goto, LatestEventID, serverVars, mirrorVars, None
<1> QED
  BY <1>0, <1>1 DEF Typed, Others, PCs, Local, Writing

LEMMA WalkIs ==
  ASSUME LocalInv, NEW b \in Backfills, Walk(b)
  PROVE  /\ UNCHANGED <<log, horizon, expiries, row, tags, body, cursor, fetched, aborts>>
         /\ Typed /\ Others(b) /\ Local(b)' /\ at'[b] = at[b] /\ pc[b] = "walk"
         /\ \/ pc'[b] = "save"
            \/ /\ pc'[b] = "row"
               /\ \E m \in Messages :
                    todo'[b] = <<[msg |-> m, action |-> "flags", ver |-> At(Latest, m)]>>
<1>0. /\ b \in Writers /\ b \notin Runners /\ Latest \in Nat
      /\ at \in [Writers -> 0 .. Latest] /\ pc \in [Writers -> PCs]
      /\ upto \in [Writers -> 0 .. Latest] /\ todo \in [Writers -> Seq(WriteOf)]
      /\ page \in [Writers -> Nat]
  BY Types, SyncAssumption DEF LocalInv, Writers
<1>1. /\ UNCHANGED <<log, horizon, expiries, row, tags, body, cursor, fetched, aborts>>
      /\ UNCHANGED <<at, upto>> /\ pc[b] = "walk"
  BY DEF Walk, serverVars, mirrorVars
<1>2. CASE Page(page[b]) = {}
  <2>1. pc' = [pc EXCEPT ![b] = "save"] /\ UNCHANGED <<todo, page>>
    BY <1>2 DEF Walk, Goto
  <2> QED
    BY <1>0, <1>1, <2>1 DEF Typed, Others, PCs, Local, Writing
<1>3. CASE Page(page[b]) # {}
  <2>1. PICK m \in Page(page[b]) :
          /\ todo' = [todo EXCEPT ![b] =
                <<[msg |-> m, action |-> "flags", ver |-> At(Latest, m)]>>]
          /\ page' = [page EXCEPT ![b] = page[b] + 1]
          /\ pc' = [pc EXCEPT ![b] = "row"]
    BY <1>3 DEF Walk, Goto
  <2>2. m \in Messages /\ At(Latest, m) \in 1 .. Latest
    BY <1>0, AtIs, Numbers DEF Page, Listed
  <2>3. PICK d \in WriteOf : /\ d = [msg |-> m, action |-> "flags", ver |-> At(Latest, m)]
                             /\ d.action = "flags"
    <3>1. \A n \in 1 .. Latest : [msg |-> m, action |-> "flags", ver |-> n] \in WriteOf
      BY <2>2 DEF WriteOf, Actions
    <3> QED
      BY <2>2, <3>1
  <2>4. todo' = [todo EXCEPT ![b] = <<d>>] /\ <<d>> \in Seq(WriteOf) /\ <<d>> # <<>>
        /\ Len(<<d>>) = 1 /\ <<d>>[1] = d
    BY <2>1, <2>3
  <2>5. Typed /\ Others(b) /\ pc'[b] = "row" /\ todo'[b] = <<d>>
    BY <1>0, <1>1, <2>1, <2>4 DEF Typed, Others, PCs
  <2>6. Local(b)'
    BY <1>0, <2>3, <2>4, <2>5 DEF Local, Writing
  <2> QED
    BY <1>1, <2>2, <2>3, <2>5, <2>6
<1> QED
  BY <1>2, <1>3

(* A run is over: cut off, or through.                                     *)
LEMMA LocalReturns ==
  ASSUME LocalInv, NEW w \in Writers, Return(w),
         UNCHANGED <<log, horizon, expiries, row, tags, body, fetched>>,
         cursor' \in NoCursor .. Latest, aborts' \in Nat
  PROVE  LocalInv'
<1>1. Typed /\ Others(w) /\ pc'[w] = "idle"
  BY ReturnIs DEF LocalInv
<1>2. Local(w)'
  BY <1>1 DEF Local, Writing
<1>3. MirrorTyped
  BY Types DEF LocalInv, MirrorTyped
<1> QED
  BY <1>1, <1>2, <1>3, WriterStep

(* A step that no writer takes.                                            *)
LEMMA LocalElse ==
  ASSUME LocalInv, UNCHANGED <<log, cursor, pc, at, upto, todo, page, aborts>>,
         UNCHANGED <<row, tags>>, body' \in [Messages -> 0 .. Latest],
         \A m \in Messages : row[m] = 0 => body'[m] = 0,
         horizon' \in 0 .. Latest, expiries' \in Nat,
         fetched' \in [Readers -> [Messages -> 0 .. Latest]]
  PROVE  LocalInv'
<1>1. Latest' = Latest /\ EventsOK'
  BY DEF LocalInv, EventsOK, Latest
<1>2. TypeOK'
  BY <1>1 DEF LocalInv, TypeOK, None
<1>3. ASSUME NEW w \in Writers PROVE Local(w)'
  <2>1. Local(w) /\ pc'[w] = pc[w] /\ at'[w] = at[w] /\ upto'[w] = upto[w] /\ todo'[w] = todo[w]
    BY DEF LocalInv
  <2> QED
    BY <2>1 DEF Local, Writing, FromEvent, Does
<1> QED
  BY <1>1, <1>2, <1>3 DEF LocalInv

LEMMA ReadIs ==
  ASSUME LocalInv, NEW q \in Readers, NEW m \in Messages, Read(q, m)
  PROVE  /\ UNCHANGED <<log, horizon, expiries, row, tags, cursor, aborts>>
         /\ UNCHANGED <<pc, at, upto, todo, page>>
         /\ body' \in [Messages -> 0 .. Latest]
         /\ fetched' \in [Readers -> [Messages -> 0 .. Latest]]
         /\ \A n \in Messages : row[n] = 0 => body'[n] = 0
<1>0. /\ Latest \in Nat /\ body \in [Messages -> 0 .. Latest] /\ row \in [Messages -> 0 .. Latest]
      /\ fetched \in [Readers -> [Messages -> 0 .. Latest]]
      /\ \A n \in Messages : row[n] = 0 => body[n] = 0
      /\ 0 \in 0 .. Latest
  BY Types DEF LocalInv
<1>1. CASE FetchBody(q, m)
  <2>1. PICK x \in 0 .. Latest : fetched' = [fetched EXCEPT ![q][m] = x]
    BY <1>0, <1>1, AtIs DEF FetchBody
  <2>2. UNCHANGED <<log, horizon, expiries, row, tags, body, cursor, aborts>>
        /\ UNCHANGED <<pc, at, upto, todo, page>>
    BY <1>1 DEF FetchBody, serverVars, mirrorVars, writerVars
  <2> QED
    BY <1>0, <2>1, <2>2
<1>2. CASE SetCachedBody(q, m)
  <2>1. PICK x \in 0 .. Latest : body' = [body EXCEPT ![m] = x] /\ (row[m] = 0 => x = 0)
    BY <1>0, <1>2, Numbers DEF SetCachedBody
  <2>2. fetched' = [fetched EXCEPT ![q][m] = 0]
    BY <1>2, Numbers DEF SetCachedBody
  <2>3. UNCHANGED <<log, horizon, expiries, row, tags, cursor, aborts>>
        /\ UNCHANGED <<pc, at, upto, todo, page>>
    BY <1>2 DEF SetCachedBody, serverVars, writerVars
  <2>4. fetched' \in [Readers -> [Messages -> 0 .. Latest]]
    BY <1>0, <2>2
  <2>5. body' \in [Messages -> 0 .. Latest] /\ \A n \in Messages : row[n] = 0 => body'[n] = 0
    BY <1>0, <2>1
  <2> QED
    BY <2>3, <2>4, <2>5
<1> QED
  BY <1>1, <1>2 DEF Read

LEMMA LocalInit ==
  ASSUME Init PROVE LocalInv
<1>1. log = <<>> /\ log \in Seq(Seq(Diffs)) /\ Latest = 0 /\ Len(log) = 0
  BY EmptySeq DEF Init, Latest
<1>2. EventsOK
  BY <1>1 DEF EventsOK
<1>3. \A S : <<>> \in Seq(S)
  BY EmptySeq
<1>4. TypeOK
  BY <1>1, <1>3, Numbers DEF Init, TypeOK, PCs
<1>5. \A w \in Writers : pc[w] = "idle"
  BY DEF Init
<1> QED
  BY <1>2, <1>4, <1>5 DEF LocalInv, Local, Writing

LEMMA LocalKeeps ==
  ASSUME LocalInv, [Next]_vars PROVE LocalInv'
<1>0. /\ Latest \in Nat /\ cursor \in NoCursor .. Latest /\ aborts \in Nat /\ expiries \in Nat
      /\ horizon \in 0 .. Latest /\ Runners \subseteq Writers /\ Backfills \subseteq Writers
      /\ at \in [Writers -> 0 .. Latest] /\ row \in [Messages -> 0 .. Latest]
      /\ tags \in [Messages -> 0 .. Latest] /\ body \in [Messages -> 0 .. Latest]
      /\ \A m \in Messages : row[m] = 0 => tags[m] = 0 /\ body[m] = 0
      /\ fetched \in [Readers -> [Messages -> 0 .. Latest]]
  BY Types DEF LocalInv, Writers
<1>1. CASE Emit
  BY <1>1, EmitLocal
<1>2. CASE Expire
  BY <1>0, <1>2, LocalElse DEF Expire, mirrorVars, writerVars
<1>3. ASSUME NEW w \in Writers, Abort(w) PROVE LocalInv'
  BY <1>0, <1>3, LocalReturns DEF Abort, serverVars, mirrorVars
<1>4. ASSUME NEW w \in Writers, Write(w) PROVE LocalInv'
  BY <1>0, <1>4, WriteRowIs, WriteTagsIs, InvalidateIs, WriterStep DEF Write
<1>5. ASSUME NEW r \in Runners, RunOnce(r) PROVE LocalInv'
  <2>0. MirrorTyped \/ ~UNCHANGED <<row, tags, body>> \/ cursor' \notin NoCursor .. Latest
    BY <1>0 DEF MirrorTyped
  <2>1. CASE Begin(r)
    BY <1>0, <2>0, <2>1, BeginIs, WriterStep
  <2>2. CASE Seed(r)
    <3>1. cursor' \in NoCursor .. Latest
      BY <1>0, <2>2, Numbers DEF Seed
    <3> QED
      BY <1>0, <2>2, <3>1, LocalReturns DEF Seed, serverVars, mirrorVars
  <2>3. CASE Fetch(r)
    BY <1>0, <2>0, <2>3, FetchIs, WriterStep
  <2>4. CASE Write(r)
    BY <1>0, <1>4, <2>4
  <2>5. CASE SaveCursor(r)
    BY <1>0, <2>0, <2>5, SaveCursorIs, WriterStep
  <2> QED
    BY <1>5, <2>1, <2>2, <2>3, <2>4, <2>5 DEF RunOnce
<1>6. ASSUME NEW b \in Backfills, Capture(b) \/ Backfill(b) PROVE LocalInv'
  <2>0. MirrorTyped \/ ~UNCHANGED <<row, tags, body>> \/ cursor' \notin NoCursor .. Latest
    BY <1>0 DEF MirrorTyped
  <2>1. CASE Capture(b)
    BY <1>0, <2>0, <2>1, CaptureIs, WriterStep
  <2>2. CASE Walk(b)
    BY <1>0, <2>0, <2>2, WalkIs, WriterStep
  <2>3. CASE Write(b)
    BY <1>0, <1>4, <2>3
  <2>4. CASE SaveCaptured(b)
    <3>1. cursor' \in NoCursor .. Latest
      BY <1>0, <2>4, Numbers DEF SaveCaptured, CapturedCursor
    <3> QED
      BY <1>0, <2>4, <3>1, LocalReturns DEF SaveCaptured, serverVars, mirrorVars
  <2> QED
    BY <1>6, <2>1, <2>2, <2>3, <2>4 DEF Backfill
<1>7. ASSUME NEW q \in Readers, NEW m \in Messages, Read(q, m) PROVE LocalInv'
  BY <1>0, <1>7, ReadIs, LocalElse
<1>8. CASE UNCHANGED vars
  BY <1>0, <1>8, LocalElse DEF vars, serverVars, mirrorVars, writerVars
<1> QED
  BY <1>1, <1>2, <1>3, <1>5, <1>6, <1>7, <1>8 DEF Next

LEMMA LocalInvariant == Spec => []LocalInv
  BY LocalInit, LocalKeeps, PTL DEF Spec

(* Whatever the writers, readers and aborts do at the same time, no column *)
(* and no cursor of internal/store names an event the server has not had,  *)
(* and a message's labels and body never outlive its row.                  *)
THEOREM MirrorTypes == Spec => []TypeOK
<1>1. LocalInv => TypeOK
  BY DEF LocalInv
<1> QED
  BY <1>1, LocalInvariant, PTL

----------------------------------------------------------------------------
(* One writer at a time.  The induction needs what is still to be written  *)
(* while a run is between two cursors (Replayed), and that a backfill      *)
(* stores a cursor older than all it wrote (Filled).                       *)

(* v is what the server held of m at c or later.                           *)
Since(c, m, v) == \E i \in 0 .. Latest : i >= c /\ v = At(i, m)
Held(c) ==
    \A m \in Messages : /\ row[m] # 0 => Since(c, m, row[m])
                        /\ tags[m] # 0 => Since(c, m, tags[m])

(* The writes of w from the k-th on include one of m.                      *)
Left(w, m, k) == \E j \in k .. Len(todo[w]) : todo[w][j].msg = m
RowLeft(w, m) ==
    \/ pc[w] = "row" /\ Left(w, m, 1)
    \/ pc[w] \in {"tags", "body"} /\ Left(w, m, 2)
TagsLeft(w, m) ==
    \/ pc[w] \in {"row", "tags"} /\ Left(w, m, 1)
    \/ pc[w] = "body" /\ Left(w, m, 2)

(* Halfway through an event: what is not as of that event is to be written. *)
Replayed(r) ==
    \A m \in Messages :
        /\ row[m] # 0 => Since(at[r] + 1, m, row[m]) \/ RowLeft(r, m)
        /\ tags[m] # 0 => Since(at[r] + 1, m, tags[m]) \/ TagsLeft(r, m)

RunSound(r) ==
    /\ pc[r] = "seed" => cursor = NoCursor
    /\ pc[r] \in {"fetch", "row", "tags", "body", "save"} => at[r] = cursor
    /\ pc[r] \in {"row", "tags", "body", "save"} => Replayed(r)

Filled(b) ==
    pc[b] # "idle" =>
        /\ cursor <= at[b] /\ Held(at[b])
        /\ Writing(b) => \A j \in 1 .. Len(todo[b]) :
                            Since(at[b], todo[b][j].msg, todo[b][j].ver)

One == \A v, w \in Writers : pc[v] # "idle" /\ pc[w] # "idle" => v = w
Empty ==
    cursor = NoCursor /\ (\A b \in Backfills : pc[b] = "idle")
        => \A m \in Messages : row[m] = 0

CursorInv ==
    /\ LocalInv /\ One /\ Empty /\ Held(cursor)
    /\ \A r \in Runners : RunSound(r)
    /\ \A b \in Backfills : Filled(b)

LEMMA HeldIs ==
  ASSUME LocalInv PROVE Held(cursor) <=> NeverBehindCursor
  BY Numbers DEF Held, NeverBehindCursor, Since

LEMMA SinceWeakens ==
  ASSUME LocalInv, NEW c \in Int, NEW e \in Int, e <= c
  PROVE  /\ \A m, v : Since(c, m, v) => Since(e, m, v)
         /\ Held(c) => Held(e)
<1>1. \A m, v : Since(c, m, v) => Since(e, m, v)
  BY Types DEF LocalInv, Since
<1> QED
  BY <1>1 DEF Held

(* The log only grows, so what was true of the past stays true.            *)
LEMMA SinceKept ==
  ASSUME LocalInv, Latest' \in Nat, Latest' >= Latest, \A i \in 1 .. Latest : log'[i] = log[i]
  PROVE  \A c, m, v : Since(c, m, v) => Since(c, m, v)'
<1> SUFFICES ASSUME NEW c, NEW m, NEW v, Since(c, m, v) PROVE Since(c, m, v)'
  OBVIOUS
<1>0. Latest \in Nat
  BY Types DEF LocalInv
<1>1. PICK i \in 0 .. Latest : i >= c /\ v = At(i, m)
  BY DEF Since
<1>2. At(i, m)' = At(i, m)
  <2>1. i \in Nat /\ \A k \in 1 .. i : log'[k] = log[k]
    BY <1>0
  <2> QED
    BY <2>1, PastIsKept
<1>3. i \in 0 .. Latest'
  BY <1>0
<1> QED
  BY <1>1, <1>2, <1>3 DEF Since

(* Moving on to event n: what it does not touch is as new as before, and   *)
(* what it touches is among its writes.                                    *)
LEMMA NextEvent ==
  ASSUME LocalInv, NEW n \in 0 .. Latest, n + 1 \in 1 .. Latest, NEW m \in Messages, NEW v,
         Since(n, m, v)
  PROVE  Since(n + 1, m, v) \/ \E j \in 1 .. Len(Writes(n + 1)) : Writes(n + 1)[j].msg = m
<1>0. Latest \in Nat
  BY Types DEF LocalInv
<1>1. CASE Does(n + 1, m, Actions)
  BY <1>1, WritesIs DEF LocalInv
<1>2. CASE ~Does(n + 1, m, Actions)
  <2>1. PICK i \in 0 .. Latest : i >= n /\ v = At(i, m)
    BY DEF Since
  <2>2. CASE i >= n + 1
    BY <2>1, <2>2 DEF Since
  <2>3. CASE i = n
    <3>1. v = At(n + 1, m)
      BY <1>2, <2>1, <2>3, AtSame
    <3> QED
      BY <1>0, <3>1 DEF Since
  <2> QED
    BY <1>0, <2>1, <2>2, <2>3
<1> QED
  BY <1>1, <1>2

(* While a writer is at work, or starts, the others are idle.              *)
LEMMA Alone ==
  ASSUME CursorInv, Exclusive, NEW w \in Writers, pc[w] # "idle" \/ MayStart(w), Others(w)
  PROVE  /\ \A v \in Writers : v # w => pc[v] = "idle" /\ pc'[v] = "idle"
         /\ One'
         /\ \A r \in Runners : r # w => RunSound(r)'
         /\ \A b \in Backfills : b # w => Filled(b)'
<1>1. \A v \in Writers : v # w => pc[v] = "idle" /\ pc'[v] = "idle"
  BY DEF CursorInv, One, MayStart, Others
<1>2. One'
  BY <1>1 DEF One
<1>3. ASSUME NEW r \in Runners, r # w PROVE RunSound(r)'
  <2>1. pc'[r] = "idle"
    BY <1>1, <1>3 DEF Writers
  <2> QED
    BY <2>1 DEF RunSound
<1>4. ASSUME NEW b \in Backfills, b # w PROVE Filled(b)'
  <2>1. pc'[b] = "idle"
    BY <1>1, <1>4 DEF Writers
  <2> QED
    BY <2>1 DEF Filled
<1> QED
  BY <1>1, <1>2, <1>3, <1>4

(* The writes left after one is through.                                   *)
LEMMA LeftMoves ==
  ASSUME LocalInv, NEW w \in Writers, Writing(w), todo'[w] = Tail(todo[w]),
         pc'[w] = IF Len(todo[w]) > 1 THEN "row" ELSE IF w \in Runners THEN "save" ELSE "walk",
         NEW m, Left(w, m, 2)
  PROVE  RowLeft(w, m)' /\ TagsLeft(w, m)'
<1>1. /\ todo[w] \in Seq(WriteOf) /\ todo[w] # <<>> /\ Local(w)
  BY Types DEF LocalInv, Local
<1>2. Len(todo[w]) \in Nat /\ Len(Tail(todo[w])) = Len(todo[w]) - 1
      /\ \A j \in 1 .. Len(Tail(todo[w])) : Tail(todo[w])[j] = todo[w][j + 1]
  BY <1>1, TailIs
<1>3. PICK j \in 2 .. Len(todo[w]) : todo[w][j].msg = m
  BY DEF Left
<1>4. j - 1 \in 1 .. Len(Tail(todo[w])) /\ Tail(todo[w])[j - 1].msg = m /\ Len(todo[w]) > 1
  <2>1. j - 1 \in 1 .. Len(Tail(todo[w])) /\ (j - 1) + 1 = j /\ Len(todo[w]) > 1
    BY <1>2
  <2> QED
    BY <1>2, <1>3, <2>1
<1>5. Left(w, m, 1)'
  BY <1>4 DEF Left
<1> QED
  BY <1>4, <1>5 DEF RowLeft, TagsLeft

LEMMA LeftSplits ==
  ASSUME LocalInv, NEW w \in Writers, Writing(w), NEW m, Left(w, m, 1), m # todo[w][1].msg
  PROVE  Left(w, m, 2)
<1>1. todo[w] \in Seq(WriteOf)
  BY Types DEF LocalInv
<1>2. PICK j \in 1 .. Len(todo[w]) : todo[w][j].msg = m
  BY DEF Left
<1>3. j # 1 /\ Len(todo[w]) \in Nat
  BY <1>1, <1>2, LenProperties
<1>4. j \in 2 .. Len(todo[w])
  BY <1>3
<1> QED
  BY <1>2, <1>4 DEF Left

(* A run writes: event at + 1 reaches the mirror message by message.       *)
LEMMA RunWrites ==
  ASSUME CursorInv, NEW r \in Runners, Write(r),
         LocalInv', log' = log, cursor' = cursor, at'[r] = at[r], Latest' = Latest
  PROVE  RunSound(r)' /\ Held(cursor)' /\ Empty'
<1> DEFINE c == at[r] + 1
<1>0. /\ r \in Writers /\ LocalInv /\ Latest \in Nat /\ at[r] \in 0 .. Latest
      /\ Writing(r) /\ at[r] = cursor /\ Replayed(r) /\ Local(r) /\ Held(cursor)
      /\ upto[r] \in 0 .. Latest /\ at[r] < upto[r] /\ c \in 1 .. Latest
      /\ todo[r] \in Seq(WriteOf) /\ todo[r] # <<>>
      /\ todo[r][1] \in WriteOf /\ 1 \in 1 .. Len(todo[r])
  <2>1. /\ r \in Writers /\ LocalInv /\ Latest \in Nat /\ at[r] \in 0 .. Latest
        /\ Writing(r) /\ upto[r] \in 0 .. Latest /\ todo[r] \in Seq(WriteOf)
    BY Types DEF CursorInv, LocalInv, Writers, Write, WriteRow, WriteTags,
                 InvalidateBodyCache, Writing
  <2>2. RunSound(r) /\ Local(r)
    BY <2>1 DEF CursorInv, LocalInv
  <2>3. at[r] = cursor /\ Replayed(r) /\ at[r] < upto[r] /\ todo[r] # <<>>
    BY <2>1, <2>2 DEF RunSound, Writing, Local
  <2>4. todo[r][1] \in WriteOf /\ Len(todo[r]) \in Nat /\ Len(todo[r]) > 0
    BY <2>1, <2>3, TailIs
  <2> QED
    BY <2>1, <2>2, <2>3, <2>4 DEF CursorInv
<1>1. \A e, m, v : Since(e, m, v) => Since(e, m, v)'
  BY <1>0, SinceKept
<1>2. Empty'
  BY <1>0, Numbers DEF Empty
<1> HIDE DEF c
(* What the first write leaves is what the server held at c.               *)
<1>3. LET d == todo[r][1] IN
      /\ d.ver = c
      /\ d.action # "delete" => Since(c, d.msg, c)
  <2>1. FromEvent(todo[r][1], c)
    BY <1>0 DEF Local, c
  <2>2. todo[r][1].action # "delete" => At(c, todo[r][1].msg) = c
    BY <1>0, <2>1, AtNew DEF FromEvent, c
  <2> QED
    BY <1>0, <2>1, <2>2 DEF FromEvent, Since
(* It is enough to say which columns are as of c, and which are to come.   *)
<1>4. ASSUME ASSUME NEW m \in Messages
             PROVE  /\ row'[m] # 0 => Since(c, m, row'[m])
                                      \/ (row'[m] = row[m] /\ RowLeft(r, m)')
                    /\ tags'[m] # 0 => Since(c, m, tags'[m])
                                      \/ (tags'[m] = tags[m] /\ TagsLeft(r, m)')
      PROVE  RunSound(r)' /\ Held(cursor)'
  <2>1. \A m, v : Since(c, m, v) => Since(cursor, m, v)
    BY <1>0, SinceWeakens DEF c
  <2>2. Held(cursor)'
    <3>1. \A m \in Messages : /\ row'[m] # 0 => Since(cursor, m, row'[m])
                              /\ tags'[m] # 0 => Since(cursor, m, tags'[m])
      BY <1>0, <1>4, <2>1 DEF Held
    <3> QED
      BY <1>1, <3>1 DEF Held
  <2>3. Replayed(r)'
    BY <1>0, <1>1, <1>4 DEF Replayed, c
  <2>4. pc'[r] # "seed"
    BY <1>0, WriteRowIs, WriteTagsIs, InvalidateIs DEF Write
  <2> QED
    BY <1>0, <2>2, <2>3, <2>4 DEF RunSound
<1>5. CASE WriteRow(r)
  <2> DEFINE d == todo[r][1]
  <2>1. /\ pc[r] = "row"
        /\ \A m \in Messages : m # d.msg => row'[m] = row[m] /\ tags'[m] = tags[m]
        /\ \/ /\ d.action = "delete" /\ row'[d.msg] = 0 /\ tags'[d.msg] = 0
              /\ todo'[r] = Tail(todo[r])
              /\ pc'[r] = IF Len(todo[r]) > 1 THEN "row"
                          ELSE IF r \in Runners THEN "save" ELSE "walk"
           \/ /\ d.action # "delete" /\ row'[d.msg] = d.ver /\ tags'[d.msg] = tags[d.msg]
              /\ pc'[r] = "tags" /\ todo'[r] = todo[r]
    BY <1>0, <1>5, WriteRowIs
  <2> HIDE DEF d
  <2>2. ASSUME NEW m \in Messages
        PROVE  /\ row'[m] # 0 => Since(c, m, row'[m])
                                      \/ (row'[m] = row[m] /\ RowLeft(r, m)')
               /\ tags'[m] # 0 => Since(c, m, tags'[m])
                                      \/ (tags'[m] = tags[m] /\ TagsLeft(r, m)')
    <3>1. /\ row[m] # 0 => Since(c, m, row[m]) \/ Left(r, m, 1)
          /\ tags[m] # 0 => Since(c, m, tags[m]) \/ Left(r, m, 1)
      BY <1>0, <2>1 DEF Replayed, RowLeft, TagsLeft, c
    <3>2. m # d.msg /\ Left(r, m, 1) => Left(r, m, 2)
      BY <1>0, LeftSplits DEF d
    <3>3. CASE todo'[r] = todo[r] /\ pc'[r] = "tags"
      <4>1. /\ Left(r, m, 1) => TagsLeft(r, m)'
            /\ Left(r, m, 2) => RowLeft(r, m)'
        BY <3>3 DEF Left, RowLeft, TagsLeft
      <4>2. CASE m = d.msg
        BY <1>3, <2>1, <3>1, <3>3, <4>1, <4>2 DEF d
      <4>3. CASE m # d.msg
        BY <2>1, <3>1, <3>2, <4>1, <4>3
      <4> QED
        BY <4>2, <4>3
    <3>4. CASE todo'[r] # todo[r] \/ pc'[r] # "tags"
      <4>1. Left(r, m, 2) => RowLeft(r, m)' /\ TagsLeft(r, m)'
        BY <1>0, <2>1, <3>4, LeftMoves
      <4> QED
        BY <2>1, <3>1, <3>2, <3>4, <4>1
    <3> QED
      BY <3>3, <3>4
  <2> QED
    BY <1>2, <1>4, <2>2
<1>6. CASE WriteTags(r)
  <2> DEFINE d == todo[r][1]
  <2>1. /\ pc[r] = "tags" /\ row' = row
        /\ \A m \in Messages : m # d.msg => tags'[m] = tags[m]
        /\ tags'[d.msg] = d.ver
        /\ \/ /\ todo'[r] = Tail(todo[r])
              /\ pc'[r] = IF Len(todo[r]) > 1 THEN "row"
                          ELSE IF r \in Runners THEN "save" ELSE "walk"
           \/ d.action = "update" /\ pc'[r] = "body" /\ todo'[r] = todo[r]
    BY <1>0, <1>6, WriteTagsIs
  <2>2. d.action # "delete"
    BY <1>0, <2>1 DEF Local
  <2> HIDE DEF d
  <2>3. ASSUME NEW m \in Messages
        PROVE  /\ row'[m] # 0 => Since(c, m, row'[m])
                                      \/ (row'[m] = row[m] /\ RowLeft(r, m)')
               /\ tags'[m] # 0 => Since(c, m, tags'[m])
                                      \/ (tags'[m] = tags[m] /\ TagsLeft(r, m)')
    <3>1. /\ row[m] # 0 => Since(c, m, row[m]) \/ Left(r, m, 2)
          /\ tags[m] # 0 => Since(c, m, tags[m]) \/ Left(r, m, 1)
      BY <1>0, <2>1 DEF Replayed, RowLeft, TagsLeft, c
    <3>2. m # d.msg /\ Left(r, m, 1) => Left(r, m, 2)
      BY <1>0, LeftSplits DEF d
    <3>3. Left(r, m, 2) => RowLeft(r, m)' /\ TagsLeft(r, m)'
      <4>1. CASE todo'[r] = todo[r] /\ pc'[r] = "body"
        BY <4>1 DEF Left, RowLeft, TagsLeft
      <4>2. CASE ~(todo'[r] = todo[r] /\ pc'[r] = "body")
        BY <1>0, <2>1, <4>2, LeftMoves
      <4> QED
        BY <4>1, <4>2
    <3>4. m = d.msg => Since(c, m, tags'[m])
      BY <1>3, <2>1, <2>2 DEF d
    <3> QED
      BY <2>1, <3>1, <3>2, <3>3, <3>4
  <2> QED
    BY <1>2, <1>4, <2>3
<1>7. CASE InvalidateBodyCache(r)
  <2>1. /\ pc[r] = "body" /\ row' = row /\ tags' = tags /\ todo'[r] = Tail(todo[r])
        /\ pc'[r] = IF Len(todo[r]) > 1 THEN "row"
                    ELSE IF r \in Runners THEN "save" ELSE "walk"
    BY <1>0, <1>7, InvalidateIs
  <2>2. ASSUME NEW m \in Messages
        PROVE  /\ row'[m] # 0 => Since(c, m, row'[m])
                                      \/ (row'[m] = row[m] /\ RowLeft(r, m)')
               /\ tags'[m] # 0 => Since(c, m, tags'[m])
                                      \/ (tags'[m] = tags[m] /\ TagsLeft(r, m)')
    <3>1. /\ row[m] # 0 => Since(c, m, row[m]) \/ Left(r, m, 2)
          /\ tags[m] # 0 => Since(c, m, tags[m]) \/ Left(r, m, 2)
      BY <1>0, <2>1 DEF Replayed, RowLeft, TagsLeft, c
    <3>2. Left(r, m, 2) => RowLeft(r, m)' /\ TagsLeft(r, m)'
      BY <1>0, <2>1, LeftMoves
    <3> QED
      BY <2>1, <3>1, <3>2
  <2> QED
    BY <1>2, <1>4, <2>2
<1> QED
  BY <1>5, <1>6, <1>7 DEF Write

(* A runner's step.                                                        *)
LEMMA RunKeeps ==
  ASSUME CursorInv, Exclusive, NEW r \in Runners, RunOnce(r), LocalInv'
  PROVE  CursorInv'
<1>0. /\ r \in Writers /\ r \notin Backfills /\ LocalInv /\ Latest \in Nat /\ Local(r)
      /\ at[r] \in 0 .. Latest /\ upto[r] \in 0 .. Latest /\ cursor \in NoCursor .. Latest
      /\ RunSound(r) /\ Held(cursor) /\ One /\ Empty
  BY Types, SyncAssumption DEF CursorInv, LocalInv, Writers
<1>1. pc[r] # "idle" \/ MayStart(r)
  BY DEF RunOnce, Begin, Seed, Fetch, Write, WriteRow, WriteTags, InvalidateBodyCache, SaveCursor
<1>2. log' = log /\ Latest' = Latest /\ Others(r)
  <2>1. log' = log /\ Latest' = Latest
    BY DEF RunOnce, Begin, Seed, Fetch, Write, WriteRow, WriteTags, InvalidateBodyCache,
           SaveCursor, serverVars, Latest
  <2>2. Seed(r) => Return(r)
    BY DEF Seed
  <2> QED
    BY <1>0, <2>1, <2>2, BeginIs, ReturnIs, FetchIs, WriteRowIs, WriteTagsIs, InvalidateIs,
       SaveCursorIs DEF RunOnce, Write, LocalInv
<1>3. /\ \A v \in Writers : v # r => pc[v] = "idle" /\ pc'[v] = "idle"
      /\ One'
      /\ \A v \in Runners : v # r => RunSound(v)'
      /\ \A b \in Backfills : Filled(b)'
  BY <1>0, <1>1, <1>2, Alone
<1>4. \A e, m, v : Since(e, m, v) => Since(e, m, v)'
  BY <1>0, <1>2, SinceKept
<1>5. row' = row /\ tags' = tags => \A e : Held(e) => Held(e)'
  <2> SUFFICES ASSUME row' = row, tags' = tags, NEW e, Held(e) PROVE Held(e)'
    OBVIOUS
  <2> QED
    BY <1>4 DEF Held
<1>6. CASE Begin(r)
  <2>1. /\ UNCHANGED <<row, tags, cursor>>
        /\ \/ pc'[r] = "seed" /\ cursor = NoCursor
           \/ pc'[r] = "fetch" /\ cursor # NoCursor /\ at'[r] = cursor
    BY <1>0, <1>6, BeginIs
  <2>2. Held(cursor)'
    BY <1>0, <1>5, <2>1 DEF Held, Since
  <2>3. RunSound(r)'
    BY <2>1 DEF RunSound
  <2>4. Empty'
    <3>1. \A b \in Backfills : pc[b] = "idle"
      BY <1>0, <1>3 DEF Writers
    <3> QED
      BY <1>0, <2>1, <3>1 DEF Empty
  <2> QED
    BY <1>3, <2>2, <2>3, <2>4 DEF CursorInv
<1>7. CASE Seed(r)
  <2>1. UNCHANGED <<row, tags>> /\ cursor' = at[r] /\ Return(r) /\ pc[r] = "seed"
    BY <1>7 DEF Seed, mirrorVars
  <2>2. pc'[r] = "idle"
    BY <1>0, <2>1, ReturnIs DEF LocalInv
  <2>3. \A m \in Messages : row[m] = 0 /\ tags[m] = 0
    <3>1. \A b \in Backfills : pc[b] = "idle"
      BY <1>0, <1>3 DEF Writers
    <3>2. \A m \in Messages : row[m] = 0
      BY <1>0, <2>1, <3>1 DEF Empty, RunSound
    <3> QED
      BY <1>0, <3>2, Types DEF LocalInv
  <2>4. Held(cursor)'
    BY <2>1, <2>3 DEF Held
  <2>5. RunSound(r)' /\ Empty'
    BY <2>1, <2>2, <2>3 DEF RunSound, Empty
  <2> QED
    BY <1>3, <2>4, <2>5 DEF CursorInv
<1>8. ASSUME UNCHANGED <<row, tags>>, NEW n \in 0 .. Latest, n + 1 \in 1 .. Latest,
             Held(n), cursor' = n, at'[r] = n, pc'[r] = "row", todo'[r] = Writes(n + 1)
      PROVE  CursorInv'
  <2>1. Held(cursor)'
    <3>1. Held(n)'
      BY <1>5, <1>8
    <3> QED
      BY <1>8, <3>1 DEF Held
  <2>2. Empty'
    BY <1>8, Numbers DEF Empty
  <2>3. ASSUME NEW m \in Messages, NEW v, Since(n, m, v)
        PROVE  Since(n + 1, m, v) \/ (RowLeft(r, m)' /\ TagsLeft(r, m)')
    <3>1. CASE Since(n + 1, m, v)
      BY <3>1
    <3>2. CASE \E j \in 1 .. Len(Writes(n + 1)) : Writes(n + 1)[j].msg = m
      <4>1. Left(r, m, 1)'
        BY <1>8, <3>2 DEF Left
      <4> QED
        BY <1>8, <4>1 DEF RowLeft, TagsLeft
    <3> QED
      BY <1>0, <1>8, <2>3, <3>1, <3>2, NextEvent
  <2>4. Replayed(r)'
    <3> SUFFICES ASSUME NEW m \in Messages
                 PROVE /\ row'[m] # 0 => Since(at[r] + 1, m, row[m])' \/ RowLeft(r, m)'
                       /\ tags'[m] # 0 => Since(at[r] + 1, m, tags[m])' \/ TagsLeft(r, m)'
      BY DEF Replayed
    <3>1. /\ row'[m] # 0 => Since(n, m, row'[m])
          /\ tags'[m] # 0 => Since(n, m, tags'[m])
      BY <1>8 DEF Held
    <3>2. PICK x, y : x = row'[m] /\ y = tags'[m]
      OBVIOUS
    <3>3. /\ x # 0 => Since(n + 1, m, x)' \/ RowLeft(r, m)'
          /\ y # 0 => Since(n + 1, m, y)' \/ TagsLeft(r, m)'
      BY <1>4, <2>3, <3>1, <3>2
    <3> QED
      BY <1>8, <3>2, <3>3 DEF Since
  <2>5. RunSound(r)'
    BY <1>8, <2>4 DEF RunSound
  <2> QED
    BY <1>3, <2>1, <2>2, <2>5 DEF CursorInv
<1>9. CASE Fetch(r)
  <2>1. /\ UNCHANGED <<row, tags, cursor>> /\ pc[r] = "fetch"
        /\ \/ pc'[r] = "idle"
           \/ /\ pc'[r] = "row" /\ at'[r] = at[r] /\ at[r] + 1 \in 1 .. Latest
              /\ todo'[r] = Writes(at[r] + 1)
    BY <1>0, <1>9, FetchIs DEF Fetch
  <2>2. cursor = at[r]
    BY <1>0, <2>1 DEF RunSound
  <2>3. CASE pc'[r] = "idle"
    <3>1. Held(cursor)'
      BY <1>0, <1>5, <2>1 DEF Held, Since
    <3>2. RunSound(r)' /\ Empty'
      BY <1>0, <2>1, <2>2, <2>3, Numbers DEF RunSound, Empty
    <3> QED
      BY <1>3, <3>1, <3>2 DEF CursorInv
  <2>4. CASE pc'[r] = "row"
    <3>1. PICK n \in 0 .. Latest : n = at[r]
      BY <1>0
    <3> QED
      BY <1>0, <1>8, <2>1, <2>2, <2>4, <3>1
  <2> QED
    BY <2>1, <2>3, <2>4
<1>10. CASE Write(r)
  <2>1. cursor' = cursor /\ at'[r] = at[r]
    BY <1>0, <1>10, WriteRowIs, WriteTagsIs, InvalidateIs DEF Write
  <2>2. RunSound(r)' /\ Held(cursor)' /\ Empty'
    BY <1>2, <1>10, <2>1, RunWrites
  <2> QED
    BY <1>3, <2>2 DEF CursorInv
<1>11. CASE SaveCursor(r)
  <2>1. /\ UNCHANGED <<row, tags>> /\ pc[r] = "save" /\ cursor' = at[r] + 1
        /\ cursor' \in NoCursor .. Latest
        /\ \/ pc'[r] = "idle"
           \/ pc'[r] = "fetch" /\ at'[r] = at[r] + 1
           \/ /\ pc'[r] = "row" /\ at'[r] = at[r] + 1 /\ at[r] + 2 \in 1 .. Latest
              /\ todo'[r] = Writes(at[r] + 2)
    BY <1>0, <1>11, SaveCursorIs
  <2>2. PICK n \in 0 .. Latest : n = at[r] + 1
    BY <1>0, <2>1
  <2>3. Held(n)
    BY <1>0, <2>1, <2>2 DEF RunSound, Replayed, RowLeft, TagsLeft, Held
  <2>4. CASE pc'[r] = "row"
    <3>1. n + 1 = at[r] + 2
      BY <1>0, <2>2
    <3> QED
      BY <1>8, <2>1, <2>2, <2>3, <2>4, <3>1
  <2>5. CASE pc'[r] # "row"
    <3>1. Held(cursor)'
      <4>1. Held(n)'
        BY <1>5, <2>1, <2>3
      <4> QED
        BY <2>1, <2>2, <4>1 DEF Held
    <3>2. RunSound(r)' /\ Empty'
      BY <2>1, <2>2, <2>5, Numbers DEF RunSound, Empty
    <3> QED
      BY <1>3, <3>1, <3>2 DEF CursorInv
  <2> QED
    BY <2>4, <2>5
<1> QED
  BY <1>6, <1>7, <1>9, <1>10, <1>11 DEF RunOnce

(* A backfill's step.                                                      *)
LEMMA BackfillKeeps ==
  ASSUME CursorInv, Exclusive, CleanBackfill, NEW b \in Backfills,
         Capture(b) \/ Backfill(b), LocalInv'
  PROVE  CursorInv'
<1>0. /\ b \in Writers /\ b \notin Runners /\ LocalInv /\ Latest \in Nat /\ Local(b)
      /\ at[b] \in 0 .. Latest /\ cursor \in NoCursor .. Latest
      /\ Filled(b) /\ Held(cursor) /\ Empty /\ todo[b] \in Seq(WriteOf)
  BY Types, SyncAssumption DEF CursorInv, LocalInv, Writers
<1>1. pc[b] # "idle" \/ MayStart(b)
  BY DEF Capture, Backfill, Walk, Write, WriteRow, WriteTags, InvalidateBodyCache, SaveCaptured
<1>2. log' = log /\ Latest' = Latest /\ Others(b)
  <2>1. log' = log /\ Latest' = Latest
    BY DEF Capture, Backfill, Walk, Write, WriteRow, WriteTags, InvalidateBodyCache,
           SaveCaptured, serverVars, Latest
  <2>2. SaveCaptured(b) => Return(b)
    BY DEF SaveCaptured
  <2> QED
    BY <1>0, <2>1, <2>2, CaptureIs, ReturnIs, WalkIs, WriteRowIs, WriteTagsIs, InvalidateIs
    DEF Backfill, Write, LocalInv
<1>3. /\ \A v \in Writers : v # b => pc[v] = "idle" /\ pc'[v] = "idle"
      /\ One'
      /\ \A r \in Runners : RunSound(r)'
      /\ \A v \in Backfills : v # b => Filled(v)'
  BY <1>0, <1>1, <1>2, Alone
<1>4. \A e, m, v : Since(e, m, v) => Since(e, m, v)'
  BY <1>0, <1>2, SinceKept
<1>5. row' = row /\ tags' = tags => \A e : Held(e) => Held(e)'
  <2> SUFFICES ASSUME row' = row, tags' = tags, NEW e, Held(e) PROVE Held(e)'
    OBVIOUS
  <2> QED
    BY <1>4 DEF Held
<1>6. CASE Capture(b)
  <2>1. /\ UNCHANGED <<row, tags, cursor>> /\ pc'[b] = "walk" /\ at'[b] = Latest
        /\ \A m \in Messages : row[m] = 0 /\ tags[m] = 0
    BY <1>0, <1>6, CaptureIs, Types DEF LocalInv
  <2>2. Held(cursor)' /\ Held(at[b])' /\ Empty'
    BY <2>1 DEF Held, Empty
  <2>3. Filled(b)'
    BY <1>0, <2>1, <2>2, Numbers DEF Filled, Writing
  <2> QED
    BY <1>3, <2>2, <2>3 DEF CursorInv
<1>7. pc[b] # "idle" => cursor <= at[b] /\ Held(at[b]) /\ cursor \in Int /\ at[b] \in Int
  BY <1>0, Numbers DEF Filled
<1>8. CASE Walk(b)
  <2>1. /\ UNCHANGED <<row, tags, cursor>> /\ at'[b] = at[b] /\ pc[b] = "walk"
        /\ \/ pc'[b] = "save"
           \/ /\ pc'[b] = "row"
              /\ \E m \in Messages :
                   todo'[b] = <<[msg |-> m, action |-> "flags", ver |-> At(Latest, m)]>>
    BY <1>0, <1>8, WalkIs
  <2>2. Held(cursor)' /\ Held(at[b])' /\ Empty'
    <3>1. PICK e, c : e = at[b] /\ c = cursor
      OBVIOUS
    <3>2. Held(e)' /\ Held(c)'
      BY <1>0, <1>5, <1>7, <2>1, <3>1
    <3>3. pc'[b] # "idle"
      BY <2>1
    <3> QED
      BY <2>1, <3>1, <3>2, <3>3 DEF Held, Since, Empty
  <2>3. Writing(b)' => \A j \in 1 .. Len(todo'[b]) :
                          Since(at[b], todo[b][j].msg, todo[b][j].ver)'
    <3> SUFFICES ASSUME Writing(b)', NEW j \in 1 .. Len(todo'[b])
                 PROVE  Since(at[b], todo[b][j].msg, todo[b][j].ver)'
      OBVIOUS
    <3>1. PICK m \in Messages :
            todo'[b] = <<[msg |-> m, action |-> "flags", ver |-> At(Latest, m)]>>
      BY <2>1 DEF Writing
    <3>2. j = 1 /\ todo'[b][j].msg = m /\ todo'[b][j].ver = At(Latest, m)
      BY <3>1
    <3>3. PICK e, v : e = at[b] /\ v = At(Latest, m)
      OBVIOUS
    <3>4. Since(e, m, v)
      BY <1>0, <3>3 DEF Since
    <3>5. Since(e, m, v)'
      BY <1>4, <3>4
    <3> QED
      BY <2>1, <3>2, <3>3, <3>5 DEF Since
  <2>4. Filled(b)'
    BY <1>7, <2>1, <2>2, <2>3 DEF Filled
  <2> QED
    BY <1>3, <2>2, <2>4 DEF CursorInv
<1>9. CASE Write(b)
  <2> DEFINE d == todo[b][1]
  <2>1. /\ Writing(b) /\ pc[b] \in {"row", "tags"} /\ todo[b] # <<>>
        /\ d \in WriteOf /\ d.action = "flags" /\ 1 \in 1 .. Len(todo[b])
    <3>1. Writing(b)
      BY <1>9 DEF Write, WriteRow, WriteTags, InvalidateBodyCache, Writing
    <3>2. todo[b] # <<>> /\ pc[b] \in {"row", "tags"}
      BY <1>0, <3>1 DEF Local, Writing
    <3>3. 1 \in 1 .. Len(todo[b]) /\ d \in WriteOf
      BY <1>0, <3>2, TailIs
    <3> QED
      BY <1>0, <3>1, <3>2, <3>3 DEF Local
  <2>2. /\ cursor' = cursor /\ at'[b] = at[b] /\ pc'[b] # "idle"
        /\ \A m \in Messages : m # d.msg => row'[m] = row[m] /\ tags'[m] = tags[m]
        /\ row'[d.msg] = d.ver \/ row'[d.msg] = row[d.msg]
        /\ tags'[d.msg] = d.ver \/ tags'[d.msg] = tags[d.msg]
        /\ todo'[b] = todo[b] \/ todo'[b] = Tail(todo[b])
    <3>1. CASE WriteRow(b)
      BY <1>0, <2>1, <3>1, WriteRowIs
    <3>2. CASE WriteTags(b)
      BY <1>0, <2>1, <3>2, WriteTagsIs
    <3>3. ~InvalidateBodyCache(b)
      BY <2>1 DEF InvalidateBodyCache
    <3> QED
      BY <1>9, <3>1, <3>2, <3>3 DEF Write
  <2>3. Since(at[b], d.msg, d.ver)
    BY <1>0, <2>1 DEF Filled, Writing
  <2> HIDE DEF d
  <2>4. PICK e, c : e = at[b] /\ c = cursor
    OBVIOUS
  <2>5. \A m \in Messages : /\ row'[m] # 0 => Since(e, m, row'[m])
                            /\ tags'[m] # 0 => Since(e, m, tags'[m])
    <3> TAKE m \in Messages
    <3>1. /\ row[m] # 0 => Since(e, m, row[m])
          /\ tags[m] # 0 => Since(e, m, tags[m])
      BY <1>7, <2>1, <2>4 DEF Held, Writing
    <3> QED
      BY <2>2, <2>3, <2>4, <3>1
  <2>6. \A m \in Messages : /\ row'[m] # 0 => Since(c, m, row'[m])
                            /\ tags'[m] # 0 => Since(c, m, tags'[m])
    <3>1. \A m, v : Since(e, m, v) => Since(c, m, v)
      BY <1>0, <1>7, <2>1, <2>4, SinceWeakens
    <3> QED
      BY <2>5, <3>1
  <2>7. Held(at[b])' /\ Held(cursor)'
    <3>1. Held(e)' /\ Held(c)'
      BY <1>4, <2>5, <2>6 DEF Held
    <3> QED
      BY <2>2, <2>4, <3>1 DEF Held, Since
  <2>8. \A j \in 1 .. Len(todo'[b]) : Since(at[b], todo[b][j].msg, todo[b][j].ver)'
    <3> SUFFICES ASSUME NEW j \in 1 .. Len(todo'[b])
                 PROVE  Since(at[b], todo[b][j].msg, todo[b][j].ver)'
      OBVIOUS
    <3>1. PICK k \in 1 .. Len(todo[b]) : todo'[b][j] = todo[b][k]
      <4>1. CASE todo'[b] = todo[b]
        BY <4>1
      <4>2. CASE todo'[b] = Tail(todo[b])
        <5>1. Tail(todo[b])[j] = todo[b][j + 1] /\ j + 1 \in 1 .. Len(todo[b])
          BY <1>0, <2>1, <4>2, TailIs
        <5> QED
          BY <4>2, <5>1
      <4> QED
        BY <2>2, <4>1, <4>2
    <3>2. PICK m, v : m = todo[b][k].msg /\ v = todo[b][k].ver
      OBVIOUS
    <3>3. Since(e, m, v)
      BY <1>0, <2>1, <2>4, <3>2 DEF Filled, Writing
    <3>4. Since(e, m, v)'
      BY <1>4, <3>3
    <3> QED
      BY <2>2, <2>4, <3>1, <3>2, <3>4 DEF Since
  <2>9. Filled(b)' /\ Empty'
    <3>1. cursor' <= at'[b]
      BY <1>7, <2>1, <2>2
    <3> QED
      BY <2>2, <2>7, <2>8, <3>1 DEF Filled, Empty
  <2> QED
    BY <1>3, <2>7, <2>9 DEF CursorInv
<1>10. CASE SaveCaptured(b)
  <2>1. UNCHANGED <<row, tags>> /\ cursor' = at[b] /\ pc[b] = "save" /\ pc'[b] = "idle"
    BY <1>0, <1>10, ReturnIs DEF SaveCaptured, CapturedCursor, mirrorVars, LocalInv
  <2>2. PICK e : e = at[b]
    OBVIOUS
  <2>3. Held(e)'
    BY <1>5, <1>7, <2>1, <2>2
  <2>4. Held(cursor)'
    BY <2>1, <2>2, <2>3 DEF Held
  <2>5. Filled(b)' /\ Empty'
    BY <1>0, <2>1, Numbers DEF Filled, Empty
  <2> QED
    BY <1>3, <2>4, <2>5 DEF CursorInv
<1> QED
  BY <1>6, <1>8, <1>9, <1>10 DEF Backfill

(* A step that leaves the writers and what they wrote alone.               *)
LEMMA ElseKeeps ==
  ASSUME CursorInv, LocalInv', \A i \in 1 .. Latest : log'[i] = log[i],
         Latest' \in Nat, Latest' >= Latest,
         UNCHANGED <<row, tags, cursor, pc, at, upto, todo>>
  PROVE  CursorInv'
<1>1. \A e, m, v : Since(e, m, v) => Since(e, m, v)'
  BY SinceKept DEF CursorInv
<1>2. ASSUME NEW e, Held(e) PROVE Held(e)'
  BY <1>1, <1>2 DEF Held
<1>3. Held(cursor)'
  <2>1. PICK e : e = cursor
    OBVIOUS
  <2>2. Held(e)'
    BY <1>2, <2>1 DEF CursorInv
  <2> QED
    BY <2>1, <2>2 DEF Held
<1>4. One' /\ Empty'
  BY DEF CursorInv, One, Empty
<1>5. ASSUME NEW r \in Runners PROVE RunSound(r)'
  <2>1. RunSound(r)
    BY DEF CursorInv
  <2>2. \A m, k : Left(r, m, k)' <=> Left(r, m, k)
    BY DEF Left
  <2>3. \A m : (RowLeft(r, m)' <=> RowLeft(r, m)) /\ (TagsLeft(r, m)' <=> TagsLeft(r, m))
    BY <2>2 DEF RowLeft, TagsLeft
  <2>4. Replayed(r) => Replayed(r)'
    <3> SUFFICES ASSUME Replayed(r), NEW m \in Messages
                 PROVE /\ row'[m] # 0 => Since(at[r] + 1, m, row[m])' \/ RowLeft(r, m)'
                       /\ tags'[m] # 0 => Since(at[r] + 1, m, tags[m])' \/ TagsLeft(r, m)'
      BY DEF Replayed
    <3>1. PICK c, x, y : c = at[r] + 1 /\ x = row[m] /\ y = tags[m]
      OBVIOUS
    <3>2. /\ x # 0 => Since(c, m, x)' \/ RowLeft(r, m)'
          /\ y # 0 => Since(c, m, y)' \/ TagsLeft(r, m)'
      BY <1>1, <2>3, <3>1 DEF Replayed
    <3> QED
      BY <3>1, <3>2 DEF Since
  <2> QED
    BY <2>1, <2>4 DEF RunSound
<1>6. ASSUME NEW b \in Backfills PROVE Filled(b)'
  <2>1. Filled(b)
    BY DEF CursorInv
  <2>2. PICK e : e = at[b]
    OBVIOUS
  <2>3. Held(e) => Held(at[b])'
    <3>1. Held(e) => Held(e)'
      BY <1>2
    <3> QED
      BY <2>2, <3>1 DEF Held, Since
  <2>4. ASSUME NEW j, Since(at[b], todo[b][j].msg, todo[b][j].ver)
        PROVE  Since(at[b], todo[b][j].msg, todo[b][j].ver)'
    <3>1. PICK m, v : m = todo[b][j].msg /\ v = todo[b][j].ver
      OBVIOUS
    <3>2. Since(e, m, v)'
      BY <1>1, <2>2, <2>4, <3>1
    <3> QED
      BY <2>2, <3>1, <3>2 DEF Since
  <2> QED
    BY <2>1, <2>2, <2>3, <2>4 DEF Filled, Writing
<1> QED
  BY <1>3, <1>4, <1>5, <1>6 DEF CursorInv

LEMMA CursorKeeps ==
  ASSUME CursorInv, Exclusive, CleanBackfill, [Next]_vars PROVE CursorInv'
<1>0. LocalInv /\ LocalInv' /\ Latest \in Nat
  BY LocalKeeps, Types DEF CursorInv, LocalInv
<1>1. CASE Emit
  BY <1>0, <1>1, EmitIs, ElseKeeps DEF LocalInv
<1>2. CASE Expire \/ UNCHANGED vars
  BY <1>0, <1>2, ElseKeeps DEF Expire, vars, serverVars, mirrorVars, writerVars, Latest
(* Only a run can be cut off.                                              *)
<1>3. ASSUME NEW w \in Writers, Abort(w) PROVE CursorInv'
  <2>1. /\ UNCHANGED <<log, row, tags, cursor>> /\ Return(w) /\ w \in Runners /\ pc[w] # "idle"
        /\ w \notin Backfills
    BY <1>3 DEF Abort, serverVars, mirrorVars, Writers
  <2>2. Others(w) /\ pc'[w] = "idle" /\ Latest' = Latest
    BY <1>0, <2>1, ReturnIs DEF LocalInv, Latest
  <2>3. /\ One' /\ \A r \in Runners : r # w => RunSound(r)'
        /\ \A b \in Backfills : Filled(b)'
        /\ \A v \in Writers : v # w => pc[v] = "idle"
    BY <2>1, <2>2, Alone
  <2>4. RunSound(w)'
    BY <2>2 DEF RunSound
  <2>5. Empty'
    <3>1. \A b \in Backfills : pc[b] = "idle"
      BY <2>1, <2>3 DEF Writers
    <3> QED
      BY <2>1, <3>1 DEF CursorInv, Empty
  <2>6. Held(cursor)'
    <3>1. \A e, m, v : Since(e, m, v) => Since(e, m, v)'
      BY <1>0, <2>1, <2>2, SinceKept
    <3>2. \A m \in Messages : /\ row'[m] # 0 => Since(cursor, m, row'[m])
                              /\ tags'[m] # 0 => Since(cursor, m, tags'[m])
      BY <2>1 DEF CursorInv, Held
    <3>3. PICK c : c = cursor
      OBVIOUS
    <3>4. Held(c)'
      BY <3>1, <3>2, <3>3 DEF Held
    <3> QED
      BY <2>1, <3>3, <3>4 DEF Held
  <2> QED
    BY <1>0, <2>3, <2>4, <2>5, <2>6 DEF CursorInv
<1>4. ASSUME NEW r \in Runners, RunOnce(r) PROVE CursorInv'
  BY <1>0, <1>4, RunKeeps
<1>5. ASSUME NEW b \in Backfills, Capture(b) \/ Backfill(b) PROVE CursorInv'
  BY <1>0, <1>5, BackfillKeeps
<1>6. ASSUME NEW q \in Readers, NEW m \in Messages, Read(q, m) PROVE CursorInv'
  <2>1. UNCHANGED <<log, row, tags, cursor, pc, at, upto, todo>>
    BY <1>0, <1>6, ReadIs
  <2> QED
    BY <1>0, <2>1, ElseKeeps DEF Latest
<1> QED
  BY <1>1, <1>2, <1>3, <1>4, <1>5, <1>6 DEF Next

LEMMA CursorInit == Init => CursorInv
<1> SUFFICES ASSUME Init PROVE CursorInv
  OBVIOUS
<1>1. /\ \A m \in Messages : row[m] = 0 /\ tags[m] = 0
      /\ \A w \in Writers : pc[w] = "idle"
  BY Numbers DEF Init
<1> QED
  BY <1>1, LocalInit DEF CursorInv, One, Empty, Held, RunSound, Filled, Writers

(* Wherever a run of sync.RunOnce is cut off, replaying the events after   *)
(* the stored cursor brings the mirror up to date: no event is skipped and *)
(* no row of a deleted message stays.  For any messages and any log, one   *)
(* writer at a time, and backfills of an empty mirror that end.            *)
THEOREM NothingIsSkipped ==
  ASSUME Exclusive, CleanBackfill
  PROVE  Spec => []NeverBehindCursor
<1>1. Init => CursorInv
  BY CursorInit
<1>2. CursorInv /\ [Next]_vars => CursorInv'
  BY CursorKeeps
<1>3. CursorInv => NeverBehindCursor
  BY HeldIs DEF CursorInv
<1> QED
  BY <1>1, <1>2, <1>3, PTL DEF Spec
----------------------------------------------------------------------------
(* The server's log: a message is created once, before all else that       *)
(* happens to it.                                                          *)

LogOK ==
    \A i \in 1 .. Latest : \A m \in Messages :
        /\ Does(i, m, {"create"}) => \A k \in 1 .. (i - 1) : ~Does(k, m, Actions)
        /\ Does(i, m, Actions) => \E k \in 1 .. i : Does(k, m, {"create"})

(* Facts about the log in a state hold of the next state's log too.        *)
LEMMA LastDoneAfter ==
  \A n \in Nat : \A m, acts :
     /\ LastDone(n, m, acts)' \in 0 .. n
     /\ LastDone(n, m, acts)' # 0 => Does(LastDone(n, m, acts), m, acts)'
     /\ \A k \in 1 .. n : Does(k, m, acts)' => k <= LastDone(n, m, acts)'
<1>1. \A n \in Nat : \A m, acts :
        /\ LastDone(n, m, acts) \in 0 .. n
        /\ LastDone(n, m, acts) # 0 => Does(LastDone(n, m, acts), m, acts)
        /\ \A k \in 1 .. n : Does(k, m, acts) => k <= LastDone(n, m, acts)
  BY LastDoneIs
<1>2. (\A n \in Nat : \A m, acts :
        /\ LastDone(n, m, acts) \in 0 .. n
        /\ LastDone(n, m, acts) # 0 => Does(LastDone(n, m, acts), m, acts)
        /\ \A k \in 1 .. n : Does(k, m, acts) => k <= LastDone(n, m, acts))'
  BY <1>1, PTL
<1> QED
  BY <1>2

LEMMA SameAfter ==
  \A n \in Nat : \A m : ~Does(n + 1, m, Actions)' => At(n + 1, m)' = At(n, m)'
<1>1. \A n \in Nat : \A m : ~Does(n + 1, m, Actions) => At(n + 1, m) = At(n, m)
  BY AtSame
<1>2. (\A n \in Nat : \A m : ~Does(n + 1, m, Actions) => At(n + 1, m) = At(n, m))'
  BY <1>1, PTL
<1> QED
  BY <1>2

LEMMA DoesMore ==
  ASSUME NEW i, NEW m, NEW acts, NEW more, acts \subseteq more, Does(i, m, acts)
  PROVE  Does(i, m, more)
  BY DEF Does

(* The event that Emit adds.                                               *)
LEMMA EmitAdds ==
  ASSUME LocalInv, Emit
  PROVE  \E e \in Events :
           /\ log'[Latest + 1] = e
           /\ DOMAIN e \in {{1}, {1, 2}}
           /\ \A j \in DOMAIN e : e[j] \in Diffs /\ Legal(e[j])
<1>1. PICK e \in Events : log' = Append(log, e)
  BY DEF Emit
<1>2. log \in Seq(Seq(Diffs)) /\ e \in Seq(Diffs)
  BY Types, EventIs DEF LocalInv
<1>3. log'[Latest + 1] = e
  BY <1>1, <1>2, AppendProperties DEF Latest
<1>4. CASE e \in {<<d>> : d \in {d \in Diffs : Legal(d)}}
  <2>1. PICK d \in Diffs : e = <<d>> /\ Legal(d)
    BY <1>4
  <2>2. DOMAIN e = {1} /\ e[1] = d
    BY <2>1
  <2> QED
    BY <1>3, <2>1, <2>2
<1>5. CASE e \in {<<d, f>> : d, f \in {g \in Diffs : Legal(g) /\ g.action \in Paired}}
  <2>1. PICK d \in Diffs, f \in Diffs : e = <<d, f>> /\ Legal(d) /\ Legal(f)
    BY <1>5
  <2>2. DOMAIN e = {1, 2} /\ e[1] = d /\ e[2] = f
    BY <2>1
  <2> QED
    BY <1>3, <2>1, <2>2
<1> QED
  BY <1>4, <1>5 DEF Events

LEMMA ListedIs ==
  ASSUME LocalInv, LogOK, NEW m \in Listed
  PROVE  m \in Messages /\ \E k \in 1 .. Latest : Does(k, m, {"create"})
<1>1. m \in Messages /\ LastDone(Latest, m, Actions) # 0
  BY DEF Listed, At, None
<1>2. Latest \in Nat
  BY Types DEF LocalInv
<1>3. PICK i : i = LastDone(Latest, m, Actions)
  OBVIOUS
<1>4. i \in 1 .. Latest /\ Does(i, m, Actions)
  BY <1>1, <1>2, <1>3, LastDoneIs
<1>5. PICK k \in 1 .. i : Does(k, m, {"create"})
  BY <1>1, <1>4 DEF LogOK
<1>6. k \in 1 .. Latest
  BY <1>2, <1>4
<1> QED
  BY <1>1, <1>5, <1>6

LEMMA EmitKeepsLog ==
  ASSUME LocalInv, LogOK, Emit PROVE LogOK'
<1>0. Latest \in Nat /\ Latest' = Latest + 1 /\ \A i \in 1 .. Latest : log'[i] = log[i]
  BY Types, EmitIs DEF LocalInv
<1>1. \A i \in 1 .. Latest : \A m, acts : Does(i, m, acts)' <=> Does(i, m, acts)
  BY <1>0 DEF Does
<1>2. PICK e \in Events : /\ log'[Latest + 1] = e
                          /\ \A j \in DOMAIN e : e[j] \in Diffs /\ Legal(e[j])
  BY EmitAdds
<1> SUFFICES ASSUME NEW i \in 1 .. (Latest + 1), NEW m \in Messages
             PROVE  /\ Does(i, m, {"create"})' => \A k \in 1 .. (i - 1) : ~Does(k, m, Actions)'
                    /\ Does(i, m, Actions)' => \E k \in 1 .. i : Does(k, m, {"create"})'
  BY <1>0 DEF LogOK
<1>3. CASE i \in 1 .. Latest
  <2>1. \A k \in 1 .. i : k \in 1 .. Latest
    BY <1>0, <1>3
  <2>2. \A k \in 1 .. (i - 1) : k \in 1 .. Latest
    BY <1>0, <1>3
  <2> QED
    BY <1>1, <1>3, <2>1, <2>2 DEF LogOK
<1>4. CASE i = Latest + 1
  <2>1. Does(i, m, {"create"})' => \A k \in 1 .. (i - 1) : ~Does(k, m, Actions)'
    <3> SUFFICES ASSUME Does(i, m, {"create"})', NEW k \in 1 .. Latest, Does(k, m, Actions)'
                 PROVE  FALSE
      BY <1>0, <1>4
    <3>1. PICK j \in DOMAIN e : e[j].msg = m /\ e[j].action = "create"
      BY <1>2, <1>4 DEF Does
    <3>2. Born(m) = 0
      BY <1>2, <3>1 DEF Legal, None
    <3>3. PICK n \in 1 .. k : Does(n, m, {"create"})
      BY <1>1 DEF LogOK
    <3>4. n \in 1 .. Latest
      BY <1>0
    <3>5. n <= Born(m)
      BY <1>0, <3>3, <3>4, LastDoneIs DEF Born
    <3> QED
      BY <3>2, <3>4, <3>5
  <2>2. Does(i, m, Actions)' => \E k \in 1 .. i : Does(k, m, {"create"})'
    <3> SUFFICES ASSUME Does(i, m, Actions)' PROVE \E k \in 1 .. i : Does(k, m, {"create"})'
      OBVIOUS
    <3>1. PICK j \in DOMAIN e : e[j].msg = m
      BY <1>2, <1>4 DEF Does
    <3>2. CASE e[j].action = "create"
      <4>1. Does(i, m, {"create"})' /\ i \in 1 .. i
        BY <1>2, <1>4, <1>0, <3>1, <3>2 DEF Does
      <4> QED
        BY <4>1
    <3>3. CASE e[j].action # "create"
      <4>1. m \in Listed
        BY <1>2, <3>1, <3>3 DEF Legal
      <4>2. PICK k \in 1 .. Latest : Does(k, m, {"create"})
        BY <4>1, ListedIs
      <4>3. k \in 1 .. i /\ Does(k, m, {"create"})'
        BY <1>0, <1>1, <1>4, <4>2
      <4> QED
        BY <4>3
    <3> QED
      BY <3>2, <3>3
  <2> QED
    BY <2>1, <2>2
<1> QED
  BY <1>0, <1>3, <1>4

(* An event adds few messages to the listing.                              *)
LEMMA EmitKeepsFinite ==
  ASSUME LocalInv, IsFiniteSet(Listed), Emit PROVE IsFiniteSet(Listed')
<1>0. Latest \in Nat /\ Latest' = Latest + 1 /\ \A i \in 1 .. Latest : log'[i] = log[i]
  BY Types, EmitIs DEF LocalInv
<1>1. PICK e \in Events : log'[Latest + 1] = e /\ DOMAIN e \in {{1}, {1, 2}}
  BY EmitAdds
<1>2. \E x, y : \A j \in DOMAIN e : e[j].msg \in {x, y}
  <2>1. \A j \in DOMAIN e : j = 1 \/ j = 2
    BY <1>1
  <2>2. \A j \in DOMAIN e : e[j].msg \in {e[1].msg, e[2].msg}
    BY <2>1
  <2> QED
    BY <2>2
<1>3. PICK x, y : \A j \in DOMAIN e : e[j].msg \in {x, y}
  BY <1>2
<1>4. Listed' \subseteq (Listed \union {x}) \union {y}
  <2> SUFFICES ASSUME NEW m \in Listed', m \notin {x, y} PROVE m \in Listed
    OBVIOUS
  <2>1. PICK n \in Nat : n = Latest
    BY <1>0
  <2>2. ~Does(n + 1, m, Actions)'
    BY <1>0, <1>1, <1>3, <2>1 DEF Does
  <2>3. At(n + 1, m)' # 0 /\ m \in Messages
    BY <1>0, <2>1 DEF Listed, None
  <2>4. At(n + 1, m)' = At(n, m)'
    BY <2>2, SameAfter
  <2>5. At(n, m)' = At(n, m)
    BY <1>0, <2>1, PastIsKept
  <2> QED
    BY <2>1, <2>3, <2>4, <2>5 DEF Listed, None
<1>5. IsFiniteSet((Listed \union {x}) \union {y})
  <2>1. IsFiniteSet(Listed \union {x})
    BY FS_AddElement
  <2> QED
    BY <2>1, FS_AddElement
<1> QED
  BY <1>4, <1>5, FS_Subset

(* Where a message was created.                                            *)
BornOnce ==
    /\ \A m \in Messages : \A i \in 1 .. Latest : Does(i, m, {"create"}) => Born(m) = i
    /\ \A m \in Listed : Born(m) \in 1 .. Latest /\ Does(Born(m), m, {"create"})

LEMMA BornIs == LocalInv /\ LogOK => BornOnce
<1> SUFFICES ASSUME LocalInv, LogOK PROVE BornOnce
  OBVIOUS
<1>0. Latest \in Nat
  BY Types DEF LocalInv
<1>1. ASSUME NEW m \in Messages, NEW i \in 1 .. Latest, Does(i, m, {"create"})
      PROVE  Born(m) = i
  <2>1. Does(i, m, Actions)
    BY <1>1, DoesMore DEF Actions
  <2>2. ASSUME NEW k \in 1 .. Latest, Does(k, m, {"create"}) PROVE k <= i
    <3>1. i \notin 1 .. (k - 1)
      BY <2>1, <2>2 DEF LogOK
    <3> QED
      BY <3>1, <1>0
  <2>3. i \in 0 .. Latest /\ i # 0
    BY <1>0
  <2> QED
    BY <1>0, <1>1, <2>2, <2>3, LastDoneIsUnique DEF Born
<1>2. ASSUME NEW m \in Listed PROVE Born(m) \in 1 .. Latest /\ Does(Born(m), m, {"create"})
  <2>1. PICK k \in 1 .. Latest : Does(k, m, {"create"})
    BY ListedIs
  <2>2. m \in Messages
    BY DEF Listed
  <2> QED
    BY <1>1, <2>1, <2>2
<1> QED
  BY <1>1, <1>2 DEF BornOnce

(* The listing is ordered: by the event that created a message, and by its *)
(* place in that event.                                                    *)
Place(m) == CHOOSE j \in DOMAIN log[Born(m)] : log[Born(m)][j].msg = m

LEMMA PlaceIs ==
  ASSUME LocalInv, BornOnce, NEW m \in Listed
  PROVE  /\ Born(m) \in 1 .. Latest /\ Place(m) \in Nat
         /\ Place(m) \in DOMAIN log[Born(m)] /\ log[Born(m)][Place(m)].msg = m
         /\ \A j \in DOMAIN log[Born(m)] : log[Born(m)][j].msg = m => j = Place(m)
<1>1. Born(m) \in 1 .. Latest /\ Does(Born(m), m, {"create"})
  BY DEF BornOnce
<1>2. log[Born(m)] \in Seq(Diffs)
  BY <1>1, Types DEF LocalInv, Latest
<1>3. \E j \in DOMAIN log[Born(m)] : log[Born(m)][j].msg = m
  BY <1>1 DEF Does
<1>4. Place(m) \in DOMAIN log[Born(m)] /\ log[Born(m)][Place(m)].msg = m
  BY <1>3 DEF Place
<1>5. \A j \in DOMAIN log[Born(m)] : log[Born(m)][j].msg = m => j = Place(m)
  BY <1>1, <1>4 DEF LocalInv, EventsOK
<1>6. Place(m) \in Nat
  BY <1>2, <1>4
<1> QED
  BY <1>1, <1>4, <1>5, <1>6

LEMMA NewerIs ==
  ASSUME LocalInv, BornOnce, NEW n \in Listed, NEW m \in Listed
  PROVE  Newer(n, m) <=> \/ Born(n) > Born(m)
                         \/ Born(n) = Born(m) /\ Place(m) < Place(n)
<1>1. Born(n) = Born(m) =>
        ((\E j, k \in DOMAIN log[Born(m)] :
            j < k /\ log[Born(m)][j].msg = m /\ log[Born(m)][k].msg = n)
         <=> Place(m) < Place(n))
  BY PlaceIs
<1> QED
  BY <1>1 DEF Newer

LEMMA NewerOrders ==
  ASSUME LocalInv, BornOnce
  PROVE  /\ \A a \in Listed : ~Newer(a, a)
         /\ \A a, b \in Listed : a # b => Newer(a, b) \/ Newer(b, a)
         /\ \A a, b, c \in Listed : Newer(a, b) /\ Newer(b, c) => Newer(a, c)
<1>1. \A a \in Listed : Born(a) \in Int /\ Place(a) \in Int
  BY PlaceIs, Types DEF LocalInv
<1>2. \A a, b \in Listed : Newer(a, b) <=> \/ Born(a) > Born(b)
                                           \/ Born(a) = Born(b) /\ Place(b) < Place(a)
  BY NewerIs
<1>3. \A a, b \in Listed : Born(a) = Born(b) /\ Place(a) = Place(b) => a = b
  BY PlaceIs
<1> QED
  BY <1>1, <1>2, <1>3

LEMMA RankOrders ==
  ASSUME LocalInv, BornOnce, IsFiniteSet(Listed)
  PROVE  /\ \A m \in Listed : Rank(m) \in Nat
         /\ \A m, n \in Listed : Newer(n, m) => Rank(n) < Rank(m)
         /\ \A m, n \in Listed : Rank(n) = Rank(m) => n = m
<1> DEFINE Above(m) == {n \in Listed : Newer(n, m)}
<1>1. \A m : IsFiniteSet(Above(m)) /\ Cardinality(Above(m)) \in Nat
  BY FS_Subset, FS_CardinalityType
<1>2. ASSUME NEW m \in Listed, NEW n \in Listed, Newer(n, m) PROVE Rank(n) < Rank(m)
  <2>1. Above(n) \in SUBSET Above(m) /\ n \in Above(m) /\ n \notin Above(n)
    BY <1>2, NewerOrders
  <2> HIDE DEF Above
  <2>2. Cardinality(Above(n)) <= Cardinality(Above(m))
        /\ Cardinality(Above(n)) # Cardinality(Above(m))
    BY <1>1, <2>1, FS_Subset
  <2>3. Rank(n) = Cardinality(Above(n)) /\ Rank(m) = Cardinality(Above(m))
    BY DEF Rank, Above
  <2> QED
    BY <1>1, <2>2, <2>3
<1>3. \A m \in Listed : Rank(m) \in Nat
  BY <1>1 DEF Rank
<1>4. ASSUME NEW m \in Listed, NEW n \in Listed, Rank(n) = Rank(m) PROVE n = m
  BY <1>2, <1>3, <1>4, NewerOrders
<1> QED
  BY <1>2, <1>3, <1>4

(* A listing has no gaps: past the last page there is none.                *)
LEMMA PagesHaveNoGap ==
  ASSUME LocalInv, BornOnce, IsFiniteSet(Listed), NEW p \in Nat, Page(p) = {}
  PROVE  \A m \in Listed : Rank(m) < p
<1> SUFFICES ASSUME NEW o \in Listed, ~(Rank(o) < p) PROVE FALSE
  OBVIOUS
<1> DEFINE T == {i \in Nat : i >= p /\ \E m \in Listed : Rank(m) = i}
<1>0. /\ \A m \in Listed : Rank(m) \in Nat
      /\ \A m, n \in Listed : Newer(n, m) => Rank(n) < Rank(m)
      /\ \A m, n \in Listed : Rank(n) = Rank(m) => n = m
  BY RankOrders
<1>1. Rank(o) \in T /\ T \subseteq Nat
  BY <1>0
<1> HIDE DEF T
<1>2. PICK r \in T : \A y \in T : ~(<<y, r>> \in OpToRel(<, Nat))
  BY <1>1, NatLessThanWellFounded, WFMin, Zenon
<1>3. \A y \in T : ~(y < r)
  BY <1>1, <1>2 DEF OpToRel
<1>4. PICK m \in Listed : Rank(m) = r /\ r \in Nat /\ r >= p
  BY DEF T
<1>5. r # p
  BY <1>4 DEF Page
<1> DEFINE A == {n \in Listed : Newer(n, m)}
           f == [n \in A |-> Rank(n)]
<1>6. IsFiniteSet(A) /\ Cardinality(A) = r
  BY <1>4, FS_Subset DEF Rank
<1>7. \A n \in A : Rank(n) \in 0 .. (p - 1)
  <2> TAKE n \in A
  <2>1. n \in Listed /\ Rank(n) \in Nat /\ Rank(n) < r
    BY <1>0, <1>4
  <2>2. Rank(n) \notin T
    BY <1>3, <2>1
  <2>3. ~(Rank(n) >= p)
    BY <2>1, <2>2 DEF T
  <2> QED
    BY <2>1, <2>3
<1>8. f \in [A -> 0 .. (p - 1)]
  BY <1>7
<1>9. IsFiniteSet(0 .. (p - 1)) /\ Cardinality(0 .. (p - 1)) = p
  <2>1. p - 1 \in Int /\ 0 \in Int
    OBVIOUS
  <2>2. IsFiniteSet(0 .. (p - 1))
        /\ Cardinality(0 .. (p - 1)) = IF 0 > p - 1 THEN 0 ELSE (p - 1) - 0 + 1
    BY <2>1, FS_Interval
  <2> QED
    BY <2>2
<1>10. Cardinality(0 .. (p - 1)) < Cardinality(A)
  BY <1>4, <1>5, <1>6, <1>9
<1> HIDE DEF A, f
<1>11. PICK x \in A, y \in A : x # y /\ f[x] = f[y]
  BY <1>6, <1>8, <1>9, <1>10, FS_PigeonHole
<1>12. Rank(x) = Rank(y) /\ x \in Listed /\ y \in Listed
  BY <1>11 DEF A, f
<1> QED
  BY <1>0, <1>11, <1>12

----------------------------------------------------------------------------
(* Nothing is missing after a backfill.  The induction needs what a walk   *)
(* has covered: each message that was there when it began, and has as many *)
(* newer ones as a page already asked for (Covered); a new message only    *)
(* moves the others to later pages (EmitLists).                            *)

Whole(c) == \A m \in Messages : Since(c, m, row[m])
WholeSoon(r) == \A m \in Messages : Since(at[r] + 1, m, row[m]) \/ RowLeft(r, m)
Covered(b) ==
    \A m \in Listed : Born(m) <= at[b] /\ Rank(m) < page[b] => row[m] # 0 \/ RowLeft(b, m)

Complete ==
    /\ filled =>
         /\ Whole(cursor)
         /\ \A r \in Runners : pc[r] \in {"row", "tags", "body", "save"} => WholeSoon(r)
    /\ \A b \in Backfills :
         /\ pc[b] = "save" => Whole(at[b])
         /\ pc[b] \in {"walk", "row", "tags"} => Covered(b)

FilledInv ==
    /\ CursorInv /\ LogOK /\ IsFiniteSet(Listed)
    /\ filled => cursor # NoCursor
    /\ \A b \in Backfills : pc[b] = "idle" => page[b] = 0
    /\ ~shifted => Complete

LEMMA AtGone ==
  ASSUME NEW n \in Nat, NEW m, Does(n + 1, m, {"delete"})
  PROVE  At(n + 1, m) = 0
<1>1. Does(n + 1, m, Actions)
  BY DoesMore DEF Actions
<1>2. LastDone(n + 1, m, Actions) = n + 1
  BY <1>1, LastDoneIsUnique
<1> QED
  BY <1>2 DEF At, None

LEMMA BornAfter == LocalInv' /\ LogOK' => BornOnce'
<1>1. LocalInv /\ LogOK => BornOnce
  BY BornIs
<1>2. (LocalInv /\ LogOK => BornOnce)'
  BY <1>1, PTL
<1> QED
  BY <1>2

(* A message of the new listing that is not newer than the old one: it was *)
(* in that one, with no more messages before it.                           *)
LEMMA EmitLists ==
  ASSUME LocalInv, LogOK, IsFiniteSet(Listed), Emit, Listed \subseteq Listed',
         NEW c \in 0 .. Latest, NEW m \in Listed', Born(m)' <= c
  PROVE  /\ m \in Listed /\ Born(m) <= c /\ Rank(m) <= Rank(m)'
         /\ Rank(m) \in Nat /\ Rank(m)' \in Nat
<1>0. /\ Latest \in Nat /\ Latest' = Latest + 1 /\ \A i \in 1 .. Latest : log'[i] = log[i]
      /\ LocalInv' /\ LogOK' /\ IsFiniteSet(Listed')
  BY Types, EmitIs, EmitLocal, EmitKeepsLog, EmitKeepsFinite DEF LocalInv
<1>1. BornOnce /\ BornOnce'
  BY <1>0, BornIs, BornAfter
<1>2. \A i \in 1 .. Latest : \A x, acts : Does(i, x, acts)' <=> Does(i, x, acts)
  BY <1>0 DEF Does
<1>3. PICK n, k : n \in Nat /\ n = Latest /\ k = Born(m)'
  BY <1>0
<1>4. k \in 1 .. n /\ Does(k, m, {"create"}) /\ m \in Messages
  <2>1. k \in 1 .. (n + 1) /\ Does(k, m, {"create"})' /\ m \in Messages
    BY <1>0, <1>1, <1>3 DEF BornOnce, Listed
  <2>2. k \in 1 .. n
    BY <1>3, <2>1
  <2> QED
    BY <1>2, <1>3, <2>1, <2>2
<1>5. Born(m) = k
  BY <1>1, <1>3, <1>4 DEF BornOnce
<1>6. m \in Listed
  <2>1. CASE Does(n + 1, m, Actions)'
    <3>1. PICK e \in Events : /\ log'[Latest + 1] = e
                              /\ \A j \in DOMAIN e : e[j] \in Diffs /\ Legal(e[j])
      BY <1>0, EmitAdds
    <3>2. PICK j \in DOMAIN e : e[j].msg = m
      BY <1>0, <1>3, <2>1, <3>1 DEF Does
    <3>3. Born(m) # 0
      BY <1>4, <1>5
    <3> QED
      BY <3>1, <3>2, <3>3 DEF Legal, None
  <2>2. CASE ~Does(n + 1, m, Actions)'
    <3>1. At(n + 1, m)' = At(n, m)'
      BY <1>3, <2>2, SameAfter
    <3>2. At(n, m)' = At(n, m)
      BY <1>0, <1>3, PastIsKept
    <3>3. At(n + 1, m)' # 0
      BY <1>0, <1>3 DEF Listed, None
    <3> QED
      BY <1>3, <1>4, <3>1, <3>2, <3>3 DEF Listed, None
  <2> QED
    BY <2>1, <2>2
<1>7. ASSUME NEW x \in Listed PROVE Born(x)' = Born(x) /\ Born(x) \in 1 .. n
  <2>1. PICK i : i = Born(x)
    OBVIOUS
  <2>2. i \in 1 .. n /\ Does(i, x, {"create"}) /\ x \in Messages
    BY <1>1, <1>3, <2>1 DEF BornOnce, Listed
  <2>3. i \in 1 .. Latest' /\ Does(i, x, {"create"})'
    BY <1>0, <1>2, <1>3, <2>2
  <2>4. Born(x)' = i
    BY <1>1, <2>2, <2>3 DEF BornOnce
  <2> QED
    BY <2>1, <2>2, <2>4
<1>8. ASSUME NEW x \in Listed, Newer(x, m) PROVE Newer(x, m)'
  <2>1. Born(x)' = Born(x) /\ Born(m)' = Born(m) /\ log'[Born(m)] = log[Born(m)]
    BY <1>0, <1>3, <1>6, <1>7
  <2> QED
    BY <1>8, <2>1 DEF Newer
<1> DEFINE A == {x \in Listed : Newer(x, m)}
           B == {x \in Listed' : Newer(x, m)'}
<1>9. A \in SUBSET B
  BY <1>8
<1>10. IsFiniteSet(B) /\ Cardinality(B) \in Nat
  BY <1>0, FS_Subset, FS_CardinalityType
<1>11. Rank(m) = Cardinality(A) /\ Rank(m)' = Cardinality(B)
  BY DEF Rank
<1> HIDE DEF A, B
<1>12. Cardinality(A) <= Cardinality(B) /\ Cardinality(A) \in Nat
  BY <1>9, <1>10, FS_Subset, FS_CardinalityType
<1> QED
  BY <1>3, <1>5, <1>6, <1>10, <1>11, <1>12

(* A step that leaves the log alone.                                       *)
LEMMA SameLog ==
  ASSUME LocalInv, LogOK, log' = log
  PROVE  /\ Latest' = Latest /\ LogOK' /\ Listed' = Listed
         /\ \A m : Born(m)' = Born(m) /\ Rank(m)' = Rank(m)
         /\ \A c, m, v : Since(c, m, v)' <=> Since(c, m, v)
<1>0. Latest' = Latest /\ Latest \in Nat
  BY Types DEF Latest, LocalInv
<1>1. \A i, m, acts : Does(i, m, acts)' <=> Does(i, m, acts)
  BY DEF Does
<1>2. LogOK'
  BY <1>0, <1>1 DEF LogOK
<1>3. PICK n \in Nat : n = Latest
  BY <1>0
<1>4. \A i \in 0 .. n : \A m : At(i, m)' = At(i, m)
  <2> TAKE i \in 0 .. n
  <2>1. i \in Nat
    BY <1>3
  <2> QED
    BY <2>1, PastIsKept
<1>5. Listed' = Listed
  <2>1. Listed = {m \in Messages : At(n, m) # 0} /\ Listed' = {m \in Messages : At(n, m)' # 0}
    BY <1>0, <1>3 DEF Listed, None
  <2>2. \A m : At(n, m)' = At(n, m)
    BY <1>3, <1>4
  <2> QED
    BY <2>1, <2>2
<1>6. \A m : Born(m)' = Born(m)
  <2>1. \A m : LastDone(n, m, {"create"})' = LastDone(n, m, {"create"})
    BY PastIsKept
  <2> QED
    BY <1>0, <1>3, <2>1 DEF Born
<1>7. \A m : Rank(m)' = Rank(m)
  <2>1. \A x, m : Newer(x, m)' <=> Newer(x, m)
    BY <1>6 DEF Newer
  <2> TAKE m
  <2> DEFINE A == {x \in Listed : Newer(x, m)}
             B == {x \in Listed' : Newer(x, m)'}
  <2>2. A = B
    BY <1>5, <2>1
  <2>3. Rank(m) = Cardinality(A) /\ Rank(m)' = Cardinality(B)
    BY DEF Rank
  <2> HIDE DEF A, B
  <2> QED
    BY <2>2, <2>3
<1>8. ASSUME NEW c, NEW m, NEW v PROVE Since(c, m, v)' <=> Since(c, m, v)
  BY <1>0, <1>3, <1>4 DEF Since
<1> QED
  BY <1>0, <1>2, <1>5, <1>6, <1>7, <1>8

LEMMA SinceNow ==
  ASSUME LocalInv, LogOK, log' = log
  PROVE  \A c, m, v : Since(c, m, v) => \E i \in 0 .. Latest' : i >= c /\ v = At(i, m)'
<1> SUFFICES ASSUME NEW c, NEW m, NEW v, Since(c, m, v)
             PROVE  \E i \in 0 .. Latest' : i >= c /\ v = At(i, m)'
  OBVIOUS
<1>1. Since(c, m, v)'
  BY SameLog
<1> QED
  BY <1>1 DEF Since

(* What a run has still to write after one of its writes: every row it has *)
(* written is as of its event.                                             *)
LEMMA RowWrites ==
  ASSUME CursorInv, NEW r \in Runners, Write(r), NEW m \in Messages
  PROVE  \/ Since(at[r] + 1, m, row'[m])
         \/ row'[m] = row[m] /\ (RowLeft(r, m) => RowLeft(r, m)')
<1> DEFINE c == at[r] + 1
<1>0. /\ r \in Writers /\ LocalInv /\ Latest \in Nat /\ at[r] \in 0 .. Latest
      /\ Writing(r) /\ Local(r) /\ upto[r] \in 0 .. Latest /\ at[r] < upto[r]
      /\ c \in 1 .. Latest /\ todo[r] # <<>> /\ 1 \in 1 .. Len(todo[r])
  <2>1. /\ r \in Writers /\ LocalInv /\ Latest \in Nat /\ at[r] \in 0 .. Latest
        /\ Writing(r) /\ upto[r] \in 0 .. Latest /\ todo[r] \in Seq(WriteOf)
    BY Types DEF CursorInv, LocalInv, Writers, Write, WriteRow, WriteTags,
                 InvalidateBodyCache, Writing
  <2>2. Local(r)
    BY <2>1 DEF LocalInv
  <2>3. at[r] < upto[r] /\ todo[r] # <<>>
    BY <2>1, <2>2 DEF Writing, Local
  <2>4. Len(todo[r]) \in Nat /\ Len(todo[r]) > 0
    BY <2>1, <2>3, TailIs
  <2> QED
    BY <2>1, <2>2, <2>3, <2>4
<1> HIDE DEF c
<1>1. LET d == todo[r][1] IN
      /\ d.ver = c
      /\ d.action # "delete" => Since(c, d.msg, c)
      /\ d.action = "delete" => Since(c, d.msg, 0)
  <2>1. FromEvent(todo[r][1], c)
    BY <1>0 DEF Local, c
  <2>2. todo[r][1].action # "delete" => At(c, todo[r][1].msg) = c
    BY <1>0, <2>1, AtNew DEF FromEvent, c
  <2>3. todo[r][1].action = "delete" => At(c, todo[r][1].msg) = 0
    BY <1>0, <2>1, AtGone DEF FromEvent, c
  <2> QED
    BY <1>0, <2>1, <2>2, <2>3 DEF FromEvent, Since
<1>2. CASE WriteRow(r)
  <2> DEFINE d == todo[r][1]
  <2>1. /\ pc[r] = "row"
        /\ \A n \in Messages : n # d.msg => row'[n] = row[n]
        /\ \/ /\ d.action = "delete" /\ row'[d.msg] = 0
              /\ todo'[r] = Tail(todo[r])
              /\ pc'[r] = IF Len(todo[r]) > 1 THEN "row"
                          ELSE IF r \in Runners THEN "save" ELSE "walk"
           \/ /\ d.action # "delete" /\ row'[d.msg] = d.ver
              /\ pc'[r] = "tags" /\ todo'[r] = todo[r]
    BY <1>0, <1>2, WriteRowIs
  <2>2. CASE m = d.msg
    BY <1>1, <2>1, <2>2 DEF c
  <2>3. CASE m # d.msg
    <3>1. RowLeft(r, m) => Left(r, m, 2)
      BY <1>0, <2>1, <2>3, LeftSplits DEF RowLeft
    <3>2. CASE todo'[r] = todo[r] /\ pc'[r] = "tags"
      BY <2>1, <2>3, <3>1, <3>2 DEF Left, RowLeft
    <3>3. CASE ~(todo'[r] = todo[r] /\ pc'[r] = "tags")
      BY <1>0, <2>1, <2>3, <3>1, <3>3, LeftMoves
    <3> QED
      BY <3>2, <3>3
  <2> QED
    BY <2>2, <2>3
<1>3. CASE WriteTags(r)
  <2>1. /\ pc[r] = "tags" /\ row' = row
        /\ \/ /\ todo'[r] = Tail(todo[r])
              /\ pc'[r] = IF Len(todo[r]) > 1 THEN "row"
                          ELSE IF r \in Runners THEN "save" ELSE "walk"
           \/ pc'[r] = "body" /\ todo'[r] = todo[r]
    BY <1>0, <1>3, WriteTagsIs
  <2>2. CASE todo'[r] = todo[r] /\ pc'[r] = "body"
    BY <2>1, <2>2 DEF Left, RowLeft
  <2>3. CASE ~(todo'[r] = todo[r] /\ pc'[r] = "body")
    BY <1>0, <2>1, <2>3, LeftMoves DEF RowLeft
  <2> QED
    BY <2>2, <2>3
<1>4. CASE InvalidateBodyCache(r)
  <2>1. /\ pc[r] = "body" /\ row' = row /\ todo'[r] = Tail(todo[r])
        /\ pc'[r] = IF Len(todo[r]) > 1 THEN "row"
                    ELSE IF r \in Runners THEN "save" ELSE "walk"
    BY <1>0, <1>4, InvalidateIs
  <2> QED
    BY <1>0, <2>1, LeftMoves DEF RowLeft
<1> QED
  BY <1>2, <1>3, <1>4 DEF Write

(* What Record does in a step that stores no captured cursor.              *)
LEMMA RecordIs ==
  ASSUME Record
  PROVE  /\ cursor' = cursor \/ (\A b \in Backfills : pc[b] # "save") => (filled' <=> filled)
         /\ ~shifted' => ~shifted
         /\ ~shifted' /\ Latest' > Latest /\ (\E b \in Backfills : pc[b] # "idle")
              => Listed \subseteq Listed'
<1> QED
  BY DEF Record, Listed

(* Emit adds to what is to be replayed, and moves messages to later pages. *)
LEMMA EmitFills ==
  ASSUME FilledInv, CursorInv', Emit, Record PROVE FilledInv'
<1>0. /\ LocalInv /\ LogOK /\ IsFiniteSet(Listed)
      /\ Latest \in Nat /\ Latest' = Latest + 1 /\ \A i \in 1 .. Latest : log'[i] = log[i]
      /\ UNCHANGED <<row, cursor, pc, at, todo, page>>
      /\ at \in [Writers -> 0 .. Latest] /\ page \in [Writers -> Nat]
  BY Types, EmitIs DEF LocalInv, FilledInv, CursorInv
<1>1. LogOK' /\ IsFiniteSet(Listed')
  BY <1>0, EmitKeepsLog, EmitKeepsFinite
<1>2. \A c, m, v : Since(c, m, v) => \E i \in 0 .. Latest' : i >= c /\ v = At(i, m)'
  <2> SUFFICES ASSUME NEW c, NEW m, NEW v, Since(c, m, v)
               PROVE  \E i \in 0 .. Latest' : i >= c /\ v = At(i, m)'
    OBVIOUS
  <2>1. Since(c, m, v)'
    BY <1>0, SinceKept
  <2> QED
    BY <2>1 DEF Since
<1>3. (filled' => cursor' # NoCursor)
      /\ \A b \in Backfills : pc'[b] = "idle" => page'[b] = 0
  BY <1>0, RecordIs DEF FilledInv
<1>4. ASSUME ~shifted' PROVE Complete'
  <2>0. Complete
    BY <1>4, RecordIs DEF FilledInv
  <2>1. \A r, m : RowLeft(r, m)' <=> RowLeft(r, m)
    BY <1>0 DEF RowLeft, Left
  <2>2. filled' => Whole(cursor)'
    <3>1. filled' => \A m \in Messages : Since(cursor, m, row[m])
      BY <1>0, <2>0, RecordIs DEF Complete, Whole
    <3>2. filled' => \A m \in Messages : \E i \in 0 .. Latest' : i >= cursor /\ row[m] = At(i, m)'
      BY <1>2, <3>1
    <3> QED
      BY <1>0, <3>2 DEF Whole, Since
  <2>3. ASSUME filled', NEW r \in Runners, pc'[r] \in {"row", "tags", "body", "save"}
        PROVE  WholeSoon(r)'
    <3>1. \A m \in Messages : Since(at[r] + 1, m, row[m]) \/ RowLeft(r, m)
      BY <1>0, <2>0, <2>3, RecordIs DEF Complete, WholeSoon
    <3>2. \A m \in Messages : \/ \E i \in 0 .. Latest' : i >= at[r] + 1 /\ row[m] = At(i, m)'
                              \/ RowLeft(r, m)'
      BY <1>2, <2>1, <3>1
    <3> QED
      BY <1>0, <3>2 DEF WholeSoon, Since
  <2>4. ASSUME NEW b \in Backfills, pc'[b] = "save" PROVE Whole(at[b])'
    <3>1. \A m \in Messages : Since(at[b], m, row[m])
      BY <1>0, <2>0, <2>4 DEF Complete, Whole
    <3>2. \A m \in Messages : \E i \in 0 .. Latest' : i >= at[b] /\ row[m] = At(i, m)'
      BY <1>2, <3>1
    <3> QED
      BY <1>0, <3>2 DEF Whole, Since
  <2>5. ASSUME NEW b \in Backfills, pc'[b] \in {"walk", "row", "tags"} PROVE Covered(b)'
    <3>1. Listed \subseteq Listed' /\ Covered(b)
      BY <1>0, <1>4, <2>0, <2>5, RecordIs DEF Complete
    <3>2. at[b] \in 0 .. Latest /\ page[b] \in Nat
      BY <1>0 DEF Writers
    <3> SUFFICES ASSUME NEW m \in Listed', Born(m)' <= at'[b], Rank(m)' < page'[b]
                 PROVE  row'[m] # 0 \/ RowLeft(b, m)'
      BY DEF Covered
    <3>3. PICK c \in 0 .. Latest : c = at[b] /\ Born(m)' <= c
      BY <1>0, <3>2
    <3>4. m \in Listed /\ Born(m) <= c /\ Rank(m) <= Rank(m)'
          /\ Rank(m) \in Nat /\ Rank(m)' \in Nat
      BY <1>0, <3>1, <3>3, EmitLists
    <3> QED
      BY <1>0, <2>1, <3>1, <3>2, <3>3, <3>4 DEF Covered
  <2> QED
    BY <2>2, <2>3, <2>4, <2>5 DEF Complete
<1> QED
  BY <1>1, <1>3, <1>4 DEF FilledInv

(* A step that leaves what a writer has in hand alone.                     *)
LEMMA ElseFills ==
  ASSUME FilledInv, CursorInv', UNCHANGED <<log, row, cursor, pc, at, todo, page>>,
         filled' <=> filled, ~shifted' => ~shifted
  PROVE  FilledInv'
<1>0. /\ LocalInv /\ LogOK /\ IsFiniteSet(Listed)
  BY DEF FilledInv, CursorInv
<1>1. LogOK' /\ Listed' = Listed /\ \A m : Born(m)' = Born(m) /\ Rank(m)' = Rank(m)
  BY <1>0, SameLog
<1>2. \A c, m, v : Since(c, m, v) => \E i \in 0 .. Latest' : i >= c /\ v = At(i, m)'
  BY <1>0, SinceNow
<1>3. (filled' => cursor' # NoCursor)
      /\ \A b \in Backfills : pc'[b] = "idle" => page'[b] = 0
  BY DEF FilledInv
<1>4. ASSUME ~shifted' PROVE Complete'
  <2>0. Complete
    BY <1>4 DEF FilledInv
  <2>1. \A r, m : RowLeft(r, m)' <=> RowLeft(r, m)
    BY DEF RowLeft, Left
  <2>2. filled' => Whole(cursor)'
    <3>1. filled' => \A m \in Messages : Since(cursor, m, row[m])
      BY <2>0 DEF Complete, Whole
    <3>2. filled' => \A m \in Messages : \E i \in 0 .. Latest' : i >= cursor /\ row[m] = At(i, m)'
      BY <1>2, <3>1
    <3> QED
      BY <3>2 DEF Whole, Since
  <2>3. ASSUME filled', NEW r \in Runners, pc'[r] \in {"row", "tags", "body", "save"}
        PROVE  WholeSoon(r)'
    <3>1. \A m \in Messages : Since(at[r] + 1, m, row[m]) \/ RowLeft(r, m)
      BY <2>0, <2>3 DEF Complete, WholeSoon
    <3>2. \A m \in Messages : \/ \E i \in 0 .. Latest' : i >= at[r] + 1 /\ row[m] = At(i, m)'
                              \/ RowLeft(r, m)'
      BY <1>2, <2>1, <3>1
    <3> QED
      BY <3>2 DEF WholeSoon, Since
  <2>4. ASSUME NEW b \in Backfills, pc'[b] = "save" PROVE Whole(at[b])'
    <3>1. \A m \in Messages : Since(at[b], m, row[m])
      BY <2>0, <2>4 DEF Complete, Whole
    <3>2. \A m \in Messages : \E i \in 0 .. Latest' : i >= at[b] /\ row[m] = At(i, m)'
      BY <1>2, <3>1
    <3> QED
      BY <3>2 DEF Whole, Since
  <2>5. ASSUME NEW b \in Backfills, pc'[b] \in {"walk", "row", "tags"} PROVE Covered(b)'
    <3>1. Covered(b)
      BY <2>0, <2>5 DEF Complete
    <3> QED
      BY <1>1, <2>1, <3>1 DEF Covered
  <2> QED
    BY <2>2, <2>3, <2>4, <2>5 DEF Complete
<1> QED
  BY <1>0, <1>1, <1>3, <1>4 DEF FilledInv

(* One writer's step: what to show of it.                                  *)
LEMMA WriterFills ==
  ASSUME FilledInv, CursorInv', NEW w \in Writers, log' = log,
         \A v \in Writers : v # w => pc'[v] = "idle" /\ pc[v] = "idle" /\ page'[v] = page[v],
         filled' => cursor' # NoCursor, ~shifted' => ~shifted,
         w \in Backfills /\ pc'[w] = "idle" => page'[w] = 0,
         ~shifted' /\ filled' => Whole(cursor)',
         ~shifted' /\ filled' /\ w \in Runners /\ pc'[w] \in {"row", "tags", "body", "save"}
           => WholeSoon(w)',
         ~shifted' /\ w \in Backfills /\ pc'[w] = "save" => Whole(at[w])',
         ~shifted' /\ w \in Backfills /\ pc'[w] \in {"walk", "row", "tags"} => Covered(w)'
  PROVE  FilledInv'
<1>0. LogOK' /\ IsFiniteSet(Listed')
  BY SameLog DEF FilledInv, CursorInv
<1>1. \A b \in Backfills : pc'[b] = "idle" => page'[b] = 0
  BY DEF FilledInv, Writers
<1>2. ASSUME ~shifted' PROVE Complete'
  <2>1. \A r \in Runners : pc'[r] \in {"row", "tags", "body", "save"} => r = w
    BY DEF Writers
  <2>2. \A b \in Backfills : pc'[b] \in {"walk", "row", "tags", "save"} => b = w
    BY DEF Writers
  <2> QED
    BY <1>2, <2>1, <2>2 DEF Complete
<1> QED
  BY <1>0, <1>1, <1>2 DEF FilledInv

LEMMA WriterLogs ==
  ASSUME LocalInv, NEW w \in Writers,
         \/ w \in Runners /\ RunOnce(w)
         \/ w \in Backfills /\ (Capture(w) \/ Backfill(w))
  PROVE  /\ log' = log /\ Latest' = Latest /\ Others(w)
         /\ \A v \in Writers : v # w => page'[v] = page[v]
         /\ pc[w] # "idle" \/ MayStart(w)
<1>0. page \in [Writers -> Nat] /\ TypeOK /\ LocalInv
  BY Types DEF LocalInv
<1>1. Return(w) => \A v \in Writers : v # w => page'[v] = page[v]
  BY <1>0 DEF Return
<1>2. CASE w \in Runners /\ RunOnce(w)
  <2>1. log' = log /\ Latest' = Latest
    BY <1>2 DEF RunOnce, Begin, Seed, Fetch, Write, WriteRow, WriteTags, InvalidateBodyCache,
           SaveCursor, serverVars, Latest
  <2>2. Seed(w) => Return(w)
    BY DEF Seed
  <2>3. Others(w)
    BY <1>0, <1>2, <2>2, BeginIs, ReturnIs, FetchIs, WriteRowIs, WriteTagsIs, InvalidateIs,
       SaveCursorIs DEF RunOnce, Write
  <2>4. \A v \in Writers : v # w => page'[v] = page[v]
    BY <1>1, <1>2 DEF RunOnce, Begin, Seed, Fetch, Write, WriteRow, WriteTags,
       InvalidateBodyCache, SaveCursor
  <2>5. pc[w] # "idle" \/ MayStart(w)
    BY <1>2 DEF RunOnce, Begin, Seed, Fetch, Write, WriteRow, WriteTags, InvalidateBodyCache,
           SaveCursor
  <2> QED
    BY <2>1, <2>3, <2>4, <2>5
<1>3. CASE w \in Backfills /\ (Capture(w) \/ Backfill(w))
  <2>1. log' = log /\ Latest' = Latest
    BY <1>3 DEF Capture, Backfill, Walk, Write, WriteRow, WriteTags, InvalidateBodyCache,
           SaveCaptured, serverVars, Latest
  <2>2. SaveCaptured(w) => Return(w)
    BY DEF SaveCaptured
  <2>3. Others(w)
    BY <1>0, <1>3, <2>2, CaptureIs, ReturnIs, WalkIs, WriteRowIs, WriteTagsIs, InvalidateIs
    DEF Backfill, Write
  <2>4. \A v \in Writers : v # w => page'[v] = page[v]
    BY <1>0, <1>1, <1>3 DEF Capture, Backfill, Walk, Write, WriteRow, WriteTags,
       InvalidateBodyCache, SaveCaptured
  <2>5. pc[w] # "idle" \/ MayStart(w)
    BY <1>3 DEF Capture, Backfill, Walk, Write, WriteRow, WriteTags, InvalidateBodyCache,
           SaveCaptured
  <2> QED
    BY <2>1, <2>3, <2>4, <2>5
<1> QED
  BY <1>2, <1>3

(* A runner's step.                                                        *)
LEMMA RunFills ==
  ASSUME FilledInv, CursorInv', Exclusive, NEW r \in Runners, RunOnce(r), Record
  PROVE  FilledInv'
<1>0. /\ r \in Writers /\ r \notin Backfills /\ CursorInv /\ LocalInv /\ LogOK /\ Latest \in Nat
      /\ Local(r) /\ at[r] \in 0 .. Latest /\ upto[r] \in 0 .. Latest
      /\ cursor \in NoCursor .. Latest /\ RunSound(r)
  BY Types, SyncAssumption DEF FilledInv, CursorInv, LocalInv, Writers
<1>1. /\ log' = log /\ Latest' = Latest /\ Others(r)
      /\ pc[r] # "idle" \/ MayStart(r)
      /\ \A v \in Writers : v # r => page'[v] = page[v]
  BY <1>0, WriterLogs
<1>2. \A v \in Writers : v # r => pc[v] = "idle" /\ pc'[v] = "idle"
  BY <1>0, <1>1, WriterLogs, Alone
<1>3. (filled' <=> filled) /\ (~shifted' => ~shifted)
  <2>1. \A b \in Backfills : pc[b] # "save"
    BY <1>0, <1>2 DEF Writers
  <2> QED
    BY <2>1, RecordIs
<1>4. \A c, m, v : Since(c, m, v) => \E i \in 0 .. Latest' : i >= c /\ v = At(i, m)'
  BY <1>0, <1>1, SinceNow
<1>5. ~shifted' /\ filled' =>
        /\ \A m \in Messages : Since(cursor, m, row[m])
        /\ pc[r] \in {"row", "tags", "body", "save"} =>
             \A m \in Messages : Since(at[r] + 1, m, row[m]) \/ RowLeft(r, m)
  BY <1>3 DEF FilledInv, Complete, Whole, WholeSoon
(* What is left is the run's own part.                                     *)
<1>6. ASSUME filled' => cursor' # NoCursor,
             ~shifted' /\ filled' => \A m \in Messages : Since(cursor', m, row'[m]),
             ~shifted' /\ filled' /\ pc'[r] \in {"row", "tags", "body", "save"} =>
               \A m \in Messages : Since(at'[r] + 1, m, row'[m]) \/ RowLeft(r, m)'
      PROVE  FilledInv'
  <2>1. ~shifted' /\ filled' => Whole(cursor)'
    <3>1. ~shifted' /\ filled' =>
            \A m \in Messages : \E i \in 0 .. Latest' : i >= cursor' /\ row'[m] = At(i, m)'
      BY <1>4, <1>6
    <3> QED
      BY <3>1 DEF Whole, Since
  <2>2. ~shifted' /\ filled' /\ pc'[r] \in {"row", "tags", "body", "save"} => WholeSoon(r)'
    <3>1. ~shifted' /\ filled' /\ pc'[r] \in {"row", "tags", "body", "save"} =>
            \A m \in Messages : \/ \E i \in 0 .. Latest' : i >= at'[r] + 1 /\ row'[m] = At(i, m)'
                                \/ RowLeft(r, m)'
      BY <1>4, <1>6
    <3> QED
      BY <3>1 DEF WholeSoon, Since
  <2> QED
    BY <1>0, <1>1, <1>2, <1>3, <1>6, <2>1, <2>2, WriterFills
(* It takes up the event after n.                                          *)
<1>7. ASSUME NEW n \in 0 .. Latest, n + 1 \in 1 .. Latest, at'[r] = n, pc'[r] = "row",
             todo'[r] = Writes(n + 1), row' = row, NEW m \in Messages, Since(n, m, row[m])
      PROVE  Since(at'[r] + 1, m, row'[m]) \/ RowLeft(r, m)'
  <2>1. CASE Since(n + 1, m, row[m])
    BY <1>7, <2>1
  <2>2. CASE \E j \in 1 .. Len(Writes(n + 1)) : Writes(n + 1)[j].msg = m
    BY <1>7, <2>2 DEF RowLeft, Left
  <2> QED
    BY <1>0, <1>7, <2>1, <2>2, NextEvent
<1>8. CASE Begin(r)
  <2>1. UNCHANGED <<row, cursor>> /\ pc'[r] \in {"seed", "fetch"}
    BY <1>0, <1>8, BeginIs
  <2> QED
    BY <1>3, <1>5, <1>6, <2>1 DEF FilledInv
<1>9. CASE Seed(r)
  <2>1. pc[r] = "seed" /\ Return(r)
    BY <1>9 DEF Seed
  <2>2. ~filled /\ pc'[r] = "idle"
    BY <1>0, <2>1, ReturnIs DEF RunSound, FilledInv, LocalInv
  <2> QED
    BY <1>3, <1>6, <2>2
<1>10. CASE Fetch(r)
  <2>1. /\ UNCHANGED <<row, cursor>> /\ pc[r] = "fetch"
        /\ \/ pc'[r] = "idle"
           \/ /\ pc'[r] = "row" /\ at'[r] = at[r] /\ at[r] + 1 \in 1 .. Latest
              /\ todo'[r] = Writes(at[r] + 1)
    BY <1>0, <1>10, FetchIs DEF Fetch
  <2>2. cursor = at[r]
    BY <1>0, <2>1 DEF RunSound
  <2>3. PICK n \in 0 .. Latest : n = at[r]
    BY <1>0
  <2>4. ~shifted' /\ filled' /\ pc'[r] \in {"row", "tags", "body", "save"} =>
          \A m \in Messages : Since(at'[r] + 1, m, row'[m]) \/ RowLeft(r, m)'
    BY <1>5, <1>7, <2>1, <2>2, <2>3
  <2> QED
    BY <1>3, <1>5, <1>6, <2>1, <2>4 DEF FilledInv
<1>11. CASE Write(r)
  <2>1. cursor' = cursor /\ at'[r] = at[r] /\ pc[r] \in {"row", "tags", "body"}
    BY <1>0, <1>11, WriteRowIs, WriteTagsIs, InvalidateIs DEF Write
  <2>2. cursor = at[r]
    BY <1>0, <2>1 DEF RunSound
  <2>3. \A m \in Messages : \/ Since(at[r] + 1, m, row'[m])
                            \/ row'[m] = row[m] /\ (RowLeft(r, m) => RowLeft(r, m)')
    BY <1>0, <1>11, RowWrites
  <2>4. ~shifted' /\ filled' => \A m \in Messages : Since(cursor', m, row'[m])
    <3>1. at[r] + 1 \in Int /\ cursor \in Int /\ cursor <= at[r] + 1
      BY <1>0, <2>2
    <3>2. \A m, v : Since(at[r] + 1, m, v) => Since(cursor, m, v)
      BY <1>0, <3>1, SinceWeakens
    <3> QED
      BY <1>5, <2>1, <2>3, <3>2
  <2>5. ~shifted' /\ filled' =>
          \A m \in Messages : Since(at'[r] + 1, m, row'[m]) \/ RowLeft(r, m)'
    BY <1>5, <2>1, <2>3
  <2> QED
    BY <1>3, <1>6, <2>1, <2>4, <2>5 DEF FilledInv
<1>12. CASE SaveCursor(r)
  <2>1. /\ row' = row /\ pc[r] = "save" /\ cursor' = at[r] + 1 /\ cursor' \in NoCursor .. Latest
        /\ \/ pc'[r] \in {"idle", "fetch"}
           \/ /\ pc'[r] = "row" /\ at'[r] = at[r] + 1 /\ at[r] + 2 \in 1 .. Latest
              /\ todo'[r] = Writes(at[r] + 2)
    BY <1>0, <1>12, SaveCursorIs
  <2>2. PICK n \in 0 .. Latest : n = at[r] + 1 /\ n + 1 = at[r] + 2
    BY <1>0, <2>1, Numbers
  <2>3. ~shifted' /\ filled' => \A m \in Messages : Since(n, m, row[m])
    BY <1>5, <2>1, <2>2 DEF RowLeft
  <2>4. ~shifted' /\ filled' /\ pc'[r] \in {"row", "tags", "body", "save"} =>
          \A m \in Messages : Since(at'[r] + 1, m, row'[m]) \/ RowLeft(r, m)'
    BY <1>7, <2>1, <2>2, <2>3
  <2>5. cursor' # NoCursor
    BY <2>1, <2>2, Numbers
  <2> QED
    BY <1>6, <2>1, <2>2, <2>3, <2>4, <2>5
<1> QED
  BY <1>8, <1>9, <1>10, <1>11, <1>12 DEF RunOnce

(* A page that lists a message is asked for while it is on it.             *)
LEMMA WalkFinds ==
  ASSUME LocalInv, NEW b \in Backfills, Walk(b)
  PROVE  /\ UNCHANGED <<log, row, cursor>> /\ at'[b] = at[b] /\ pc[b] = "walk"
         /\ \/ pc'[b] = "save" /\ Page(page[b]) = {}
            \/ /\ pc'[b] = "row" /\ page'[b] = page[b] + 1
               /\ \E m \in Page(page[b]) :
                    todo'[b] = <<[msg |-> m, action |-> "flags", ver |-> At(Latest, m)]>>
<1>0. /\ b \in Writers /\ pc \in [Writers -> PCs] /\ todo \in [Writers -> Seq(WriteOf)]
      /\ page \in [Writers -> Nat]
  BY Types DEF LocalInv, Writers
<1>1. UNCHANGED <<log, row, cursor, at>> /\ pc[b] = "walk"
  BY DEF Walk, serverVars, mirrorVars
<1>2. CASE Page(page[b]) = {}
  <2>1. pc' = [pc EXCEPT ![b] = "save"]
    BY <1>2 DEF Walk, Goto
  <2> QED
    BY <1>0, <1>1, <1>2, <2>1
<1>3. CASE Page(page[b]) # {}
  <2>1. PICK m \in Page(page[b]) :
          /\ todo' = [todo EXCEPT ![b] =
                <<[msg |-> m, action |-> "flags", ver |-> At(Latest, m)]>>]
          /\ page' = [page EXCEPT ![b] = page[b] + 1]
          /\ pc' = [pc EXCEPT ![b] = "row"]
    BY <1>3 DEF Walk, Goto
  <2>2. todo'[b] = <<[msg |-> m, action |-> "flags", ver |-> At(Latest, m)]>>
    BY <1>0, <2>1
  <2> QED
    BY <1>0, <1>1, <2>1, <2>2
<1> QED
  BY <1>2, <1>3

(* What a backfill writes, and what is left of the page.                   *)
LEMMA PageWrites ==
  ASSUME CursorInv, NEW b \in Backfills, Write(b), CleanBackfill
  PROVE  /\ cursor' = cursor /\ at'[b] = at[b] /\ page' = page
         /\ Writing(b) /\ pc[b] \in {"row", "tags"} /\ pc'[b] \in {"row", "tags", "walk"}
         /\ cursor <= at[b] /\ cursor \in Int /\ at[b] \in Int
         /\ \A m \in Messages :
              /\ row'[m] = row[m] \/ (row'[m] # 0 /\ Since(at[b], m, row'[m]))
              /\ row[m] # 0 \/ RowLeft(b, m) => row'[m] # 0 \/ RowLeft(b, m)'
<1>0. /\ b \in Writers /\ b \notin Runners /\ LocalInv /\ Latest \in Nat /\ Local(b)
      /\ at[b] \in 0 .. Latest /\ cursor \in NoCursor .. Latest
      /\ Filled(b) /\ todo[b] \in Seq(WriteOf)
  BY Types, SyncAssumption DEF CursorInv, LocalInv, Writers
<1> DEFINE d == todo[b][1]
<1>1. /\ Writing(b) /\ pc[b] \in {"row", "tags"} /\ todo[b] # <<>>
      /\ d \in WriteOf /\ d.action = "flags" /\ 1 \in 1 .. Len(todo[b])
  <2>1. Writing(b)
    BY DEF Write, WriteRow, WriteTags, InvalidateBodyCache, Writing
  <2>2. todo[b] # <<>> /\ pc[b] \in {"row", "tags"}
    BY <1>0, <2>1 DEF Local, Writing
  <2>3. 1 \in 1 .. Len(todo[b]) /\ d \in WriteOf
    BY <1>0, <2>2, TailIs
  <2> QED
    BY <1>0, <2>1, <2>2, <2>3 DEF Local
<1>2. /\ cursor <= at[b] /\ cursor \in Int /\ at[b] \in Int
      /\ Since(at[b], d.msg, d.ver) /\ d.ver # 0
  <2>1. d.ver # 0
    BY <1>0, <1>1, WriteIs
  <2> QED
    BY <1>0, <1>1, <2>1, Numbers DEF Filled, Writing
<1>3. page' = page
  BY DEF Write, WriteRow, WriteTags, InvalidateBodyCache
<1>4. CASE WriteRow(b)
  <2>1. /\ cursor' = cursor /\ at'[b] = at[b] /\ pc[b] = "row" /\ pc'[b] = "tags"
        /\ todo'[b] = todo[b] /\ row'[d.msg] = d.ver
        /\ \A m \in Messages : m # d.msg => row'[m] = row[m]
    BY <1>0, <1>1, <1>4, WriteRowIs
  <2>2. ASSUME NEW m \in Messages, m # d.msg, RowLeft(b, m) PROVE RowLeft(b, m)'
    <3>1. Left(b, m, 2)
      BY <1>0, <1>1, <2>1, <2>2, LeftSplits DEF RowLeft
    <3> QED
      BY <2>1, <3>1 DEF RowLeft, Left
  <2> HIDE DEF d
  <2> QED
    BY <1>1, <1>2, <1>3, <2>1, <2>2
<1>5. CASE WriteTags(b)
  <2>1. /\ cursor' = cursor /\ at'[b] = at[b] /\ pc[b] = "tags" /\ row' = row
        /\ todo'[b] = Tail(todo[b])
        /\ pc'[b] = IF Len(todo[b]) > 1 THEN "row"
                    ELSE IF b \in Runners THEN "save" ELSE "walk"
    BY <1>0, <1>1, <1>5, WriteTagsIs
  <2>2. \A m : RowLeft(b, m) => RowLeft(b, m)'
    BY <1>0, <1>1, <2>1, LeftMoves DEF RowLeft
  <2>3. pc'[b] \in {"row", "tags", "walk"}
    BY <1>0, <2>1
  <2> HIDE DEF d
  <2> QED
    BY <1>1, <1>2, <1>3, <2>1, <2>2, <2>3
<1>6. ~InvalidateBodyCache(b)
  BY <1>1 DEF InvalidateBodyCache
<1> QED
  BY <1>4, <1>5, <1>6 DEF Write

(* Past the last page, what the mirror lacks came after the walk began.    *)
LEMMA WalkCovers ==
  ASSUME LocalInv, LogOK, IsFiniteSet(Listed), NEW b \in Backfills, Held(at[b]), Covered(b),
         pc[b] = "walk", Page(page[b]) = {}
  PROVE  Whole(at[b])
<1>0. /\ Latest \in Nat /\ BornOnce /\ b \in Writers
      /\ at[b] \in 0 .. Latest /\ page[b] \in Nat /\ row \in [Messages -> 0 .. Latest]
  BY Types, BornIs DEF LocalInv, Writers
<1> SUFFICES ASSUME NEW m \in Messages, row[m] = 0 PROVE Since(at[b], m, row[m])
  BY DEF Held, Whole
<1>1. CASE m \notin Listed
  <2>1. At(Latest, m) = 0
    BY <1>1 DEF Listed, None
  <2> QED
    BY <1>0, <2>1 DEF Since
<1>2. CASE m \in Listed
  <2>1. Rank(m) < page[b]
    BY <1>0, <1>2, PagesHaveNoGap
  <2>2. ~(Born(m) <= at[b])
    BY <1>2, <2>1 DEF Covered, RowLeft
  <2>3. PICK n \in 0 .. Latest : n = at[b]
    BY <1>0
  <2>4. ASSUME NEW i \in 1 .. n, Does(i, m, Actions) PROVE FALSE
    <3>1. i \in 1 .. Latest
      BY <1>0, <2>3
    <3>2. PICK k \in 1 .. i : Does(k, m, {"create"})
      BY <2>4, <3>1 DEF LogOK
    <3>3. k \in 1 .. Latest
      BY <1>0, <3>1, <3>2
    <3>4. Born(m) = k
      BY <1>0, <3>2, <3>3 DEF BornOnce
    <3> QED
      BY <1>0, <2>2, <2>3, <3>1, <3>2, <3>4
  <2>5. LastDone(n, m, Actions) = 0
    BY <1>0, <2>3, <2>4, LastDoneIs
  <2>6. At(n, m) = 0
    BY <2>5 DEF At, None
  <2> QED
    BY <1>0, <2>3, <2>6 DEF Since
<1> QED
  BY <1>1, <1>2

LEMMA BackfillFills ==
  ASSUME FilledInv, CursorInv', Exclusive, CleanBackfill, NEW b \in Backfills,
         Capture(b) \/ Backfill(b), Record
  PROVE  FilledInv'
<1>0. /\ b \in Writers /\ b \notin Runners /\ CursorInv /\ LocalInv /\ LogOK /\ Latest \in Nat
      /\ IsFiniteSet(Listed)
      /\ Local(b) /\ at[b] \in 0 .. Latest /\ page[b] \in Nat
      /\ cursor \in NoCursor .. Latest /\ Filled(b)
  BY Types, SyncAssumption DEF FilledInv, CursorInv, LocalInv, Writers
<1>1. /\ log' = log /\ Latest' = Latest /\ Others(b)
      /\ pc[b] # "idle" \/ MayStart(b)
      /\ \A v \in Writers : v # b => page'[v] = page[v]
  BY <1>0, WriterLogs
<1>2. \A v \in Writers : v # b => pc[v] = "idle" /\ pc'[v] = "idle"
  BY <1>0, <1>1, Alone
<1>3. ~shifted' => ~shifted
  BY RecordIs
<1>4. \A c, m, v : Since(c, m, v) => \E i \in 0 .. Latest' : i >= c /\ v = At(i, m)'
  BY <1>0, <1>1, SinceNow
<1>5. ~shifted' =>
        /\ filled => \A m \in Messages : Since(cursor, m, row[m])
        /\ pc[b] = "save" => \A m \in Messages : Since(at[b], m, row[m])
        /\ pc[b] \in {"walk", "row", "tags"} => Covered(b)
  BY <1>3 DEF FilledInv, Complete, Whole
<1>6. /\ \A m : Born(m)' = Born(m) /\ Rank(m)' = Rank(m)
      /\ Listed' = Listed
  BY <1>0, <1>1, SameLog
<1>7. BornOnce /\ \A m \in Listed : Rank(m) \in Nat
  BY <1>0, BornIs, RankOrders
(* What is left is the backfill's own part.                                *)
<1>8. ASSUME filled' => cursor' # NoCursor, pc'[b] = "idle" => page'[b] = 0,
             ~shifted' /\ filled' => \A m \in Messages : Since(cursor', m, row'[m]),
             ~shifted' /\ pc'[b] = "save" => \A m \in Messages : Since(at'[b], m, row'[m]),
             ~shifted' /\ pc'[b] \in {"walk", "row", "tags"} =>
               \A m \in Listed : Born(m) <= at'[b] /\ Rank(m) < page'[b]
                                   => row'[m] # 0 \/ RowLeft(b, m)'
      PROVE  FilledInv'
  <2>1. ~shifted' /\ filled' => Whole(cursor)'
    <3>1. ~shifted' /\ filled' =>
            \A m \in Messages : \E i \in 0 .. Latest' : i >= cursor' /\ row'[m] = At(i, m)'
      BY <1>4, <1>8
    <3> QED
      BY <3>1 DEF Whole, Since
  <2>2. ~shifted' /\ pc'[b] = "save" => Whole(at[b])'
    <3>1. ~shifted' /\ pc'[b] = "save" =>
            \A m \in Messages : \E i \in 0 .. Latest' : i >= at'[b] /\ row'[m] = At(i, m)'
      BY <1>4, <1>8
    <3> QED
      BY <3>1 DEF Whole, Since
  <2>3. ~shifted' /\ pc'[b] \in {"walk", "row", "tags"} => Covered(b)'
    BY <1>6, <1>8 DEF Covered
  <2> QED
    BY <1>0, <1>1, <1>2, <1>3, <1>8, <2>1, <2>2, <2>3, WriterFills
<1>9. CASE Capture(b)
  <2>1. UNCHANGED <<row, cursor>> /\ pc'[b] = "walk" /\ page'[b] = page[b] /\ pc[b] = "idle"
    BY <1>0, <1>9, CaptureIs DEF Capture, MayStart
  <2>2. page[b] = 0
    BY <2>1 DEF FilledInv
  <2>3. filled' <=> filled
    BY <2>1, RecordIs
  <2> QED
    BY <1>5, <1>7, <1>8, <2>1, <2>2, <2>3 DEF FilledInv
<1>10. CASE Walk(b)
  <2>1. /\ UNCHANGED <<row, cursor>> /\ at'[b] = at[b] /\ pc[b] = "walk"
        /\ \/ pc'[b] = "save" /\ Page(page[b]) = {}
           \/ /\ pc'[b] = "row" /\ page'[b] = page[b] + 1
              /\ \E m \in Page(page[b]) :
                   todo'[b] = <<[msg |-> m, action |-> "flags", ver |-> At(Latest, m)]>>
    BY <1>0, <1>10, WalkFinds
  <2>2. filled' <=> filled
    BY <2>1, RecordIs
  <2>3. ~shifted' => Covered(b)
    BY <1>5, <2>1
  <2>4. ~shifted' /\ pc'[b] = "save" => \A m \in Messages : Since(at'[b], m, row'[m])
    <3>1. Held(at[b])
      BY <1>0, <2>1 DEF Filled
    <3>2. ~shifted' /\ pc'[b] = "save" => Whole(at[b])
      BY <1>0, <2>1, <2>3, <3>1, WalkCovers
    <3> QED
      BY <2>1, <3>2 DEF Whole
  <2>5. ASSUME ~shifted', pc'[b] \in {"walk", "row", "tags"},
               NEW m \in Listed, Born(m) <= at'[b], Rank(m) < page'[b]
        PROVE  row'[m] # 0 \/ RowLeft(b, m)'
    <3>1. PICK x \in Page(page[b]) :
            todo'[b] = <<[msg |-> x, action |-> "flags", ver |-> At(Latest, x)]>>
      BY <2>1, <2>5
    <3>2. CASE Rank(m) < page[b]
      <4>1. row[m] # 0
        BY <2>1, <2>3, <2>5, <3>2 DEF Covered, RowLeft
      <4> QED
        BY <2>1, <4>1
    <3>3. CASE Rank(m) = page[b]
      <4>1. x \in Listed /\ Rank(x) = page[b]
        BY <3>1 DEF Page
      <4>2. x = m
        BY <1>0, <1>7, <3>3, <4>1, RankOrders
      <4>3. Len(todo'[b]) = 1 /\ todo'[b][1].msg = m
        BY <3>1, <4>2
      <4>4. 1 \in 1 .. Len(todo'[b])
        BY <4>3
      <4> QED
        BY <2>1, <2>5, <4>3, <4>4 DEF RowLeft, Left
    <3>4. page'[b] = page[b] + 1
      BY <2>1, <2>5
    <3> QED
      BY <1>0, <1>7, <2>5, <3>2, <3>3, <3>4
  <2> QED
    BY <1>5, <1>8, <2>1, <2>2, <2>4, <2>5 DEF FilledInv
<1>11. CASE Write(b)
  <2>1. /\ cursor' = cursor /\ at'[b] = at[b] /\ page' = page
        /\ pc[b] \in {"row", "tags"} /\ pc'[b] \in {"row", "tags", "walk"}
        /\ cursor <= at[b] /\ cursor \in Int /\ at[b] \in Int
        /\ \A m \in Messages :
             /\ row'[m] = row[m] \/ (row'[m] # 0 /\ Since(at[b], m, row'[m]))
             /\ row[m] # 0 \/ RowLeft(b, m) => row'[m] # 0 \/ RowLeft(b, m)'
    BY <1>0, <1>11, PageWrites
  <2>2. filled' <=> filled
    BY <2>1, RecordIs
  <2>3. \A m, v : Since(at[b], m, v) => Since(cursor, m, v)
    BY <1>0, <2>1, SinceWeakens
  <2>4. ~shifted' /\ filled' => \A m \in Messages : Since(cursor', m, row'[m])
    BY <1>5, <2>1, <2>2, <2>3
  <2>5. \A m \in Listed : m \in Messages
    BY DEF Listed
  <2>6. ~shifted' => \A m \in Listed : Born(m) <= at'[b] /\ Rank(m) < page'[b]
                                         => row'[m] # 0 \/ RowLeft(b, m)'
    BY <1>5, <2>1, <2>5 DEF Covered
  <2>7. (filled' => cursor' # NoCursor) /\ pc'[b] # "idle" /\ pc'[b] # "save"
    BY <2>1, <2>2 DEF FilledInv
  <2> QED
    BY <1>8, <2>4, <2>6, <2>7
<1>12. CASE SaveCaptured(b)
  <2>1. /\ row' = row /\ cursor' = at[b] /\ pc[b] = "save" /\ pc'[b] = "idle" /\ Return(b)
    BY <1>0, <1>12, ReturnIs DEF SaveCaptured, CapturedCursor, mirrorVars, LocalInv
  <2>2. page'[b] = 0
    BY <1>0, <2>1, Types DEF Return, LocalInv
  <2>3. cursor' # NoCursor
    BY <1>0, <2>1, Numbers
  <2> QED
    BY <1>5, <1>8, <2>1, <2>2, <2>3
<1> QED
  BY <1>9, <1>10, <1>11, <1>12 DEF Backfill

LEMMA FilledInit ==
  ASSUME HInit PROVE FilledInv
<1>1. Init /\ ~filled
  BY DEF HInit
<1>2. CursorInv
  BY <1>1, CursorInit
<1>3. log = <<>> /\ Latest = 0
  BY <1>1, EmptySeq DEF Init, Latest
<1>4. LogOK
  BY <1>3 DEF LogOK
<1>5. Listed = {}
  <2>1. \A m : At(Latest, m) = 0
    BY <1>3, AtIs
  <2> QED
    BY <2>1 DEF Listed, None
<1>6. IsFiniteSet(Listed)
  BY <1>5, FS_EmptySet
<1>7. \A w \in Writers : pc[w] = "idle" /\ page[w] = 0
  BY <1>1 DEF Init
<1>8. Complete
  BY <1>1, <1>7 DEF Complete, Writers
<1> QED
  BY <1>1, <1>2, <1>4, <1>6, <1>7, <1>8 DEF FilledInv, Writers

LEMMA FilledKeeps ==
  ASSUME FilledInv, Exclusive, CleanBackfill, [HNext]_hvars PROVE FilledInv'
<1>0. CursorInv /\ CursorInv'
  BY CursorKeeps DEF FilledInv, HNext, hvars
<1>1. ASSUME Emit, Record PROVE FilledInv'
  BY <1>0, <1>1, EmitFills
<1>2. ASSUME Expire, Record PROVE FilledInv'
  BY <1>0, <1>2, ElseFills, RecordIs DEF Expire, mirrorVars, writerVars
<1>3. ASSUME NEW w \in Writers, Abort(w), Record PROVE FilledInv'
  <2>1. /\ UNCHANGED <<log, row, cursor>> /\ Return(w) /\ pc[w] # "idle" /\ w \notin Backfills
    BY <1>3 DEF Abort, serverVars, mirrorVars
  <2>2. page \in [Writers -> Nat] /\ LocalInv /\ TypeOK /\ LogOK
    BY <1>0, Types DEF CursorInv, LocalInv, FilledInv
  <2>3. Others(w) /\ pc'[w] = "idle" /\ \A v \in Writers : v # w => page'[v] = page[v]
    BY <2>1, <2>2, ReturnIs DEF Return
  <2>4. \A v \in Writers : v # w => pc[v] = "idle" /\ pc'[v] = "idle"
    BY <1>0, <2>1, <2>3, Alone
  <2>5. (filled' <=> filled) /\ (~shifted' => ~shifted)
    BY <1>3, <2>1, RecordIs
  <2>6. ~shifted' /\ filled' => Whole(cursor)'
    <3>1. ~shifted' /\ filled' => \A m \in Messages : Since(cursor, m, row[m])
      BY <2>5 DEF FilledInv, Complete, Whole
    <3>2. ~shifted' /\ filled' =>
            \A m \in Messages : \E i \in 0 .. Latest' : i >= cursor /\ row[m] = At(i, m)'
      BY <2>1, <2>2, <3>1, SinceNow
    <3> QED
      BY <2>1, <3>2 DEF Whole, Since
  <2>7. filled' => cursor' # NoCursor
    BY <2>1, <2>5 DEF FilledInv
  <2> QED
    BY <1>0, <2>1, <2>3, <2>4, <2>5, <2>6, <2>7, WriterFills
<1>4. ASSUME NEW r \in Runners, RunOnce(r), Record PROVE FilledInv'
  BY <1>0, <1>4, RunFills
<1>5. ASSUME NEW b \in Backfills, Capture(b) \/ Backfill(b), Record PROVE FilledInv'
  BY <1>0, <1>5, BackfillFills
<1>6. ASSUME NEW q \in Readers, NEW m \in Messages, Read(q, m), Record PROVE FilledInv'
  <2>1. UNCHANGED <<log, row, cursor, pc, at, todo, page>>
    BY <1>0, <1>6, ReadIs DEF CursorInv
  <2> QED
    BY <1>0, <1>6, <2>1, ElseFills, RecordIs
<1>7. CASE UNCHANGED hvars
  BY <1>0, <1>7, ElseFills DEF hvars, vars, serverVars, mirrorVars, writerVars
<1> QED
  BY <1>1, <1>2, <1>3, <1>4, <1>5, <1>6, <1>7 DEF HNext, Next

(* backfill.go captures the cursor before it walks the pages: whatever     *)
(* arrives, changes or disappears while it walks, a mirror that a backfill *)
(* has filled and RunOnce has followed holds every message the server had  *)
(* at the cursor or later.  For any messages and any log; not if a page    *)
(* shift hid a message.                                                    *)
THEOREM NothingIsMissing ==
  ASSUME Exclusive, CleanBackfill
  PROVE  HSpec => []NothingMissing
<1>1. HInit => FilledInv
  BY FilledInit
<1>2. FilledInv /\ [HNext]_hvars => FilledInv'
  BY FilledKeeps
<1>3. FilledInv => NothingMissing
  BY DEF FilledInv, Complete, Whole, Since, NothingMissing
<1> QED
  BY <1>1, <1>2, <1>3, PTL DEF HSpec

----------------------------------------------------------------------------
(* No cached body is older than the mirror's cursor.  The induction needs  *)
(* that an update still among a run's writes will drop the body (BodyLeft),*)
(* and that a body always is the one of some event (BodiesOK).             *)

BodyActions == {"create", "update"}
Fresh(c, m, v) == v >= LastDone(c, m, BodyActions)
BodyLeft(r, m) ==
    Writing(r) /\ \E j \in 1 .. Len(todo[r]) : todo[r][j].msg = m /\ todo[r][j].action = "update"

BodiesOK ==
    /\ \A m \in Messages : body[m] # 0 => Does(body[m], m, BodyActions)
    /\ \A q \in Readers, m \in Messages :
         fetched[q][m] # 0 => Does(fetched[q][m], m, BodyActions)

AllFresh ==
    \A m \in Messages \ raced : body[m] # 0 =>
        /\ cursor # NoCursor => Fresh(cursor, m, body[m])
        /\ \A r \in Runners : pc[r] \in {"row", "tags", "body", "save"} =>
             Fresh(at[r] + 1, m, body[m]) \/ BodyLeft(r, m)
        /\ \A b \in Backfills : pc[b] # "idle" => Fresh(at[b], m, body[m])

FreshInv == CursorInv /\ LogOK /\ BodiesOK /\ AllFresh

LEMMA FreshWeakens ==
  ASSUME NEW c \in Nat, NEW e \in Nat, e <= c, NEW m, NEW v \in Nat, Fresh(c, m, v)
  PROVE  Fresh(e, m, v)
<1>1. LastDone(e, m, BodyActions) <= LastDone(c, m, BodyActions)
  <2>1. PICK x, y : x = LastDone(e, m, BodyActions) /\ y = LastDone(c, m, BodyActions)
    OBVIOUS
  <2>2. /\ x \in 0 .. e /\ (x # 0 => Does(x, m, BodyActions)) /\ y \in 0 .. c
        /\ \A k \in 1 .. c : Does(k, m, BodyActions) => k <= y
    BY <2>1, LastDoneIs
  <2> QED
    BY <2>1, <2>2
<1>2. LastDone(e, m, BodyActions) \in Nat /\ LastDone(c, m, BodyActions) \in Nat
  BY LastDoneIs
<1> QED
  BY <1>1, <1>2 DEF Fresh

(* What a body was at its event, it still is: the log only grows.          *)
LEMMA FreshKept ==
  ASSUME LocalInv, \A i \in 1 .. Latest : log'[i] = log[i]
  PROVE  /\ \A i \in 1 .. Latest : \A m : Does(i, m, BodyActions)' <=> Does(i, m, BodyActions)
         /\ \A c \in 0 .. Latest : \A m, v :
              Fresh(c, m, v) => v >= LastDone(c, m, BodyActions)'
<1>0. Latest \in Nat
  BY Types DEF LocalInv
<1>1. ASSUME NEW c \in 0 .. Latest, NEW m, NEW v, Fresh(c, m, v)
      PROVE  v >= LastDone(c, m, BodyActions)'
  <2>1. c \in Nat /\ \A i \in 1 .. c : log'[i] = log[i]
    BY <1>0
  <2>2. LastDone(c, m, BodyActions)' = LastDone(c, m, BodyActions)
    BY <2>1, PastIsKept
  <2> QED
    BY <1>1, <2>2 DEF Fresh
<1> QED
  BY <1>1 DEF Does

(* Moving on to event n + 1: an update is among its writes, and before a   *)
(* create there is no body.                                                *)
LEMMA FreshNext ==
  ASSUME LocalInv, LogOK, NEW n \in 0 .. Latest, n + 1 \in 1 .. Latest,
         NEW m \in Messages, NEW v \in 1 .. Latest, Does(v, m, BodyActions), Fresh(n, m, v)
  PROVE  \/ Fresh(n + 1, m, v)
         \/ \E j \in 1 .. Len(Writes(n + 1)) :
              Writes(n + 1)[j].msg = m /\ Writes(n + 1)[j].action = "update"
<1>0. Latest \in Nat /\ n \in Nat
  BY Types DEF LocalInv
<1>1. CASE Does(n + 1, m, {"update"})
  <2>1. Does(n + 1, m, Actions)
    BY <1>1, DoesMore DEF Actions
  <2>2. PICK j \in 1 .. Len(Writes(n + 1)) : Writes(n + 1)[j].msg = m
    BY <2>1, WritesIs DEF LocalInv
  <2>3. FromEvent(Writes(n + 1)[j], n + 1)
    BY WritesIs DEF LocalInv
  <2> QED
    BY <1>1, <2>2, <2>3 DEF FromEvent
<1>2. CASE Does(n + 1, m, {"create"})
  <2>1. Does(v, m, Actions)
    BY DoesMore DEF BodyActions, Actions
  <2>2. v \notin 1 .. ((n + 1) - 1)
    BY <1>2, <2>1 DEF LogOK
  <2>3. v >= n + 1
    BY <1>0, <2>2
  <2>4. LastDone(n + 1, m, BodyActions) \in 0 .. (n + 1)
    BY <1>0, LastDoneIs
  <2> QED
    BY <1>0, <2>3, <2>4 DEF Fresh
<1>3. CASE ~Does(n + 1, m, {"update"}) /\ ~Does(n + 1, m, {"create"})
  <2>1. ~Does(n + 1, m, BodyActions)
    BY <1>3 DEF Does, BodyActions
  <2>2. PICK x : x = LastDone(n, m, BodyActions)
    OBVIOUS
  <2>3. /\ x \in 0 .. n /\ (x # 0 => Does(x, m, BodyActions))
        /\ \A k \in 1 .. n : Does(k, m, BodyActions) => k <= x
    BY <1>0, <2>2, LastDoneIs
  <2>4. x \in 0 .. (n + 1) /\ n + 1 \in Nat
        /\ \A k \in 1 .. (n + 1) : Does(k, m, BodyActions) => k <= x
    BY <1>0, <2>1, <2>3
  <2>5. LastDone(n + 1, m, BodyActions) = x
    BY <2>3, <2>4, LastDoneIsUnique
  <2> QED
    BY <2>2, <2>5 DEF Fresh
<1> QED
  BY <1>1, <1>2, <1>3

(* A run's writes change no body, but drop it.                             *)
LEMMA BodyWrites ==
  ASSUME LocalInv, NEW w \in Writers, Write(w), NEW m \in Messages
  PROVE  \/ body'[m] = 0
         \/ body'[m] = body[m] /\ (BodyLeft(w, m) => BodyLeft(w, m)')
<1> DEFINE d == todo[w][1]
<1>0. /\ body \in [Messages -> 0 .. Latest] /\ todo \in [Writers -> Seq(WriteOf)]
      /\ pc \in [Writers -> PCs] /\ Writing(w) /\ todo[w] # <<>> /\ Local(w) /\ LocalInv
  <2>1. Writing(w)
    BY DEF Write, WriteRow, WriteTags, InvalidateBodyCache, Writing
  <2> QED
    BY <2>1, Types DEF LocalInv, Local
<1>1. d \in WriteOf /\ d.msg \in Messages
  BY <1>0, TailIs, WriteIs, Types DEF LocalInv
(* The writes move up by one.                                              *)
<1>2. ASSUME Done(w), BodyLeft(w, m), ~(d.msg = m /\ d.action = "update")
      PROVE  BodyLeft(w, m)'
  <2>1. todo'[w] = Tail(todo[w]) /\ (Len(todo[w]) > 1 => pc'[w] = "row")
    BY <1>0, <1>2 DEF Done, Goto
  <2>2. Len(todo[w]) \in Nat /\ Len(Tail(todo[w])) = Len(todo[w]) - 1
        /\ \A j \in 1 .. Len(Tail(todo[w])) : Tail(todo[w])[j] = todo[w][j + 1]
    BY <1>0, TailIs
  <2>3. PICK j \in 1 .. Len(todo[w]) : todo[w][j].msg = m /\ todo[w][j].action = "update"
    BY <1>2 DEF BodyLeft
  <2>4. j # 1
    BY <1>2, <2>3
  <2>5. j - 1 \in 1 .. Len(Tail(todo[w])) /\ (j - 1) + 1 = j /\ Len(todo[w]) > 1
    BY <2>2, <2>4
  <2>6. Tail(todo[w])[j - 1] = todo[w][j]
    BY <2>2, <2>5
  <2> QED
    BY <2>1, <2>3, <2>5, <2>6 DEF BodyLeft, Writing
<1>3. CASE WriteRow(w)
  <2>1. CASE d.action = "delete"
    <3>1. body' = [body EXCEPT ![d.msg] = 0] /\ Done(w)
      BY <1>3, <2>1 DEF WriteRow, None
    <3> HIDE DEF d
    <3> QED
      BY <1>0, <1>1, <1>2, <2>1, <3>1
  <2>2. CASE d.action # "delete"
    <3>1. body' = body /\ todo' = todo /\ pc'[w] = "tags"
      BY <1>0, <1>3, <2>2 DEF WriteRow, Goto
    <3> QED
      BY <3>1 DEF BodyLeft, Writing
  <2> QED
    BY <2>1, <2>2
<1>4. CASE WriteTags(w)
  <2>1. CASE d.action = "update"
    <3>1. body' = body /\ todo' = todo /\ pc'[w] = "body"
      BY <1>0, <1>4, <2>1 DEF WriteTags, ChangesBody, Goto
    <3> QED
      BY <3>1 DEF BodyLeft, Writing
  <2>2. CASE d.action # "update"
    <3>1. body' = body /\ Done(w)
      BY <1>4, <2>2 DEF WriteTags, ChangesBody
    <3> QED
      BY <1>2, <2>2, <3>1
  <2> QED
    BY <2>1, <2>2
<1>5. CASE InvalidateBodyCache(w)
  <2>1. body' = [body EXCEPT ![d.msg] = 0] /\ Done(w)
    BY <1>5 DEF InvalidateBodyCache, None
  <2> HIDE DEF d
  <2> QED
    BY <1>0, <1>1, <1>2, <2>1
<1> QED
  BY <1>3, <1>4, <1>5 DEF Write

LEMMA RaceIs ==
  ASSUME Record, NEW m \in Messages, m \notin raced'
  PROVE  m \notin raced /\ \A q \in Readers : fetched[q][m] # 0 => fetched[q][m] = BodyAt(Latest, m)
  BY DEF Record, None

(* A step of no writer: a body is kept, or set as fresh as can be.         *)
LEMMA ElseFresh ==
  ASSUME FreshInv, CursorInv', LogOK', UNCHANGED <<cursor, pc, at, todo>>, Latest' >= Latest,
         \A i \in 1 .. Latest : log'[i] = log[i],
         \A m \in Messages : m \notin raced' =>
           /\ m \notin raced
           /\ \/ body'[m] \in {0, body[m]}
              \/ \A c \in 0 .. Latest : Fresh(c, m, body'[m]),
         \A m \in Messages :
           body'[m] # 0 => body'[m] \in 1 .. Latest /\ Does(body'[m], m, BodyActions),
         \A q \in Readers, m \in Messages : fetched'[q][m] # 0 =>
           fetched'[q][m] \in 1 .. Latest /\ Does(fetched'[q][m], m, BodyActions)
  PROVE  FreshInv'
<1>0. /\ LocalInv /\ Latest \in Nat /\ at \in [Writers -> 0 .. Latest]
      /\ upto \in [Writers -> 0 .. Latest] /\ cursor \in NoCursor .. Latest
      /\ \A r \in Runners : Local(r) /\ at[r] \in 0 .. Latest /\ upto[r] \in 0 .. Latest
      /\ \A b \in Backfills : at[b] \in 0 .. Latest
  BY Types DEF FreshInv, CursorInv, LocalInv, Writers
<1>1. /\ \A i \in 1 .. Latest : \A m : Does(i, m, BodyActions)' <=> Does(i, m, BodyActions)
      /\ \A c \in 0 .. Latest : \A m, v : Fresh(c, m, v) => v >= LastDone(c, m, BodyActions)'
  BY <1>0, FreshKept
<1>2. BodiesOK'
  BY <1>1 DEF BodiesOK
<1>3. AllFresh'
  <2> SUFFICES ASSUME NEW m \in Messages, m \notin raced', body'[m] # 0
               PROVE  /\ cursor' # NoCursor => Fresh(cursor, m, body[m])'
                      /\ \A r \in Runners : pc'[r] \in {"row", "tags", "body", "save"} =>
                           Fresh(at[r] + 1, m, body[m])' \/ BodyLeft(r, m)'
                      /\ \A b \in Backfills : pc'[b] # "idle" => Fresh(at[b], m, body[m])'
    BY DEF AllFresh
  <2>1. \/ body'[m] = body[m] /\ m \notin raced
        \/ \A c \in 0 .. Latest : Fresh(c, m, body'[m])
    OBVIOUS
  <2>2. \A r : BodyLeft(r, m)' <=> BodyLeft(r, m)
    BY DEF BodyLeft, Writing
  <2>3. cursor' # NoCursor => Fresh(cursor, m, body[m])'
    <3> SUFFICES ASSUME cursor # NoCursor PROVE Fresh(cursor, m, body[m])'
      OBVIOUS
    <3>1. cursor \in 0 .. Latest
      BY <1>0, Numbers
    <3>2. Fresh(cursor, m, body'[m])
      BY <2>1, <3>1 DEF FreshInv, AllFresh
    <3>3. body'[m] >= LastDone(cursor, m, BodyActions)'
      <4>1. PICK c \in 0 .. Latest : c = cursor
        BY <3>1
      <4>2. Fresh(c, m, body'[m])
        BY <3>2, <4>1
      <4>3. body'[m] >= LastDone(c, m, BodyActions)'
        BY <1>1, <4>2
      <4>4. c = cursor'
        BY <4>1
      <4> QED
        BY <4>3, <4>4 DEF LastDone, Does
    <3> QED
      BY <3>3 DEF Fresh
  <2>4. ASSUME NEW r \in Runners, pc'[r] \in {"row", "tags", "body", "save"}
        PROVE  Fresh(at[r] + 1, m, body[m])' \/ BodyLeft(r, m)'
    <3>1. at[r] + 1 \in 0 .. Latest
      BY <1>0, <2>4 DEF Local, Writing
    <3>2. PICK c \in 0 .. Latest : c = at[r] + 1
      BY <3>1
    <3>3. Fresh(c, m, body'[m]) \/ BodyLeft(r, m)'
      BY <2>1, <2>2, <2>4, <3>2 DEF FreshInv, AllFresh
    <3>4. body'[m] >= LastDone(c, m, BodyActions)' \/ BodyLeft(r, m)'
      BY <1>1, <3>3
    <3>5. c = at'[r] + 1
      BY <3>2
    <3> QED
      BY <3>4, <3>5 DEF Fresh, LastDone, Does
  <2>5. ASSUME NEW b \in Backfills, pc'[b] # "idle" PROVE Fresh(at[b], m, body[m])'
    <3>1. PICK c \in 0 .. Latest : c = at[b]
      BY <1>0
    <3>2. Fresh(c, m, body'[m])
      BY <2>1, <2>5, <3>1 DEF FreshInv, AllFresh
    <3>3. body'[m] >= LastDone(c, m, BodyActions)'
      BY <1>1, <3>2
    <3>4. c = at'[b]
      BY <3>1
    <3> QED
      BY <3>3, <3>4 DEF Fresh, LastDone, Does
  <2> QED
    BY <2>3, <2>4, <2>5
<1> QED
  BY <1>2, <1>3 DEF FreshInv

(* One writer's step: what to show of it.                                  *)
LEMMA WriterFresh ==
  ASSUME FreshInv, CursorInv', Record, NEW w \in Writers, log' = log, fetched' = fetched,
         \A v \in Writers : v # w => pc'[v] = "idle",
         \A m \in Messages : body'[m] \in {0, body[m]},
         \A m \in Messages : m \notin raced /\ body'[m] # 0 =>
           /\ cursor' # NoCursor => Fresh(cursor', m, body'[m])
           /\ w \in Runners /\ pc'[w] \in {"row", "tags", "body", "save"} =>
                Fresh(at'[w] + 1, m, body'[m]) \/ BodyLeft(w, m)'
           /\ w \in Backfills /\ pc'[w] # "idle" => Fresh(at'[w], m, body'[m])
  PROVE  FreshInv'
<1>0. LocalInv /\ LogOK /\ Latest' = Latest
  BY DEF FreshInv, CursorInv, Latest
<1>1. LogOK'
  BY <1>0, SameLog
<1>2. \A i, m, acts : Does(i, m, acts)' <=> Does(i, m, acts)
  BY DEF Does
<1>3. BodiesOK'
  BY <1>2 DEF BodiesOK, FreshInv
<1>4. \A c, m, v : Fresh(c, m, v)' <=> Fresh(c, m, v)
  <2> TAKE c, m, v
  <2> DEFINE S == {i \in 1 .. c : Does(i, m, BodyActions)}
             P == {i \in 1 .. c : Does(i, m, BodyActions)'}
             Most(X) == IF X = {} THEN None ELSE CHOOSE i \in X : \A k \in X : k <= i
  <2>1. S = P
    BY <1>2
  <2>2. LastDone(c, m, BodyActions) = Most(S) /\ LastDone(c, m, BodyActions)' = Most(P)
    BY DEF LastDone
  <2> HIDE DEF S, P, Most
  <2> QED
    BY <2>1, <2>2 DEF Fresh
<1>5. AllFresh'
  <2> SUFFICES ASSUME NEW m \in Messages, m \notin raced', body'[m] # 0
               PROVE  /\ cursor' # NoCursor => Fresh(cursor, m, body[m])'
                      /\ \A r \in Runners : pc'[r] \in {"row", "tags", "body", "save"} =>
                           Fresh(at[r] + 1, m, body[m])' \/ BodyLeft(r, m)'
                      /\ \A b \in Backfills : pc'[b] # "idle" => Fresh(at[b], m, body[m])'
    BY DEF AllFresh
  <2>1. m \notin raced
    BY RaceIs
  <2>2. \A r \in Runners : pc'[r] \in {"row", "tags", "body", "save"} => r = w
    BY DEF Writers
  <2>3. \A b \in Backfills : pc'[b] # "idle" => b = w
    BY DEF Writers
  <2>4. PICK c, x, v : c = cursor' /\ x = at'[w] /\ v = body'[m]
    OBVIOUS
  <2>5. /\ c # NoCursor => Fresh(c, m, v)'
        /\ w \in Runners /\ pc'[w] \in {"row", "tags", "body", "save"} =>
             Fresh(x + 1, m, v)' \/ BodyLeft(w, m)'
        /\ w \in Backfills /\ pc'[w] # "idle" => Fresh(x, m, v)'
    BY <1>4, <2>1, <2>4
  <2>6. cursor' # NoCursor => Fresh(cursor, m, body[m])'
    BY <2>4, <2>5 DEF Fresh, LastDone, Does
  <2>7. w \in Runners /\ pc'[w] \in {"row", "tags", "body", "save"} =>
          Fresh(at[w] + 1, m, body[m])' \/ BodyLeft(w, m)'
    BY <2>4, <2>5 DEF Fresh, LastDone, Does
  <2>8. w \in Backfills /\ pc'[w] # "idle" => Fresh(at[w], m, body[m])'
    BY <2>4, <2>5 DEF Fresh, LastDone, Does
  <2> QED
    BY <2>2, <2>3, <2>6, <2>7, <2>8
<1> QED
  BY <1>1, <1>3, <1>5 DEF FreshInv

(* A runner's step.                                                        *)
LEMMA RunFresh ==
  ASSUME FreshInv, CursorInv', Exclusive, NEW r \in Runners, RunOnce(r), Record
  PROVE  FreshInv'
<1>0. /\ r \in Writers /\ r \notin Backfills /\ CursorInv /\ LocalInv /\ LogOK /\ Latest \in Nat
      /\ Local(r) /\ at[r] \in 0 .. Latest /\ upto[r] \in 0 .. Latest
      /\ cursor \in NoCursor .. Latest /\ RunSound(r) /\ Empty
      /\ body \in [Messages -> 0 .. Latest]
  BY Types, SyncAssumption DEF FreshInv, CursorInv, LocalInv, Writers
<1>1. /\ log' = log /\ Latest' = Latest /\ Others(r)
      /\ pc[r] # "idle" \/ MayStart(r)
  BY <1>0, WriterLogs
<1>2. \A v \in Writers : v # r => pc[v] = "idle" /\ pc'[v] = "idle"
  BY <1>0, <1>1, Alone
<1>3. fetched' = fetched
  BY DEF RunOnce, Begin, Seed, Fetch, Write, WriteRow, WriteTags, InvalidateBodyCache, SaveCursor
<1>4. \A m \in Messages : m \notin raced /\ body[m] # 0 =>
        /\ body[m] \in 1 .. Latest /\ Does(body[m], m, BodyActions)
        /\ cursor # NoCursor => Fresh(cursor, m, body[m])
        /\ pc[r] \in {"row", "tags", "body", "save"} =>
             Fresh(at[r] + 1, m, body[m]) \/ BodyLeft(r, m)
  BY <1>0 DEF FreshInv, AllFresh, BodiesOK
(* What is left is the run's own part.                                     *)
<1>5. ASSUME \A m \in Messages : body'[m] \in {0, body[m]},
             \A m \in Messages : m \notin raced /\ body'[m] # 0 =>
               /\ cursor' # NoCursor => Fresh(cursor', m, body'[m])
               /\ pc'[r] \in {"row", "tags", "body", "save"} =>
                    Fresh(at'[r] + 1, m, body'[m]) \/ BodyLeft(r, m)'
      PROVE  FreshInv'
  BY <1>0, <1>1, <1>2, <1>3, <1>5, WriterFresh
(* It takes up the event after n.                                          *)
<1>6. ASSUME NEW n \in 0 .. Latest, n + 1 \in 1 .. Latest, at'[r] = n, pc'[r] = "row",
             todo'[r] = Writes(n + 1), body' = body, NEW m \in Messages, m \notin raced,
             body[m] # 0, Fresh(n, m, body[m])
      PROVE  Fresh(at'[r] + 1, m, body'[m]) \/ BodyLeft(r, m)'
  <2>1. CASE Fresh(n + 1, m, body[m])
    BY <1>6, <2>1
  <2>2. CASE \E j \in 1 .. Len(Writes(n + 1)) :
               Writes(n + 1)[j].msg = m /\ Writes(n + 1)[j].action = "update"
    BY <1>6, <2>2 DEF BodyLeft, Writing
  <2> QED
    BY <1>0, <1>4, <1>6, <2>1, <2>2, FreshNext
<1>7. CASE Begin(r)
  <2>1. UNCHANGED <<body, cursor>> /\ pc'[r] \in {"seed", "fetch"}
    BY <1>0, <1>7, BeginIs
  <2> QED
    BY <1>4, <1>5, <2>1
<1>8. CASE Seed(r)
  <2>1. pc[r] = "seed" /\ body' = body
    BY <1>8 DEF Seed, mirrorVars
  <2>2. \A b \in Backfills : pc[b] = "idle"
    BY <1>0, <1>2 DEF Writers
  <2>3. \A m \in Messages : body[m] = 0
    BY <1>0, <2>1, <2>2, Types DEF RunSound, Empty, LocalInv
  <2> QED
    BY <1>5, <2>1, <2>3
<1>9. CASE Fetch(r)
  <2>1. /\ UNCHANGED <<body, cursor>> /\ pc[r] = "fetch"
        /\ \/ pc'[r] = "idle"
           \/ /\ pc'[r] = "row" /\ at'[r] = at[r] /\ at[r] + 1 \in 1 .. Latest
              /\ todo'[r] = Writes(at[r] + 1)
    BY <1>0, <1>9, FetchIs DEF Fetch
  <2>2. cursor = at[r] /\ cursor # NoCursor
    BY <1>0, <2>1, Numbers DEF RunSound
  <2>3. PICK n \in 0 .. Latest : n = at[r]
    BY <1>0
  <2>4. \A m \in Messages : m \notin raced /\ body'[m] # 0
          /\ pc'[r] \in {"row", "tags", "body", "save"} =>
               Fresh(at'[r] + 1, m, body'[m]) \/ BodyLeft(r, m)'
    BY <1>4, <1>6, <2>1, <2>2, <2>3
  <2> QED
    BY <1>4, <1>5, <2>1, <2>4
<1>10. CASE Write(r)
  <2>1. cursor' = cursor /\ at'[r] = at[r] /\ pc[r] \in {"row", "tags", "body"}
    BY <1>0, <1>10, WriteRowIs, WriteTagsIs, InvalidateIs DEF Write
  <2>2. \A m \in Messages : \/ body'[m] = 0
                            \/ body'[m] = body[m] /\ (BodyLeft(r, m) => BodyLeft(r, m)')
    BY <1>0, <1>10, BodyWrites
  <2> QED
    BY <1>4, <1>5, <2>1, <2>2
<1>11. CASE SaveCursor(r)
  <2>1. /\ body' = body /\ pc[r] = "save" /\ cursor' = at[r] + 1 /\ cursor' \in NoCursor .. Latest
        /\ \/ pc'[r] \in {"idle", "fetch"}
           \/ /\ pc'[r] = "row" /\ at'[r] = at[r] + 1 /\ at[r] + 2 \in 1 .. Latest
              /\ todo'[r] = Writes(at[r] + 2)
    BY <1>0, <1>11, SaveCursorIs
  <2>2. PICK n \in 0 .. Latest : n = at[r] + 1 /\ n + 1 = at[r] + 2
    BY <1>0, <2>1, Numbers
  <2>3. \A m \in Messages : m \notin raced /\ body[m] # 0 => Fresh(n, m, body[m])
    BY <1>4, <2>1, <2>2 DEF BodyLeft, Writing
  <2>4. \A m \in Messages : m \notin raced /\ body'[m] # 0
          /\ pc'[r] \in {"row", "tags", "body", "save"} =>
               Fresh(at'[r] + 1, m, body'[m]) \/ BodyLeft(r, m)'
    BY <1>6, <2>1, <2>2, <2>3
  <2> QED
    BY <1>5, <2>1, <2>2, <2>3, <2>4
<1> QED
  BY <1>7, <1>8, <1>9, <1>10, <1>11 DEF RunOnce

(* A backfill starts with no bodies, and writes none.                      *)
LEMMA BackfillFresh ==
  ASSUME FreshInv, CursorInv', Exclusive, CleanBackfill, NEW b \in Backfills,
         Capture(b) \/ Backfill(b), Record
  PROVE  FreshInv'
<1>0. /\ b \in Writers /\ b \notin Runners /\ CursorInv /\ LocalInv /\ LogOK /\ Latest \in Nat
      /\ Local(b) /\ at[b] \in 0 .. Latest /\ cursor \in NoCursor .. Latest
  BY Types, SyncAssumption DEF FreshInv, CursorInv, LocalInv, Writers
<1>1. /\ log' = log /\ Latest' = Latest /\ Others(b)
      /\ pc[b] # "idle" \/ MayStart(b)
  BY <1>0, WriterLogs
<1>2. \A v \in Writers : v # b => pc[v] = "idle" /\ pc'[v] = "idle"
  BY <1>0, <1>1, Alone
<1>3. fetched' = fetched
  BY DEF Capture, Backfill, Walk, Write, WriteRow, WriteTags, InvalidateBodyCache, SaveCaptured
<1>4. \A m \in Messages : m \notin raced /\ body[m] # 0 =>
        /\ cursor # NoCursor => Fresh(cursor, m, body[m])
        /\ pc[b] # "idle" => Fresh(at[b], m, body[m])
  BY DEF FreshInv, AllFresh
<1>5. ASSUME \A m \in Messages : body'[m] \in {0, body[m]},
             \A m \in Messages : m \notin raced /\ body'[m] # 0 =>
               /\ cursor' # NoCursor => Fresh(cursor', m, body'[m])
               /\ pc'[b] # "idle" => Fresh(at'[b], m, body'[m])
      PROVE  FreshInv'
  BY <1>0, <1>1, <1>2, <1>3, <1>5, WriterFresh
<1>6. CASE Capture(b)
  <2>1. body' = body /\ \A m \in Messages : row[m] = 0
    BY <1>0, <1>6, CaptureIs
  <2>2. \A m \in Messages : body[m] = 0
    BY <1>0, <2>1, Types DEF LocalInv
  <2> QED
    BY <1>5, <2>1, <2>2
<1>7. CASE Walk(b)
  <2>1. UNCHANGED <<body, cursor>> /\ at'[b] = at[b] /\ pc[b] = "walk"
    BY <1>0, <1>7, WalkIs
  <2> QED
    BY <1>4, <1>5, <2>1
<1>8. CASE Write(b)
  <2>1. cursor' = cursor /\ at'[b] = at[b] /\ pc[b] # "idle"
    BY <1>0, <1>8, WriteRowIs, WriteTagsIs, InvalidateIs DEF Write
  <2>2. \A m \in Messages : body'[m] \in {0, body[m]}
    BY <1>0, <1>8, BodyWrites
  <2> QED
    BY <1>4, <1>5, <2>1, <2>2
<1>9. CASE SaveCaptured(b)
  <2>1. body' = body /\ cursor' = at[b] /\ pc[b] = "save" /\ pc'[b] = "idle"
    BY <1>0, <1>9, ReturnIs DEF SaveCaptured, CapturedCursor, mirrorVars, LocalInv
  <2> QED
    BY <1>4, <1>5, <2>1
<1> QED
  BY <1>6, <1>7, <1>8, <1>9 DEF Backfill

(* mail_read caches a body it fetched: the current one, unless raced.      *)
LEMMA ReadFresh ==
  ASSUME FreshInv, CursorInv', NEW q \in Readers, NEW m \in Messages, Read(q, m), Record
  PROVE  FreshInv'
<1>0. /\ LocalInv /\ Latest \in Nat /\ body \in [Messages -> 0 .. Latest]
      /\ fetched \in [Readers -> [Messages -> 0 .. Latest]] /\ LogOK
      /\ UNCHANGED <<log, cursor, pc, at, todo>> /\ Latest' = Latest
  BY Types, ReadIs DEF FreshInv, CursorInv, LocalInv, Latest
<1>1. LogOK'
  BY <1>0, SameLog
<1>2. /\ \A n \in Messages : body[n] # 0 => body[n] \in 1 .. Latest /\ Does(body[n], n, BodyActions)
      /\ \A p \in Readers, n \in Messages : fetched[p][n] # 0 =>
           fetched[p][n] \in 1 .. Latest /\ Does(fetched[p][n], n, BodyActions)
  BY <1>0 DEF FreshInv, BodiesOK
<1>3. CASE FetchBody(q, m)
  <2>1. PICK x : x = BodyAt(Latest, m)
    OBVIOUS
  <2>2. x # 0 => x \in 1 .. Latest /\ Does(x, m, BodyActions)
    BY <1>0, <2>1, LastDoneIs DEF BodyAt, BodyActions, None
  <2>3. body' = body /\ fetched' = [fetched EXCEPT ![q][m] = x]
    BY <1>3, <2>1 DEF FetchBody, mirrorVars
  <2>4. \A p \in Readers, n \in Messages : fetched'[p][n] # 0 =>
          fetched'[p][n] \in 1 .. Latest /\ Does(fetched'[p][n], n, BodyActions)
    BY <1>0, <1>2, <2>2, <2>3
  <2>5. \A n \in Messages : n \notin raced' => n \notin raced /\ body'[n] \in {0, body[n]}
    BY <2>3, RaceIs
  <2> QED
    BY <1>0, <1>1, <1>2, <2>3, <2>4, <2>5, ElseFresh
<1>4. CASE SetCachedBody(q, m)
  <2>1. PICK x : x = fetched[q][m]
    OBVIOUS
  <2>2. x # 0 /\ x \in 1 .. Latest /\ Does(x, m, BodyActions)
    BY <1>2, <1>4, <2>1 DEF SetCachedBody, None
  <2>3. /\ body' = [body EXCEPT ![m] = IF row[m] = None THEN None ELSE x]
        /\ fetched' = [fetched EXCEPT ![q][m] = 0]
    BY <1>4, <2>1 DEF SetCachedBody, None
  <2>4. \A p \in Readers, n \in Messages : fetched'[p][n] # 0 =>
          fetched'[p][n] \in 1 .. Latest /\ Does(fetched'[p][n], n, BodyActions)
    BY <1>0, <1>2, <2>3
  <2>5. body'[m] \in {0, x} /\ \A n \in Messages : n # m => body'[n] = body[n]
    BY <1>0, <2>3 DEF None
  <2>6. \A n \in Messages :
          body'[n] # 0 => body'[n] \in 1 .. Latest /\ Does(body'[n], n, BodyActions)
    BY <1>2, <2>2, <2>5
  <2>7. ASSUME m \notin raced', NEW c \in 0 .. Latest PROVE Fresh(c, m, x)
    <3>1. x = BodyAt(Latest, m)
      BY <2>1, <2>2, <2>7, RaceIs
    <3>2. x = LastDone(Latest, m, BodyActions)
      BY <2>2, <3>1 DEF BodyAt, BodyActions, None
    <3>3. Fresh(Latest, m, x)
      BY <2>2, <3>2 DEF Fresh
    <3> QED
      BY <1>0, <2>2, <3>3, FreshWeakens
  <2>8. \A n \in Messages : n \notin raced' =>
          /\ n \notin raced
          /\ body'[n] \in {0, body[n]} \/ \A c \in 0 .. Latest : Fresh(c, n, body'[n])
    BY <2>5, <2>7, RaceIs
  <2> QED
    BY <1>0, <1>1, <2>4, <2>6, <2>8, ElseFresh
<1> QED
  BY <1>3, <1>4 DEF Read

LEMMA FreshInit ==
  ASSUME HInit PROVE FreshInv
<1>1. Init
  BY DEF HInit
<1>2. CursorInv
  BY <1>1, CursorInit
<1>3. Latest = 0
  BY <1>1, EmptySeq DEF Init, Latest
<1>4. \A m \in Messages : body[m] = 0 /\ \A q \in Readers : fetched[q][m] = 0
  BY <1>1, Numbers DEF Init
<1> QED
  BY <1>2, <1>3, <1>4 DEF FreshInv, LogOK, BodiesOK, AllFresh

LEMMA FreshKeeps ==
  ASSUME FreshInv, Exclusive, CleanBackfill, [HNext]_hvars PROVE FreshInv'
<1>0. /\ CursorInv /\ CursorInv' /\ LocalInv /\ LogOK /\ Latest \in Nat
      /\ body \in [Messages -> 0 .. Latest] /\ fetched \in [Readers -> [Messages -> 0 .. Latest]]
  BY CursorKeeps, Types DEF FreshInv, HNext, hvars, CursorInv, LocalInv
<1>1. /\ \A m \in Messages : body[m] # 0 => body[m] \in 1 .. Latest /\ Does(body[m], m, BodyActions)
      /\ \A q \in Readers, m \in Messages : fetched[q][m] # 0 =>
           fetched[q][m] \in 1 .. Latest /\ Does(fetched[q][m], m, BodyActions)
  BY <1>0 DEF FreshInv, BodiesOK
<1>2. ASSUME Emit, Record PROVE FreshInv'
  <2>1. /\ Latest' = Latest + 1 /\ \A i \in 1 .. Latest : log'[i] = log[i]
        /\ UNCHANGED <<cursor, pc, at, todo, body, fetched>>
    BY <1>0, <1>2, EmitIs DEF LocalInv
  <2>2. LogOK'
    BY <1>0, <1>2, EmitKeepsLog
  <2>3. \A m \in Messages : m \notin raced' => m \notin raced
    BY <1>2, RaceIs
  <2>4. Latest' >= Latest
    BY <1>0, <2>1
  <2> QED
    BY <1>0, <1>1, <2>1, <2>2, <2>3, <2>4, ElseFresh
<1>3. ASSUME UNCHANGED <<log, cursor, pc, at, todo, body, fetched>>,
             \A m \in Messages : m \notin raced' => m \notin raced
      PROVE  FreshInv'
  <2>1. LogOK' /\ Latest' = Latest
    BY <1>0, <1>3, SameLog
  <2> QED
    BY <1>0, <1>1, <1>3, <2>1, ElseFresh
<1>4. ASSUME Expire, Record PROVE FreshInv'
  BY <1>3, <1>4, RaceIs DEF Expire, mirrorVars, writerVars
<1>5. ASSUME NEW w \in Writers, Abort(w), Record PROVE FreshInv'
  <2>1. /\ UNCHANGED <<log, body, cursor, fetched>> /\ Return(w) /\ pc[w] # "idle"
    BY <1>5 DEF Abort, serverVars, mirrorVars
  <2>2. Others(w) /\ pc'[w] = "idle"
    BY <1>0, <2>1, ReturnIs DEF LocalInv
  <2>3. \A v \in Writers : pc'[v] = "idle"
    BY <1>0, <2>1, <2>2, Alone
  <2>4. \A m \in Messages : m \notin raced /\ body[m] # 0 =>
          (cursor # NoCursor => Fresh(cursor, m, body[m]))
    BY DEF FreshInv, AllFresh
  <2> QED
    BY <1>0, <1>5, <2>1, <2>2, <2>3, <2>4, WriterFresh
<1>6. ASSUME NEW r \in Runners, RunOnce(r), Record PROVE FreshInv'
  BY <1>0, <1>6, RunFresh
<1>7. ASSUME NEW b \in Backfills, Capture(b) \/ Backfill(b), Record PROVE FreshInv'
  BY <1>0, <1>7, BackfillFresh
<1>8. ASSUME NEW q \in Readers, NEW m \in Messages, Read(q, m), Record PROVE FreshInv'
  BY <1>0, <1>8, ReadFresh
<1>9. CASE UNCHANGED hvars
  BY <1>3, <1>9 DEF hvars, vars, serverVars, mirrorVars, writerVars
<1> QED
  BY <1>2, <1>4, <1>5, <1>6, <1>7, <1>8, <1>9 DEF HNext, Next

(* sync.go drops a cached body when it applies an update, and only then:   *)
(* mail_read never serves one older than the mirror's cursor, however the  *)
(* fetches, runs and cut-off runs interleave, but for a body that a        *)
(* mail_read had fetched before the update.  For any messages, readers and *)
(* log.                                                                    *)
THEOREM BodiesAreCurrent ==
  ASSUME Exclusive, CleanBackfill
  PROVE  HSpec => []CachedBodyCurrent
<1>1. HInit => FreshInv
  BY FreshInit
<1>2. FreshInv /\ [HNext]_hvars => FreshInv'
  BY FreshKeeps
<1>3. FreshInv => CachedBodyCurrent
  <2> SUFFICES ASSUME FreshInv, NEW m \in Messages \ raced, body[m] # 0, cursor # NoCursor
               PROVE  body[m] >= BodyAt(cursor, m)
    BY DEF CachedBodyCurrent, None
  <2>1. Fresh(cursor, m, body[m])
    BY DEF FreshInv, AllFresh
  <2>2. body[m] \in Nat
    BY Types DEF FreshInv, CursorInv, LocalInv
  <2> QED
    BY <2>1, <2>2 DEF Fresh, BodyAt, None, BodyActions
<1> QED
  BY <1>1, <1>2, <1>3, PTL DEF HSpec
=============================================================================
