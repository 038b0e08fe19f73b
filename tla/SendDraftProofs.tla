-------------------------- MODULE SendDraftProofs --------------------------
(***************************************************************************)
(* Proofs about SendDraft, for any number of senders, updaters, composers, *)
(* drafts and entries.  The mutex comes first: its map and its counters    *)
(* are right, so two handlers never work on one draft; what is sent and    *)
(* what is kept follows from that.                                         *)
(***************************************************************************)
EXTENDS SendDraft, TLAPS, FiniteSetTheorems

(* A call is between its lookup and its drop. *)
Locking(p) == step[p] \in {"wait", "drop"} \/ InHandler(p)

(* Nobody finds an entry that is not in the map, and each entry is in the  *)
(* map once.                                                               *)
OneEntry ==
    /\ \A p \in Procs : uses[p] # NoEntry <=> Locking(p)
    /\ \A d, k \in Keys : registry[d] = registry[k] /\ registry[d] # NoEntry => d = k

HolderIsHandler ==
    \A e \in Entries, p \in Procs : holder[e] = p <=> InHandler(p) /\ uses[p] = e

(* A call works on a draft that was created. *)
DraftsExist ==
    /\ \A p \in Procs : step[p] # "idle" => draft[p] \in exists
    /\ \A c \in Composers : made[c].key \subseteq exists
    /\ \A d \in Keys \ exists : content[d] = {}

LockInv == TypeOK /\ OneEntry /\ OneLockPerDraft /\ HolderIsHandler /\ DraftsExist

USE SendDraftAssumption, KeyedMutexAssumption
USE DEF Callers, Steps

----------------------------------------------------------------------------
(* The mutex alone. *)

LEMMA UsersFinite ==
  ASSUME NEW e PROVE IsFiniteSet(Users(e)) /\ Cardinality(Users(e)) \in Nat
<1>1. Users(e) \subseteq Procs
  BY DEF Users
<1> QED
  BY <1>1, FS_Subset, FS_CardinalityType

LEMMA InitLock == Init => LockInv
<1> SUFFICES ASSUME Init PROVE LockInv
  OBVIOUS
<1> USE DEF Init, KMInit
<1>1. TypeOK
  BY DEF TypeOK, KMTypeOK, Nothing
<1>2. OneEntry /\ OneLockPerDraft /\ HolderIsHandler
  BY DEF OneEntry, OneLockPerDraft, HolderIsHandler, Locking, InHandler
<1>3. DraftsExist
  BY DEF DraftsExist, Nothing
<1> QED
  BY <1>1, <1>2, <1>3 DEF LockInv

(* A step that leaves the mutex alone and no handler. *)
LEMMA KeepsLock ==
  ASSUME OneEntry, OneLockPerDraft, HolderIsHandler,
         UNCHANGED <<kmVars, draft>>,
         \A p \in Procs : /\ Locking(p)' <=> Locking(p)
                          /\ InHandler(p)' <=> InHandler(p)
  PROVE  OneEntry' /\ OneLockPerDraft' /\ HolderIsHandler'
<1>1. \A e : Users(e)' = Users(e)
  BY DEF Users, kmVars
<1>2. OneEntry'
  BY DEF OneEntry, kmVars
<1>3. OneLockPerDraft'
  BY <1>1 DEF OneLockPerDraft, kmVars
<1>4. HolderIsHandler'
  BY DEF HolderIsHandler, kmVars
<1> QED
  BY <1>2, <1>3, <1>4

(* One more user, one user less. *)
LEMMA UserAdded ==
  ASSUME NEW S, NEW T, NEW x, IsFiniteSet(S), x \notin S, T = S \cup {x}
  PROVE  Cardinality(T) = Cardinality(S) + 1
  BY FS_AddElement

LEMMA UserGone ==
  ASSUME NEW S, NEW T, NEW x, IsFiniteSet(S), x \in S, T = S \ {x}
  PROVE  IsFiniteSet(T) /\ Cardinality(T) = Cardinality(S) - 1
  BY FS_RemoveElement

LEMMA EnterKeepsLock ==
  ASSUME LockInv, NEW p \in Procs, EnterLock(p) PROVE LockInv'
<1>0. /\ TypeOK /\ OneEntry /\ OneLockPerDraft /\ HolderIsHandler /\ DraftsExist
      /\ draft[p] \in Keys /\ uses[p] = NoEntry /\ step[p] = "enter"
  BY DEF LockInv, TypeOK, EnterLock, Lookup
<1> DEFINE k == draft[p]
<1>1. PICK e \in Entries :
         /\ IF registry[k] = NoEntry THEN Garbage(e) ELSE e = registry[k]
         /\ registry' = [registry EXCEPT ![k] = e]
         /\ refs' = [refs EXCEPT ![e] = 1 + IF registry[k] = NoEntry THEN 0 ELSE @]
         /\ uses' = [uses EXCEPT ![p] = e]
  BY DEF EnterLock, Lookup
<1>2. /\ holder' = holder /\ step' = [step EXCEPT ![p] = "wait"]
      /\ UNCHANGED <<draft, asks, exists, made, content, sent, shown, fetched>>
  BY DEF EnterLock, Lookup, Goto
<1>3. TypeOK'
  BY <1>0, <1>1, <1>2 DEF TypeOK, KMTypeOK
<1>4. /\ \A q \in Procs : q # p => step'[q] = step[q] /\ uses'[q] = uses[q]
      /\ step'[p] = "wait" /\ uses'[p] = e /\ e # NoEntry
  BY <1>0, <1>1, <1>2 DEF TypeOK, KMTypeOK
<1>5. /\ \A d \in Keys : d # k => registry'[d] = registry[d] /\ registry[d] # e
      /\ registry'[k] = e
  BY <1>0, <1>1 DEF OneEntry, Garbage, TypeOK, KMTypeOK
<1>6. /\ \A f \in Entries : f # e => refs'[f] = refs[f] /\ Users(f)' = Users(f)
      /\ Users(e)' = Users(e) \cup {p} /\ p \notin Users(e)
  <2>1. \A f \in Entries : f # e => refs'[f] = refs[f]
    BY <1>0, <1>1 DEF TypeOK, KMTypeOK
  <2>2. \A f \in Entries : f # e => Users(f)' = Users(f)
    BY <1>0, <1>4 DEF Users
  <2>3. Users(e)' = Users(e) \cup {p} /\ p \notin Users(e)
    BY <1>0, <1>4 DEF Users
  <2> QED
    BY <2>1, <2>2, <2>3
<1>7. OneEntry'
  BY <1>0, <1>2, <1>4, <1>5 DEF OneEntry, Locking, InHandler
<1>8. refs'[e] = Cardinality(Users(e)') /\ refs'[e] > 0
  <2>1. Cardinality(Users(e)') = Cardinality(Users(e)) + 1
    BY <1>6, UsersFinite, UserAdded
  <2>2. CASE registry[k] = NoEntry
    <3>1. Cardinality(Users(e)) = 0
      BY <1>1, <2>2, FS_EmptySet DEF Garbage, Users
    <3>2. refs'[e] = 1
      BY <1>0, <1>1, <2>2 DEF TypeOK, KMTypeOK
    <3> QED
      BY <2>1, <3>1, <3>2
  <2>3. CASE registry[k] # NoEntry
    <3>1. refs[e] = Cardinality(Users(e))
      BY <1>0, <1>1, <2>3 DEF OneLockPerDraft
    <3>2. refs'[e] = 1 + refs[e]
      BY <1>0, <1>1, <2>3 DEF TypeOK, KMTypeOK
    <3> QED
      BY <2>1, <3>1, <3>2, UsersFinite
  <2> QED
    BY <2>2, <2>3
<1>9. \A d \in Keys, f \in Entries :
         registry'[d] = f => refs'[f] = Cardinality(Users(f)') /\ refs'[f] > 0
  <2> SUFFICES ASSUME NEW d \in Keys, NEW f \in Entries, registry'[d] = f
               PROVE  refs'[f] = Cardinality(Users(f)') /\ refs'[f] > 0
    OBVIOUS
  <2>1. CASE d = k
    BY <2>1, <1>5, <1>8
  <2>2. CASE d # k
    <3>1. f = registry[d] /\ f # e /\ f # NoEntry
      BY <2>2, <1>5
    <3>2. refs[f] = Cardinality(Users(f)) /\ refs[f] > 0
      BY <3>1, <1>0 DEF OneLockPerDraft
    <3> QED
      BY <3>1, <3>2, <1>6
  <2> QED
    BY <2>1, <2>2
<1>10. \A q \in Procs : uses'[q] # NoEntry => registry'[draft[q]] = uses'[q]
  BY <1>0, <1>1, <1>4, <1>5 DEF OneLockPerDraft, TypeOK
<1>11. OneLockPerDraft'
  BY <1>2, <1>3, <1>9, <1>10 DEF OneLockPerDraft, TypeOK, KMTypeOK, Users
<1>12. HolderIsHandler'
  BY <1>0, <1>2, <1>4 DEF HolderIsHandler, InHandler
<1>13. DraftsExist'
  BY <1>0, <1>2, <1>4 DEF DraftsExist
<1> QED
  BY <1>3, <1>7, <1>11, <1>12, <1>13 DEF LockInv

LEMMA DropKeepsLock ==
  ASSUME LockInv, NEW p \in Procs, DropLock(p) PROVE LockInv'
<1>0. /\ TypeOK /\ OneEntry /\ OneLockPerDraft /\ HolderIsHandler /\ DraftsExist
      /\ draft[p] \in Keys /\ step[p] = "drop"
  BY DEF LockInv, TypeOK, DropLock
<1> DEFINE k == draft[p]
<1>1. PICK e \in Entries : e = uses[p] /\ registry[k] = e
  BY <1>0 DEF DropLock, Drop, OneLockPerDraft, TypeOK, KMTypeOK
<1>2. /\ refs' = [refs EXCEPT ![e] = refs[e] - 1]
      /\ registry' = IF refs[e] - 1 = 0 THEN [registry EXCEPT ![k] = NoEntry] ELSE registry
      /\ uses' = [uses EXCEPT ![p] = NoEntry]
      /\ holder' = holder /\ step' = [step EXCEPT ![p] = "over"]
      /\ UNCHANGED <<draft, asks, exists, made, content, sent, shown, fetched>>
  BY <1>1 DEF DropLock, Drop, Goto, LastUser, RefsAfter
<1>3. refs[e] = Cardinality(Users(e)) /\ refs[e] > 0 /\ refs[e] \in Nat
  BY <1>0, <1>1 DEF OneLockPerDraft, TypeOK, KMTypeOK
<1>4. TypeOK'
  <2>1. refs' \in [Entries -> Nat]
    BY <1>0, <1>2, <1>3 DEF TypeOK, KMTypeOK
  <2>2. registry' \in [Keys -> Entries \cup {NoEntry}]
    BY <1>0, <1>2 DEF TypeOK, KMTypeOK
  <2> QED
    BY <2>1, <2>2, <1>0, <1>2 DEF TypeOK, KMTypeOK
<1>5. /\ \A q \in Procs : q # p => step'[q] = step[q] /\ uses'[q] = uses[q]
      /\ step'[p] = "over" /\ uses'[p] = NoEntry /\ e # NoEntry
  BY <1>0, <1>2 DEF TypeOK, KMTypeOK
<1>6. /\ \A d \in Keys : d # k => registry'[d] = registry[d] /\ registry[d] # e
      /\ registry'[k] = IF refs[e] - 1 = 0 THEN NoEntry ELSE e
  BY <1>0, <1>1, <1>2, <1>5 DEF OneEntry, TypeOK, KMTypeOK
<1>7. OneEntry'
  BY <1>0, <1>2, <1>5, <1>6 DEF OneEntry, Locking, InHandler
<1>8. /\ \A f \in Entries : f # e => refs'[f] = refs[f] /\ Users(f)' = Users(f)
      /\ p \in Users(e) /\ Users(e)' = Users(e) \ {p}
      /\ refs'[e] = refs[e] - 1
  <2>1. /\ \A f \in Entries : f # e => refs'[f] = refs[f]
        /\ refs'[e] = refs[e] - 1
    BY <1>0, <1>2 DEF TypeOK, KMTypeOK
  <2>2. \A f \in Entries : f # e => Users(f)' = Users(f)
    BY <1>1, <1>5 DEF Users
  <2>3. p \in Users(e) /\ Users(e)' = Users(e) \ {p}
    BY <1>1, <1>5 DEF Users
  <2> QED
    BY <2>1, <2>2, <2>3
<1>9. IsFiniteSet(Users(e)') /\ Cardinality(Users(e)') = refs[e] - 1
  BY <1>3, <1>8, UsersFinite, UserGone
<1>10. \A d \in Keys, f \in Entries :
         registry'[d] = f => refs'[f] = Cardinality(Users(f)') /\ refs'[f] > 0
  <2> SUFFICES ASSUME NEW d \in Keys, NEW f \in Entries, registry'[d] = f
               PROVE  refs'[f] = Cardinality(Users(f)') /\ refs'[f] > 0
    OBVIOUS
  <2>1. CASE d = k
    <3>1. f = e /\ refs[e] - 1 # 0
      BY <2>1, <1>6
    <3> QED
      BY <3>1, <1>3, <1>8, <1>9
  <2>2. CASE d # k
    <3>1. f = registry[d] /\ f # e /\ f # NoEntry
      BY <2>2, <1>6
    <3>2. refs[f] = Cardinality(Users(f)) /\ refs[f] > 0
      BY <3>1, <1>0 DEF OneLockPerDraft
    <3> QED
      BY <3>1, <3>2, <1>8
  <2> QED
    BY <2>1, <2>2
<1>11. \A q \in Procs : uses'[q] # NoEntry => registry'[draft[q]] = uses'[q]
  <2> SUFFICES ASSUME NEW q \in Procs, q # p, uses[q] # NoEntry
               PROVE  registry'[draft[q]] = uses[q]
    BY <1>5
  <2>1. registry[draft[q]] = uses[q] /\ draft[q] \in Keys
    BY <1>0 DEF OneLockPerDraft, TypeOK
  <2>2. CASE draft[q] = k
    <3>1. q \in Users(e)'
      BY <2>1, <2>2, <1>1, <1>8 DEF Users
    <3>2. refs[e] - 1 # 0
      BY <3>1, <1>9, FS_EmptySet
    <3> QED
      BY <2>1, <2>2, <3>2, <1>1, <1>6
  <2>3. CASE draft[q] # k
    BY <2>1, <2>3, <1>6
  <2> QED
    BY <2>2, <2>3
<1>12. OneLockPerDraft'
  <2>1. draft' = draft /\ \A d \in Keys : registry'[d] \in Entries \cup {NoEntry}
    BY <1>2, <1>4 DEF TypeOK, KMTypeOK
  <2> QED
    BY <2>1, <1>10, <1>11 DEF OneLockPerDraft, Users
<1>13. HolderIsHandler'
  BY <1>0, <1>1, <1>2, <1>5 DEF HolderIsHandler, InHandler
<1>14. DraftsExist'
  BY <1>0, <1>2, <1>5 DEF DraftsExist
<1> QED
  BY <1>4, <1>7, <1>12, <1>13, <1>14 DEF LockInv

LEMMA TakeKeepsLock ==
  ASSUME LockInv, NEW p \in Procs, TakeLock(p) PROVE LockInv'
<1>0. /\ TypeOK /\ OneEntry /\ OneLockPerDraft /\ HolderIsHandler /\ DraftsExist
      /\ step[p] = "wait"
  BY DEF LockInv, TakeLock
<1>1. PICK e \in Entries : e = uses[p] /\ holder[e] = Nobody
  BY <1>0 DEF TakeLock, Acquire, Free, TypeOK, KMTypeOK
<1>2. /\ holder' = [holder EXCEPT ![e] = p]
      /\ UNCHANGED <<registry, refs, uses, draft, asks, exists, made, content,
                     sent, shown, fetched>>
      /\ step' = [step EXCEPT ![p] = "locked"]
  BY <1>1 DEF TakeLock, Acquire, Goto
<1>3. TypeOK'
  BY <1>0, <1>2 DEF TypeOK, KMTypeOK
<1>4. /\ \A q \in Procs : q # p => step'[q] = step[q]
      /\ step'[p] = "locked"
      /\ \A f \in Entries : holder'[f] = IF f = e THEN p ELSE holder[f]
  BY <1>0, <1>2 DEF TypeOK, KMTypeOK
<1>5. OneEntry'
  BY <1>0, <1>2, <1>4 DEF OneEntry, Locking, InHandler
<1>6. OneLockPerDraft'
  <2>1. \A f : Users(f)' = Users(f)
    BY <1>2 DEF Users
  <2> QED
    BY <2>1, <1>0, <1>2 DEF OneLockPerDraft
<1>7. HolderIsHandler'
  <2> SUFFICES ASSUME NEW f \in Entries, NEW q \in Procs
               PROVE  holder'[f] = q <=> InHandler(q)' /\ uses[q] = f
    BY <1>2 DEF HolderIsHandler
  <2>1. CASE q = p
    BY <2>1, <1>0, <1>1, <1>4 DEF HolderIsHandler, InHandler
  <2>2. CASE q # p /\ f = e
    BY <2>2, <1>0, <1>1, <1>4 DEF HolderIsHandler, InHandler
  <2>3. CASE q # p /\ f # e
    BY <2>3, <1>0, <1>4 DEF HolderIsHandler, InHandler
  <2> QED
    BY <2>1, <2>2, <2>3
<1>8. DraftsExist'
  BY <1>0, <1>2, <1>4 DEF DraftsExist
<1> QED
  BY <1>3, <1>5, <1>6, <1>7, <1>8 DEF LockInv

LEMMA ReleaseKeepsLock ==
  ASSUME LockInv, NEW p \in Procs, ReleaseLock(p) PROVE LockInv'
<1>0. /\ TypeOK /\ OneEntry /\ OneLockPerDraft /\ HolderIsHandler /\ DraftsExist
      /\ step[p] = "unlock"
  BY DEF LockInv, ReleaseLock
<1>1. PICK e \in Entries : e = uses[p] /\ holder[e] = p
  BY <1>0 DEF ReleaseLock, Release, TypeOK, KMTypeOK
<1>2. /\ holder' = [holder EXCEPT ![e] = Nobody]
      /\ UNCHANGED <<registry, refs, uses, draft, asks, exists, made, content,
                     sent, shown, fetched>>
      /\ step' = [step EXCEPT ![p] = "drop"]
  BY <1>1 DEF ReleaseLock, Release, Goto
<1>3. TypeOK'
  BY <1>0, <1>2 DEF TypeOK, KMTypeOK
<1>4. /\ \A q \in Procs : q # p => step'[q] = step[q]
      /\ step'[p] = "drop"
      /\ \A f \in Entries : holder'[f] = IF f = e THEN Nobody ELSE holder[f]
  BY <1>0, <1>2 DEF TypeOK, KMTypeOK
<1>5. OneEntry'
  BY <1>0, <1>2, <1>4 DEF OneEntry, Locking, InHandler
<1>6. OneLockPerDraft'
  <2>1. \A f : Users(f)' = Users(f)
    BY <1>2 DEF Users
  <2> QED
    BY <2>1, <1>0, <1>2 DEF OneLockPerDraft
<1>7. HolderIsHandler'
  <2> SUFFICES ASSUME NEW f \in Entries, NEW q \in Procs
               PROVE  holder'[f] = q <=> InHandler(q)' /\ uses[q] = f
    BY <1>2 DEF HolderIsHandler
  <2>1. CASE q = p
    BY <2>1, <1>0, <1>1, <1>4 DEF HolderIsHandler, InHandler
  <2>2. CASE q # p
    BY <2>2, <1>0, <1>1, <1>4 DEF HolderIsHandler, InHandler
  <2> QED
    BY <2>1, <2>2
<1>8. DraftsExist'
  BY <1>0, <1>2, <1>4 DEF DraftsExist
<1> QED
  BY <1>3, <1>5, <1>6, <1>7, <1>8 DEF LockInv

----------------------------------------------------------------------------
(* The steps that do not touch the mutex. *)

WebStep == \E d \in Keys, w \in WebEdits : WebEdit(d, w)

SoloStep(p) ==
    \/ p \in Procs /\ (StartAllowed(p) \/ HandlerFails(p))
    \/ p \in Senders /\ SenderStep(p)
    \/ p \in Updaters /\ UpdaterStep(p)

ComposerStep(c) ==
    Compose(c) \/ AttachFiles(c) \/ DraftReady(c) \/ SendComposed(c) \/ ComposeFails(c)

LEMMA NextCases ==
  ASSUME [Next]_vars
  PROVE  \/ WebStep
         \/ \E p \in Procs : SoloStep(p)
         \/ \E p \in Procs : EnterLock(p) \/ TakeLock(p) \/ ReleaseLock(p) \/ DropLock(p)
         \/ \E c \in Composers : ComposerStep(c)
         \/ UNCHANGED vars
  BY DEF Next, WebStep, SoloStep, HandlerStep, ComposerStep

LEMMA WebKeepsLock ==
  ASSUME LockInv, WebStep PROVE LockInv'
<1>0. /\ TypeOK /\ OneEntry /\ OneLockPerDraft /\ HolderIsHandler /\ DraftsExist
  BY DEF LockInv
<1>1. PICK d \in Keys, w \in WebEdits : WebEdit(d, w)
  BY DEF WebStep
<1>2. TypeOK'
  BY <1>0, <1>1 DEF WebEdit, TypeOK, KMTypeOK, kmVars, Edits
<1>3. OneEntry' /\ OneLockPerDraft' /\ HolderIsHandler'
  BY <1>0, <1>1, KeepsLock DEF WebEdit, Locking, InHandler
<1>4. DraftsExist'
  BY <1>0, <1>1 DEF WebEdit, DraftsExist, TypeOK
<1> QED
  BY <1>2, <1>3, <1>4 DEF LockInv

LEMMA SoloKeepsLock ==
  ASSUME LockInv, NEW p \in Procs, SoloStep(p) PROVE LockInv'
<1>0. /\ TypeOK /\ OneEntry /\ OneLockPerDraft /\ HolderIsHandler /\ DraftsExist
      /\ draft[p] \in Keys /\ p \in Callers
  BY DEF LockInv, TypeOK
<1>1. \A u \in Updaters : Fields(u) \in Edits /\ Files(u) \in Edits
  BY DEF Edits, OwnEdits, Authors
<1>2. PICK s \in Steps : step' = [step EXCEPT ![p] = s]
  BY DEF SoloStep, SenderStep, UpdaterStep, StartAllowed, HandlerFails, ShowDraft,
         Approve, Decline, VerifyDraft, Send, FetchCurrent, UpdateDraft,
         UploadFiles, Goto, AfterRefusal
<1>3. UNCHANGED <<kmVars, draft, asks, exists, made>>
  BY DEF SoloStep, SenderStep, UpdaterStep, StartAllowed, HandlerFails, ShowDraft,
         Approve, Decline, VerifyDraft, Send, FetchCurrent, UpdateDraft,
         UploadFiles
<1>4. /\ shown' \in [Senders -> SUBSET Edits]
      /\ fetched' \in [Procs -> SUBSET Edits]
  BY <1>0 DEF SoloStep, SenderStep, UpdaterStep, StartAllowed, HandlerFails, ShowDraft,
         Approve, Decline, VerifyDraft, Send, FetchCurrent, UpdateDraft,
         UploadFiles, TypeOK
<1>5. step[p] # "idle" \/ draft[p] \in exists
  BY DEF SoloStep, SenderStep, UpdaterStep, StartAllowed, HandlerFails, ShowDraft,
         Approve, Decline, VerifyDraft, Send, FetchCurrent, UpdateDraft,
         UploadFiles
<1>6. draft[p] \in exists
  BY <1>0, <1>5 DEF DraftsExist
<1>7. sent' \in SUBSET exists
  BY <1>0, <1>6 DEF SoloStep, SenderStep, UpdaterStep, StartAllowed, HandlerFails,
         ShowDraft, Approve, Decline, VerifyDraft, Send, FetchCurrent, UpdateDraft,
         UploadFiles, TypeOK
<1>8. \/ content' = content
      \/ \E S \in SUBSET Edits : content' = [content EXCEPT ![draft[p]] = S]
  <2>1. CASE UpdateDraft(p)
    <3> DEFINE S == fetched[p] \cup {Fields(p)} \cup {x \in content[draft[p]] : IsFiles(x)}
    <3>1. p \in Updaters
      BY <2>1, <1>0 DEF SoloStep, SenderStep, UpdaterStep, StartAllowed, HandlerFails,
         ShowDraft, Approve, Decline, VerifyDraft, Send, FetchCurrent, UpdateDraft,
         UploadFiles, TypeOK, Goto
    <3>2. S \in SUBSET Edits
      BY <3>1, <1>0, <1>1 DEF TypeOK
    <3>3. content' = [content EXCEPT ![draft[p]] = S]
      BY <2>1, <1>0 DEF UpdateDraft, TypeOK
    <3> QED
      BY <3>2, <3>3
  <2>2. CASE UploadFiles(p) /\ p \in Updaters
    BY <2>2, <1>0, <1>1 DEF UploadFiles, TypeOK
  <2> QED
    BY <2>1, <2>2 DEF SoloStep, SenderStep, UpdaterStep, StartAllowed, HandlerFails,
         ShowDraft, Approve, Decline, VerifyDraft, Send, FetchCurrent
<1>9. TypeOK'
  BY <1>0, <1>2, <1>3, <1>4, <1>7, <1>8 DEF TypeOK, KMTypeOK, kmVars
<1>10. OneEntry' /\ OneLockPerDraft' /\ HolderIsHandler'
  <2>1. \A q \in Procs : (Locking(q)' <=> Locking(q)) /\ (InHandler(q)' <=> InHandler(q))
    <3>1. (Locking(p)' <=> Locking(p)) /\ (InHandler(p)' <=> InHandler(p))
      BY <1>0 DEF SoloStep, SenderStep, UpdaterStep, StartAllowed, HandlerFails, ShowDraft,
         Approve, Decline, VerifyDraft, Send, FetchCurrent, UpdateDraft,
         UploadFiles, Goto, AfterRefusal, Locking, InHandler, TypeOK
    <3>2. \A q \in Procs : q # p => step'[q] = step[q]
      BY <1>0, <1>2 DEF TypeOK
    <3> QED
      BY <3>1, <3>2 DEF Locking, InHandler
  <2> QED
    BY <2>1, <1>0, <1>3, KeepsLock
<1>11. DraftsExist'
  <2>1. \A q \in Procs : q # p => step'[q] = step[q]
    BY <1>0, <1>2 DEF TypeOK
  <2>2. \A d \in Keys \ exists : content'[d] = content[d]
    BY <1>0, <1>6, <1>8 DEF TypeOK
  <2> QED
    BY <2>1, <2>2, <1>0, <1>3, <1>6 DEF DraftsExist
<1> QED
  BY <1>9, <1>10, <1>11 DEF LockInv

LEMMA ComposerKeepsLock ==
  ASSUME LockInv, NEW c \in Composers, ComposerStep(c) PROVE LockInv'
<1>0. /\ TypeOK /\ OneEntry /\ OneLockPerDraft /\ HolderIsHandler /\ DraftsExist
      /\ c \in Callers /\ c \notin Procs
      /\ Fields(c) \in Edits /\ Files(c) \in Edits
  BY DEF LockInv, Edits, OwnEdits, Authors
<1>1. PICK s \in Steps : step' = [step EXCEPT ![c] = s]
  BY DEF ComposerStep, Compose, AttachFiles, DraftReady, SendComposed, ComposeFails,
         Goto, AfterFailure
<1>2. UNCHANGED <<kmVars, draft, asks, shown, fetched>>
  BY DEF ComposerStep, Compose, AttachFiles, DraftReady, SendComposed, ComposeFails
<1>3. \A q \in Procs : step'[q] = step[q]
  BY <1>0, <1>1 DEF TypeOK
<1>4. OneEntry' /\ OneLockPerDraft' /\ HolderIsHandler'
  BY <1>0, <1>2, <1>3, KeepsLock DEF Locking, InHandler
<1>5. CASE Compose(c)
  <2>1. PICK d \in Keys \ exists, E \in {{Fields(c)}, {Fields(c), Files(c)}} :
          /\ exists' = exists \cup {d}
          /\ content' = [content EXCEPT ![d] = {Fields(c)}]
          /\ made' = [made EXCEPT ![c] = [key |-> {d}, edits |-> E]]
          /\ sent' = sent
    BY <1>5 DEF Compose
  <2>2. made' \in [Composers -> [key : SUBSET Keys, edits : SUBSET Edits]]
    BY <2>1, <1>0 DEF TypeOK
  <2>3. content' \in [Keys -> SUBSET Edits]
    BY <2>1, <1>0 DEF TypeOK
  <2>4. TypeOK'
    BY <2>1, <2>2, <2>3, <1>0, <1>1, <1>2 DEF TypeOK, KMTypeOK, kmVars
  <2>5. DraftsExist'
    <3>1. \A k \in Composers : made'[k].key \subseteq exists'
      BY <2>1, <1>0 DEF DraftsExist, TypeOK
    <3>2. \A k \in Keys \ exists' : content'[k] = {}
      BY <2>1, <1>0 DEF DraftsExist, TypeOK
    <3> QED
      BY <3>1, <3>2, <2>1, <1>0, <1>2, <1>3 DEF DraftsExist
  <2> QED
    BY <1>4, <2>4, <2>5 DEF LockInv
<1>6. CASE AttachFiles(c)
  <2>1. PICK d \in made[c].key \ sent :
          content' = [content EXCEPT ![d] = content[d] \cup {Files(c)}]
    BY <1>6 DEF AttachFiles
  <2>2. d \in exists /\ d \in Keys
    BY <2>1, <1>0 DEF DraftsExist, TypeOK
  <2>3. UNCHANGED <<exists, sent, made>>
    BY <1>6 DEF AttachFiles
  <2>4. TypeOK'
    BY <2>1, <2>2, <2>3, <1>0, <1>1, <1>2 DEF TypeOK, KMTypeOK, kmVars
  <2>5. DraftsExist'
    BY <2>1, <2>2, <2>3, <1>0, <1>2, <1>3 DEF DraftsExist, TypeOK
  <2> QED
    BY <1>4, <2>4, <2>5 DEF LockInv
<1>7. CASE DraftReady(c) \/ SendComposed(c) \/ ComposeFails(c)
  <2>1. UNCHANGED <<exists, content, made>>
    BY <1>7 DEF DraftReady, SendComposed, ComposeFails
  <2>2. sent' \in SUBSET exists
    BY <1>7, <1>0 DEF DraftReady, SendComposed, ComposeFails, DraftsExist, TypeOK
  <2>3. TypeOK'
    BY <2>1, <2>2, <1>0, <1>1, <1>2 DEF TypeOK, KMTypeOK, kmVars
  <2>4. DraftsExist'
    BY <2>1, <1>0, <1>2, <1>3 DEF DraftsExist
  <2> QED
    BY <1>4, <2>3, <2>4 DEF LockInv
<1> QED
  BY <1>5, <1>6, <1>7 DEF ComposerStep

LEMMA NextLock == LockInv /\ [Next]_vars => LockInv'
<1> SUFFICES ASSUME LockInv, [Next]_vars PROVE LockInv'
  OBVIOUS
<1>1. CASE WebStep
  BY <1>1, WebKeepsLock
<1>2. CASE \E p \in Procs : SoloStep(p)
  BY <1>2, SoloKeepsLock
<1>3. CASE \E p \in Procs : EnterLock(p) \/ TakeLock(p) \/ ReleaseLock(p) \/ DropLock(p)
  BY <1>3, EnterKeepsLock, TakeKeepsLock, ReleaseKeepsLock, DropKeepsLock
<1>4. CASE \E c \in Composers : ComposerStep(c)
  BY <1>4, ComposerKeepsLock
<1>5. CASE UNCHANGED vars
  <2>1. TypeOK' /\ DraftsExist'
    BY <1>5 DEF LockInv, TypeOK, KMTypeOK, DraftsExist, vars, sdVars, kmVars
  <2>2. OneEntry' /\ OneLockPerDraft' /\ HolderIsHandler'
    BY <1>5, KeepsLock DEF LockInv, Locking, InHandler, vars, sdVars
  <2> QED
    BY <2>1, <2>2 DEF LockInv
<1> QED
  BY <1>1, <1>2, <1>3, <1>4, <1>5, NextCases

LEMMA LockInvariant == Spec => []LockInv
  BY InitLock, NextLock, PTL DEF Spec

(* mail_send_draft and mail_draft_update never run on one draft at once.   *)
LEMMA HandlersSerialized == LockInv => DraftSerialized
<1> SUFFICES ASSUME LockInv, NEW p \in Procs, NEW q \in Procs,
                    InHandler(p), InHandler(q), draft[p] = draft[q]
             PROVE  p = q
  BY DEF DraftSerialized
<1>1. uses[p] # NoEntry /\ uses[q] # NoEntry
  BY DEF LockInv, OneEntry, Locking
<1>2. uses[p] = uses[q] /\ uses[p] \in Entries
  BY <1>1 DEF LockInv, OneLockPerDraft, TypeOK, KMTypeOK
<1> QED
  BY <1>2 DEF LockInv, HolderIsHandler

LEMMA HolderInHandler == LockInv => HolderRuns
  BY DEF LockInv, TypeOK, KMTypeOK, HolderIsHandler, HolderRuns

(* Every variable has its type: in particular no entry is released more    *)
(* often than it was looked up (send_snapshot.go:63-93).                   *)
THEOREM SendDraftTypes == Spec => []TypeOK
  BY LockInvariant, PTL DEF LockInv

(* The keyed mutex keeps one entry per draft while anybody uses it, and    *)
(* counts its users (send_snapshot.go:63-93).                              *)
THEOREM OneMutexPerDraft == Spec => []OneLockPerDraft
  BY LockInvariant, PTL DEF LockInv

(* Two handlers that lock never work on one draft at the same time.        *)
THEOREM OneHandlerPerDraft == Spec => []DraftSerialized
  BY LockInvariant, HandlersSerialized, PTL

(* A lock is held only by a call that is still in its handler.             *)
THEOREM LockedByARunner == Spec => []HolderRuns
  BY LockInvariant, HolderInHandler, PTL

----------------------------------------------------------------------------
(* What the drafts carry. *)

Unlocked == WebEdits \cup {Files(c) : c \in Composers}

Grown(A, B) == A \subseteq B /\ B \ A \subseteq Unlocked

Verified(s) == fetched[s] = shown[s] /\ Grown(shown[s], content[draft[s]])

Merged(u) == Grown(fetched[u], content[draft[u]])

Composed(c) ==
    /\ made[c].edits \subseteq {Fields(c), Files(c)}
    /\ \A d, k \in made[c].key : d = k
    /\ step[c] = "attach" => \A d \in made[c].key : Fields(c) \in content[d]
    /\ step[c] = "finalize" => \A d \in made[c].key : made[c].edits \subseteq content[d]

ContentInv ==
    /\ \A s \in asks : step[s] = "verified" => Verified(s)
    /\ \A u \in Updaters : step[u] = "merged" => Merged(u)
    /\ \A c \in Composers : Composed(c)

LEMMA InitContent == Init => ContentInv
  BY DEF Init, ContentInv, Composed, Nothing

(* While a handler is between its fetch and its write, the others only add *)
(* to its draft, and only what takes no lock.                              *)
LEMMA OthersOnlyAdd ==
  ASSUME LockInv, [Next]_vars, NEW p \in Procs,
         step[p] \in {"verified", "merged"}, step'[p] = step[p]
  PROVE  /\ Grown(content[draft[p]], content'[draft[p]])
         /\ draft'[p] = draft[p] /\ fetched'[p] = fetched[p]
         /\ p \in Senders => shown'[p] = shown[p]
<1>0. TypeOK /\ DraftsExist /\ DraftSerialized /\ draft[p] \in exists /\ draft[p] \in Keys
  BY HandlersSerialized DEF LockInv, TypeOK, DraftsExist
<1>1. CASE WebStep
  BY <1>0, <1>1 DEF WebStep, WebEdit, TypeOK, Grown, Unlocked
<1>2. CASE \E q \in Procs : SoloStep(q)
  <2>1. PICK q \in Procs : SoloStep(q)
    BY <1>2
  <2>2. q # p
    BY <1>0, <2>1 DEF SoloStep, SenderStep, UpdaterStep, StartAllowed, HandlerFails,
         ShowDraft, Approve, Decline, VerifyDraft, Send, FetchCurrent, UpdateDraft,
         UploadFiles, Goto, AfterRefusal, TypeOK
  <2>3. step[q] \in {"merged", "upload"} => draft[q] # draft[p]
    BY <1>0, <2>2 DEF DraftSerialized, InHandler
  <2>4. content'[draft[p]] = content[draft[p]]
    BY <1>0, <2>1, <2>3 DEF SoloStep, SenderStep, UpdaterStep, StartAllowed,
         HandlerFails, ShowDraft, Approve, Decline, VerifyDraft, Send, FetchCurrent,
         UpdateDraft, UploadFiles, TypeOK
  <2>5. /\ draft'[p] = draft[p] /\ fetched'[p] = fetched[p]
        /\ p \in Senders => shown'[p] = shown[p]
    BY <1>0, <2>1, <2>2 DEF SoloStep, SenderStep, UpdaterStep, StartAllowed,
         HandlerFails, ShowDraft, Approve, Decline, VerifyDraft, Send, FetchCurrent,
         UpdateDraft, UploadFiles, TypeOK
  <2> QED
    BY <2>4, <2>5 DEF Grown
<1>3. CASE \E q \in Procs : EnterLock(q) \/ TakeLock(q) \/ ReleaseLock(q) \/ DropLock(q)
  BY <1>3 DEF EnterLock, TakeLock, ReleaseLock, DropLock, Grown
<1>4. CASE \E c \in Composers : ComposerStep(c)
  <2>1. PICK c \in Composers : ComposerStep(c)
    BY <1>4
  <2>2. UNCHANGED <<draft, fetched, shown>>
    BY <2>1 DEF ComposerStep, Compose, AttachFiles, DraftReady, SendComposed, ComposeFails
  <2>3. Grown(content[draft[p]], content'[draft[p]])
    <3>1. CASE Compose(c)
      BY <3>1, <1>0 DEF Compose, TypeOK, Grown
    <3>2. CASE AttachFiles(c)
      BY <3>2, <1>0 DEF AttachFiles, TypeOK, Grown, Unlocked
    <3>3. CASE DraftReady(c) \/ SendComposed(c) \/ ComposeFails(c)
      BY <3>3 DEF DraftReady, SendComposed, ComposeFails, Grown
    <3> QED
      BY <2>1, <3>1, <3>2, <3>3 DEF ComposerStep
  <2> QED
    BY <2>2, <2>3
<1>5. CASE UNCHANGED vars
  BY <1>5 DEF vars, sdVars, Grown
<1> QED
  BY <1>1, <1>2, <1>3, <1>4, <1>5, NextCases

(* Nothing but web edits ever goes from a draft. *)
LEMMA NothingLost ==
  ASSUME LockInv, ContentInv, [Next]_vars, NEW d \in Keys
  PROVE  content[d] \ content'[d] \subseteq WebEdits
<1>0. TypeOK /\ DraftsExist
  BY DEF LockInv
<1>1. CASE WebStep
  BY <1>0, <1>1 DEF WebStep, WebEdit, TypeOK
<1>2. CASE \E q \in Procs : SoloStep(q)
  <2>1. PICK q \in Procs : SoloStep(q)
    BY <1>2
  <2>2. CASE q \in Updaters /\ UpdateDraft(q)
    <3>1. content[draft[q]] \ fetched[q] \subseteq Unlocked
      BY <2>2 DEF ContentInv, Merged, Grown, UpdateDraft
    <3>2. content' = [content EXCEPT ![draft[q]] =
             fetched[q] \cup {Fields(q)} \cup {x \in content[draft[q]] : IsFiles(x)}]
      BY <2>2, <1>0 DEF UpdateDraft, TypeOK
    <3>3. \A c \in Composers : IsFiles(Files(c))
      BY DEF IsFiles, Authors
    <3> QED
      BY <3>1, <3>2, <3>3, <1>0 DEF TypeOK, Unlocked
  <2>3. CASE q \in Updaters /\ UploadFiles(q)
    BY <2>3, <1>0 DEF UploadFiles, TypeOK
  <2>4. CASE content' = content
    BY <2>4
  <2> QED
    BY <2>1, <2>2, <2>3, <2>4 DEF SoloStep, SenderStep, UpdaterStep, StartAllowed,
         HandlerFails, ShowDraft, Approve, Decline, VerifyDraft, Send, FetchCurrent
<1>3. CASE \E q \in Procs : EnterLock(q) \/ TakeLock(q) \/ ReleaseLock(q) \/ DropLock(q)
  BY <1>3 DEF EnterLock, TakeLock, ReleaseLock, DropLock
<1>4. CASE \E c \in Composers : ComposerStep(c)
  <2>1. PICK c \in Composers : ComposerStep(c)
    BY <1>4
  <2>2. CASE Compose(c)
    BY <2>2, <1>0 DEF Compose, TypeOK, DraftsExist
  <2>3. CASE AttachFiles(c)
    BY <2>3, <1>0 DEF AttachFiles, TypeOK
  <2>4. CASE DraftReady(c) \/ SendComposed(c) \/ ComposeFails(c)
    BY <2>4 DEF DraftReady, SendComposed, ComposeFails
  <2> QED
    BY <2>1, <2>2, <2>3, <2>4 DEF ComposerStep
<1>5. CASE UNCHANGED vars
  BY <1>5 DEF vars, sdVars
<1> QED
  BY <1>1, <1>2, <1>3, <1>4, <1>5, NextCases

LEMMA StaysVerified ==
  ASSUME LockInv, LockInv', ContentInv, [Next]_vars,
         NEW s \in asks', step'[s] = "verified"
  PROVE  Verified(s)'
<1>1. s \in asks /\ s \in Senders /\ s \in Procs
  <2>1. asks' = asks
    BY NextCases DEF WebStep, WebEdit, SoloStep, SenderStep, UpdaterStep, StartAllowed,
       HandlerFails, ShowDraft, Approve, Decline, VerifyDraft, Send, FetchCurrent,
       UpdateDraft, UploadFiles, EnterLock, TakeLock, ReleaseLock, DropLock,
       ComposerStep, Compose, AttachFiles, DraftReady, SendComposed, ComposeFails,
       vars, sdVars
  <2> QED
    BY <2>1 DEF LockInv, TypeOK
<1>2. CASE step[s] = "verified"
  <2>1. Verified(s)
    BY <1>1, <1>2 DEF ContentInv
  <2>2. /\ Grown(content[draft[s]], content'[draft[s]])
        /\ draft'[s] = draft[s] /\ fetched'[s] = fetched[s] /\ shown'[s] = shown[s]
    BY <1>1, <1>2, OthersOnlyAdd
  <2> QED
    BY <2>1, <2>2 DEF Verified, Grown
<1>3. CASE step[s] # "verified"
  <2>0. TypeOK
    BY DEF LockInv
  <2>1. VerifyDraft(s)
    <3>1. ~WebStep /\ ~UNCHANGED vars
      BY <1>3 DEF WebStep, WebEdit, vars, sdVars
    <3>2. ~\E c \in Composers : ComposerStep(c)
      BY <1>1, <1>3, <2>0 DEF ComposerStep, Compose, AttachFiles, DraftReady,
         SendComposed, ComposeFails, Goto, AfterFailure, TypeOK
    <3>3. ~\E q \in Procs : EnterLock(q) \/ TakeLock(q) \/ ReleaseLock(q) \/ DropLock(q)
      BY <1>1, <1>3, <2>0 DEF EnterLock, TakeLock, ReleaseLock, DropLock, Goto, TypeOK
    <3>4. PICK q \in Procs : SoloStep(q)
      BY <3>1, <3>2, <3>3, NextCases
    <3>5. q = s
      BY <3>4, <1>1, <1>3, <2>0 DEF SoloStep, SenderStep, UpdaterStep, StartAllowed,
         HandlerFails, ShowDraft, Approve, Decline, VerifyDraft, Send, FetchCurrent,
         UpdateDraft, UploadFiles, Goto, TypeOK
    <3> QED
      BY <3>4, <3>5, <1>1, <1>3, <2>0 DEF SoloStep, SenderStep, UpdaterStep, StartAllowed,
         HandlerFails, ShowDraft, Approve, Decline, Send, FetchCurrent,
         UpdateDraft, UploadFiles, Goto, TypeOK
  <2>2. content[draft[s]] = shown[s] /\ fetched'[s] = content[draft[s]]
    BY <2>0, <2>1, <1>1 DEF VerifyDraft, Changed, AfterRefusal, Goto, TypeOK
  <2>3. UNCHANGED <<draft, shown, content>>
    BY <2>1 DEF VerifyDraft
  <2> QED
    BY <2>2, <2>3 DEF Verified, Grown
<1> QED
  BY <1>2, <1>3

LEMMA StaysMerged ==
  ASSUME LockInv, ContentInv, [Next]_vars, NEW u \in Updaters, step'[u] = "merged"
  PROVE  Merged(u)'
<1>0. TypeOK /\ u \in Procs
  BY DEF LockInv
<1>1. CASE step[u] = "merged"
  <2>1. Merged(u)
    BY <1>1 DEF ContentInv
  <2>2. /\ Grown(content[draft[u]], content'[draft[u]])
        /\ draft'[u] = draft[u] /\ fetched'[u] = fetched[u]
    BY <1>0, <1>1, OthersOnlyAdd
  <2> QED
    BY <2>1, <2>2 DEF Merged, Grown
<1>2. CASE step[u] # "merged"
  <2>1. FetchCurrent(u)
    <3>1. ~WebStep /\ ~UNCHANGED vars
      BY <1>2 DEF WebStep, WebEdit, vars, sdVars
    <3>2. ~\E c \in Composers : ComposerStep(c)
      BY <1>0, <1>2 DEF ComposerStep, Compose, AttachFiles, DraftReady,
         SendComposed, ComposeFails, Goto, AfterFailure, TypeOK
    <3>3. ~\E q \in Procs : EnterLock(q) \/ TakeLock(q) \/ ReleaseLock(q) \/ DropLock(q)
      BY <1>0, <1>2 DEF EnterLock, TakeLock, ReleaseLock, DropLock, Goto, TypeOK
    <3>4. PICK q \in Procs : SoloStep(q)
      BY <3>1, <3>2, <3>3, NextCases
    <3>5. q = u
      BY <3>4, <1>0, <1>2 DEF SoloStep, SenderStep, UpdaterStep, StartAllowed,
         HandlerFails, ShowDraft, Approve, Decline, VerifyDraft, Send, FetchCurrent,
         UpdateDraft, UploadFiles, Goto, TypeOK
    <3> QED
      BY <3>4, <3>5, <1>0, <1>2 DEF SoloStep, SenderStep, UpdaterStep, StartAllowed,
         HandlerFails, ShowDraft, Approve, Decline, VerifyDraft, Send,
         UpdateDraft, UploadFiles, Goto, AfterRefusal, TypeOK
  <2> QED
    BY <1>0, <2>1 DEF FetchCurrent, Merged, Grown, TypeOK
<1> QED
  BY <1>1, <1>2

LEMMA StaysComposed ==
  ASSUME LockInv, ContentInv, [Next]_vars, NEW c \in Composers
  PROVE  Composed(c)'
<1>0. /\ TypeOK /\ DraftsExist /\ Composed(c) /\ c \notin Procs /\ c \in Callers
      /\ Fields(c) \notin WebEdits /\ Files(c) \notin WebEdits
      /\ made[c].key \subseteq Keys
  BY DEF LockInv, ContentInv, OwnEdits, Authors, TypeOK
<1>1. \A d \in Keys, x \in {Fields(c), Files(c)} : x \in content[d] => x \in content'[d]
  BY <1>0, NothingLost
<1>2. CASE made' = made /\ step'[c] = step[c]
  BY <1>0, <1>1, <1>2 DEF Composed
<1>3. CASE ComposerStep(c)
  <2>1. CASE Compose(c)
    <3>1. PICK d \in Keys \ exists, E \in {{Fields(c)}, {Fields(c), Files(c)}} :
            /\ content' = [content EXCEPT ![d] = {Fields(c)}]
            /\ made' = [made EXCEPT ![c] = [key |-> {d}, edits |-> E]]
            /\ step' = [step EXCEPT ![c] = IF Files(c) \in E THEN "attach" ELSE "finalize"]
      BY <2>1 DEF Compose, Goto
    <3>2. made'[c] = [key |-> {d}, edits |-> E] /\ content'[d] = {Fields(c)}
      BY <3>1, <1>0 DEF TypeOK
    <3>3. step'[c] = IF Files(c) \in E THEN "attach" ELSE "finalize"
      BY <3>1, <1>0 DEF TypeOK
    <3>4. Files(c) \notin E => E = {Fields(c)}
      BY <3>1
    <3> QED
      BY <3>1, <3>2, <3>3, <3>4 DEF Composed
  <2>2. CASE AttachFiles(c)
    <3>1. PICK d \in made[c].key :
            content' = [content EXCEPT ![d] = content[d] \cup {Files(c)}]
      BY <2>2 DEF AttachFiles
    <3>2. step[c] = "attach" /\ step'[c] = "finalize" /\ made' = made
      BY <2>2, <1>0 DEF AttachFiles, Goto, TypeOK
    <3>3. \A k \in made[c].key : k = d
      BY <1>0, <3>1 DEF Composed
    <3>4. {Fields(c), Files(c)} \subseteq content'[d]
      BY <1>0, <3>1, <3>2 DEF Composed, TypeOK
    <3> QED
      BY <1>0, <3>2, <3>3, <3>4 DEF Composed
  <2>3. CASE DraftReady(c) \/ SendComposed(c) \/ ComposeFails(c)
    <3>1. step'[c] = "over" /\ made' = made
      BY <2>3, <1>0 DEF DraftReady, SendComposed, ComposeFails, AfterFailure, Goto, TypeOK
    <3> QED
      BY <1>0, <3>1 DEF Composed
  <2> QED
    BY <1>3, <2>1, <2>2, <2>3 DEF ComposerStep
<1>4. CASE WebStep \/ UNCHANGED vars
  BY <1>2, <1>4 DEF WebStep, WebEdit, vars, sdVars
<1>5. CASE \E q \in Procs : SoloStep(q)
  BY <1>0, <1>2, <1>5 DEF SoloStep, SenderStep, UpdaterStep, StartAllowed,
     HandlerFails, ShowDraft, Approve, Decline, VerifyDraft, Send, FetchCurrent,
     UpdateDraft, UploadFiles, Goto, TypeOK
<1>6. CASE \E q \in Procs : EnterLock(q) \/ TakeLock(q) \/ ReleaseLock(q) \/ DropLock(q)
  BY <1>0, <1>2, <1>6 DEF EnterLock, TakeLock, ReleaseLock, DropLock, Goto, TypeOK
<1>7. ASSUME NEW k \in Composers, k # c, ComposerStep(k)
      PROVE  Composed(c)'
  <2>1. made'[c] = made[c] /\ step'[c] = step[c]
    BY <1>0, <1>7 DEF ComposerStep, Compose, AttachFiles, DraftReady,
       SendComposed, ComposeFails, Goto, TypeOK
  <2> QED
    BY <1>0, <1>1, <2>1 DEF Composed
<1> QED
  BY <1>3, <1>4, <1>5, <1>6, <1>7, NextCases

LEMMA NextContent ==
  ASSUME LockInv, LockInv', ContentInv, [Next]_vars PROVE ContentInv'
<1>1. \A s \in asks' : step'[s] = "verified" => Verified(s)'
  BY StaysVerified
<1>2. \A u \in Updaters : step'[u] = "merged" => Merged(u)'
  BY StaysMerged
<1>3. \A c \in Composers : Composed(c)'
  BY StaysComposed
<1> QED
  BY <1>1, <1>2, <1>3 DEF ContentInv

LEMMA ContentInvariant == Spec => [](LockInv /\ ContentInv)
<1>1. Init => LockInv /\ ContentInv
  BY InitLock, InitContent
<1>2. LockInv /\ ContentInv /\ [Next]_vars => (LockInv /\ ContentInv)'
  BY NextLock, NextContent
<1> QED
  BY <1>1, <1>2, PTL DEF Spec

(* mail_send_draft sends the snapshot the user approved, and at most what  *)
(* the web UI or a composer's upload added to it since                     *)
(* (send_snapshot.go:101-160).                                             *)
THEOREM ApprovedIsSent == Spec => SendsWhatWasApproved
<1>1. LockInv /\ ContentInv /\ [Next]_vars
        => [\A s \in asks : step[s] = "verified" /\ sent' # sent /\ step'[s] = "unlock"
             => /\ fetched[s] = shown[s]
                /\ shown[s] \subseteq content[draft[s]]
                /\ content[draft[s]] \ shown[s] \subseteq
                     WebEdits \cup {Files(c) : c \in Composers}]_vars
  BY DEF ContentInv, Verified, Grown, Unlocked
<1> QED
  BY <1>1, ContentInvariant, PTL DEF Spec, SendsWhatWasApproved

(* No step of the daemon takes an edit made through it from a draft        *)
(* (drafts.go:173-280).                                                    *)
THEOREM UpdatesAreKept == Spec => NoLostUpdate
<1>1. LockInv /\ ContentInv /\ [Next]_vars
        => [\A d \in Keys : content[d] \ content'[d] \subseteq WebEdits]_vars
  BY NothingLost
<1> QED
  BY <1>1, ContentInvariant, PTL DEF Spec, NoLostUpdate

(* A message that a composer sends carries every file of its call          *)
(* (mail_send.go:402-406).                                                 *)
THEOREM ComposedIsWhole == Spec => SentIsWhole
<1>1. LockInv /\ ContentInv /\ [Next]_vars
        => [\A c \in Composers : step[c] = "finalize" /\ sent' # sent /\ step'[c] = "over"
             => \A d \in made[c].key : d \in sent' => made[c].edits \subseteq content[d]]_vars
  BY DEF ContentInv, Composed
<1> QED
  BY <1>1, ContentInvariant, PTL DEF Spec, SentIsWhole
----------------------------------------------------------------------------
(* SendDraft implements AtomicDrafts.  The steps of a lock, of a fetch and *)
(* of a dialog have no effect there, the others have the one they are      *)
(* named for.                                                              *)

(* Only a composer attaches to, or finishes, a draft it made. *)
Roles == \A p \in Procs : step[p] \notin {"attach", "finalize"}

Phases == [p \in Callers |-> Effect(p)]

LEMMA InitRoles == Init => Roles
  BY DEF Init, Roles

LEMMA NextRoles == LockInv /\ Roles /\ [Next]_vars => Roles'
<1> SUFFICES ASSUME LockInv, Roles, [Next]_vars, NEW p \in Procs
             PROVE  step'[p] \notin {"attach", "finalize"}
  BY DEF Roles
<1>0. TypeOK /\ step[p] \notin {"attach", "finalize"} /\ p \notin Composers
  BY DEF LockInv, Roles
<1>1. CASE WebStep \/ UNCHANGED vars
  BY <1>0, <1>1 DEF WebStep, WebEdit, vars, sdVars
<1>2. CASE \E q \in Procs : SoloStep(q)
  BY <1>0, <1>2 DEF SoloStep, SenderStep, UpdaterStep, StartAllowed, HandlerFails,
     ShowDraft, Approve, Decline, VerifyDraft, Send, FetchCurrent, UpdateDraft,
     UploadFiles, Goto, AfterRefusal, TypeOK
<1>3. CASE \E q \in Procs : EnterLock(q) \/ TakeLock(q) \/ ReleaseLock(q) \/ DropLock(q)
  BY <1>0, <1>3 DEF EnterLock, TakeLock, ReleaseLock, DropLock, Goto, TypeOK
<1>4. CASE \E c \in Composers : ComposerStep(c)
  BY <1>0, <1>4 DEF ComposerStep, Compose, AttachFiles, DraftReady, SendComposed,
     ComposeFails, Goto, AfterFailure, TypeOK
<1> QED
  BY <1>1, <1>2, <1>3, <1>4, NextCases

(* A step of one call moves the effect of that call only. *)
LEMMA PhaseMoves ==
  ASSUME TypeOK, asks' = asks, NEW p \in Callers, NEW s, Goto(p, s)
  PROVE  /\ Phases' = [Phases EXCEPT ![p] = Effect(p)']
         /\ step'[p] = s
         /\ Effect(p)' = Effect(p) => Phases' = Phases
<1>1. /\ step'[p] = s
      /\ \A q \in Callers : q # p => step'[q] = step[q]
  BY DEF TypeOK, Goto
<1>2. \A q \in Callers : q # p => Effect(q)' = Effect(q)
  BY <1>1 DEF Effect
<1>3. Phases' = [q \in Callers |-> Effect(q)']
  BY DEF Phases
<1> QED
  BY <1>1, <1>2, <1>3 DEF Phases

(* Where a call is and what has come of it so far. *)
LEMMA EffectIs ==
  ASSUME TypeOK, NEW p \in Callers
  PROVE  /\ step[p] \in {"unlock", "drop", "over"} => Effect(p) = "done"
         /\ step[p] \in {"upload", "attach"} => Effect(p) = "filling"
         /\ step[p] = "finalize" => Effect(p) = "whole"
         /\ step[p] \in {"prompt", "enter", "wait", "locked", "verified"} =>
              Effect(p) = IF p \in asks THEN "asked" ELSE "new"
         /\ step[p] \in {"idle", "merged"} => Effect(p) = "new"
  BY DEF Effect, TypeOK
LEMMA WebImplements ==
  ASSUME LockInv, WebStep PROVE [AD!ADNext]_(AD!adVars)
<1>1. PICK d \in Keys, w \in WebEdits : WebEdit(d, w)
  BY DEF WebStep
<1>2. Phases' = Phases
  BY <1>1 DEF WebEdit, Phases, Effect
<1>3. AD!Edit(d, w)
  BY <1>1, <1>2 DEF WebEdit, AD!Edit, AD!Adds, Phases
<1> QED
  BY <1>3 DEF AD!ADNext

LEMMA SendImplements ==
  ASSUME LockInv, ContentInv, Roles, NEW s \in Senders, Send(s)
  PROVE  AD!Send(s)
<1>0. /\ TypeOK /\ s \in Procs /\ s \in Callers /\ draft[s] \in exists \ sent
      /\ DraftSerialized /\ step[s] = "verified"
  BY HandlersSerialized DEF LockInv, DraftsExist, Send
<1>1. /\ Phases' = [Phases EXCEPT ![s] = "done"]
      /\ Phases[s] = IF s \in asks THEN "asked" ELSE "new"
  <2>1. asks' = asks /\ Goto(s, "unlock") /\ step'[s] = "unlock"
    BY <1>0, PhaseMoves DEF Send
  <2> QED
    BY <2>1, <1>0, PhaseMoves, EffectIs DEF Phases, Effect
<1>2. ASSUME NEW u \in Updaters, Phases[u] = "filling" PROVE draft[u] # draft[s]
  <2>1. step[u] = "upload"
    BY <1>0, <1>2 DEF Phases, Effect, Roles, TypeOK
  <2>2. u \in Procs /\ u # s
    BY <1>0, <2>1
  <2> QED
    BY <1>0, <2>1, <2>2 DEF DraftSerialized, InHandler
<1>3. AD!Quiet(draft[s])
  BY <1>2 DEF AD!Quiet, Phases
<1>4. s \in asks => /\ shown[s] \subseteq content[draft[s]]
                    /\ content[draft[s]] \subseteq shown[s] \cup AD!Unguarded
  <2>1. Unlocked = AD!Unguarded
    BY DEF Unlocked, AD!Unguarded, Authors
  <2> QED
    BY <1>0, <2>1 DEF ContentInv, Verified, Grown
<1> QED
  BY <1>0, <1>1, <1>3, <1>4 DEF Send, AD!Send, AD!Becomes, Phases

LEMMA UpdateImplements ==
  ASSUME LockInv, ContentInv, Roles, NEW u \in Updaters, UpdateDraft(u)
  PROVE  AD!Update(u)
<1>0. /\ TypeOK /\ u \in Procs /\ u \in Callers /\ draft[u] \in exists \ sent
      /\ DraftSerialized /\ step[u] = "merged" /\ u \in Authors
      /\ draft[u] \in Keys
  BY HandlersSerialized DEF LockInv, DraftsExist, UpdateDraft, TypeOK, Authors
<1>1. Phases' = [Phases EXCEPT ![u] = "filling"] /\ Phases[u] = "new"
  <2>1. asks' = asks /\ Goto(u, "upload") /\ step'[u] = "upload"
    BY <1>0, PhaseMoves DEF UpdateDraft
  <2> QED
    BY <2>1, <1>0, PhaseMoves, EffectIs DEF Phases, Effect
<1>2. ASSUME NEW q \in Updaters, Phases[q] = "filling" PROVE draft[q] # draft[u]
  <2>1. step[q] = "upload"
    BY <1>0, <1>2 DEF Phases, Effect, Roles, TypeOK
  <2>2. q \in Procs /\ q # u
    BY <1>0, <2>1
  <2> QED
    BY <1>0, <2>1, <2>2 DEF DraftSerialized, InHandler
<1>3. AD!Quiet(draft[u])
  BY <1>2 DEF AD!Quiet, Phases
<1> DEFINE old == content[draft[u]]
           lost == {x \in old : x \notin fetched[u] /\ ~IsFiles(x)}
<1>4. /\ fetched[u] \subseteq old
      /\ old \ fetched[u] \subseteq Unlocked
  BY <1>0 DEF ContentInv, Merged, Grown
<1>5. lost \in SUBSET WebEdits
  BY <1>4 DEF Unlocked, IsFiles, Authors
<1>6. fetched[u] \cup {Fields(u)} \cup {x \in old : IsFiles(x)} = (old \ lost) \cup {Fields(u)}
  BY <1>4
<1>7. content' = [content EXCEPT ![draft[u]] = (old \ lost) \cup {Fields(u)}]
  BY <1>0, <1>6 DEF UpdateDraft, TypeOK
<1>8. content' = [content EXCEPT ![draft[u]] =
                    (old \ lost) \cup {[a \in Authors |-> Fields(a)][u]}]
  BY <1>0, <1>7
<1> HIDE DEF lost
<1> QED
  BY <1>0, <1>1, <1>3, <1>5, <1>8 DEF UpdateDraft, AD!Update, AD!Becomes, Phases

LEMMA UploadImplements ==
  ASSUME LockInv, NEW u \in Updaters, UploadFiles(u)
  PROVE  AD!Upload(u) \/ AD!Stop(u)
<1>0. /\ TypeOK /\ u \in Procs /\ u \in Callers /\ draft[u] \in exists \ sent
      /\ step[u] = "upload" /\ u \in Authors /\ draft[u] \in Keys
  BY DEF LockInv, DraftsExist, UploadFiles, TypeOK, Authors
<1>1. Phases' = [Phases EXCEPT ![u] = "done"] /\ Phases[u] = "filling"
  <2>1. asks' = asks /\ Goto(u, "unlock") /\ step'[u] = "unlock"
    BY <1>0, PhaseMoves DEF UploadFiles
  <2> QED
    BY <2>1, <1>0, PhaseMoves, EffectIs DEF Phases, Effect
<1>2. CASE content' = content
  BY <1>0, <1>1, <1>2 DEF UploadFiles, AD!Stop, AD!Becomes, Phases
<1>3. CASE content' = [content EXCEPT ![draft[u]] = content[draft[u]] \cup {Files(u)}]
  BY <1>0, <1>1, <1>3 DEF UploadFiles, AD!Upload, AD!Adds, AD!Becomes, Phases
<1> QED
  BY <1>0, <1>2, <1>3 DEF UploadFiles, TypeOK
(* The other steps of a sender or an updater: a dialog shows the draft, or *)
(* the call ends without effect, or nothing happens to the effect.         *)
LEMMA ShowImplements ==
  ASSUME LockInv, NEW s \in Senders, ShowDraft(s) PROVE AD!Show(s)
<1>0. TypeOK /\ s \in Callers /\ step[s] = "idle" /\ s \in asks
  BY DEF LockInv, ShowDraft
<1>1. Phases' = [Phases EXCEPT ![s] = "asked"] /\ Phases[s] = "new"
  <2>1. asks' = asks /\ Goto(s, "prompt") /\ step'[s] = "prompt"
    BY <1>0, PhaseMoves DEF ShowDraft
  <2> QED
    BY <2>1, <1>0, PhaseMoves, EffectIs DEF Phases, Effect
<1> QED
  BY <1>0, <1>1 DEF ShowDraft, AD!Show, AD!Becomes, Phases

QuietStep(p) ==
    /\ UNCHANGED <<draft, asks, exists, content, sent, shown, made>>
    /\ \E s \in Steps : /\ Goto(p, s)
                        /\ \/ s \in {"unlock", "drop", "over"}
                           \/ /\ step[p] \in {"idle", "prompt", "enter", "wait", "locked"}
                              /\ p \in asks => step[p] # "idle"
                              /\ s \in {"enter", "wait", "locked", "verified"}
                           \/ p \notin asks /\ step[p] = "locked" /\ s = "merged"

LEMMA QuietImplements ==
  ASSUME TypeOK, NEW p \in Callers, QuietStep(p) PROVE [AD!ADNext]_(AD!adVars)
<1>1. PICK s \in Steps : Goto(p, s)
                    /\ \/ s \in {"unlock", "drop", "over"}
                       \/ /\ step[p] \in {"idle", "prompt", "enter", "wait", "locked"}
                          /\ p \in asks => step[p] # "idle"
                          /\ s \in {"enter", "wait", "locked", "verified"}
                       \/ p \notin asks /\ step[p] = "locked" /\ s = "merged"
  BY DEF QuietStep
<1>2. asks' = asks
  BY DEF QuietStep
<1>3. step'[p] = s /\ Phases' = [Phases EXCEPT ![p] = Effect(p)']
  BY <1>1, <1>2, PhaseMoves
<1>4. CASE Effect(p)' = Effect(p)
  <2>1. Phases' = Phases
    BY <1>1, <1>2, <1>4, PhaseMoves
  <2> QED
    BY <2>1 DEF QuietStep, AD!adVars, Phases
<1>5. CASE Effect(p)' # Effect(p)
  <2>1. s \in {"unlock", "drop", "over"}
    BY <1>1, <1>2, <1>3, <1>5, EffectIs DEF Effect
  <2>2. Effect(p)' = "done" /\ Phases[p] # "done"
    BY <1>3, <1>5, <2>1 DEF Effect, Phases
  <2>3. AD!Stop(p)
    BY <1>3, <2>2 DEF QuietStep, AD!Stop, AD!Becomes, Phases
  <2> QED
    BY <2>3 DEF AD!ADNext
<1> QED
  BY <1>4, <1>5

LEMMA LockStepImplements ==
  ASSUME LockInv, NEW p \in Procs,
         EnterLock(p) \/ TakeLock(p) \/ ReleaseLock(p) \/ DropLock(p)
  PROVE  [AD!ADNext]_(AD!adVars)
<1>1. QuietStep(p)
  BY DEF EnterLock, TakeLock, ReleaseLock, DropLock, QuietStep, Goto
<1> QED
  BY <1>1, QuietImplements DEF LockInv

LEMMA SoloImplements ==
  ASSUME LockInv, ContentInv, Roles, NEW p \in Procs, SoloStep(p)
  PROVE  [AD!ADNext]_(AD!adVars)
<1>0. TypeOK /\ p \in Callers
  BY DEF LockInv
<1>1. CASE p \in Senders /\ ShowDraft(p)
  BY <1>1, ShowImplements DEF AD!ADNext
<1>2. CASE p \in Senders /\ Send(p)
  BY <1>2, SendImplements DEF AD!ADNext
<1>3. CASE p \in Updaters /\ UpdateDraft(p)
  BY <1>3, UpdateImplements DEF AD!ADNext
<1>4. CASE p \in Updaters /\ UploadFiles(p)
  BY <1>0, <1>4, UploadImplements DEF AD!ADNext
<1>5. CASE QuietStep(p)
  BY <1>0, <1>5, QuietImplements
<1>6. \/ StartAllowed(p) \/ HandlerFails(p)
      \/ p \in Senders /\ (Approve(p) \/ Decline(p) \/ VerifyDraft(p))
      \/ p \in Updaters /\ FetchCurrent(p)
      => QuietStep(p)
  <2>1. StartAllowed(p) \/ Approve(p) \/ VerifyDraft(p) => QuietStep(p)
    BY DEF StartAllowed, Approve, VerifyDraft, QuietStep, Goto, AfterRefusal
  <2>2. HandlerFails(p) \/ Decline(p) => QuietStep(p)
    BY DEF HandlerFails, Decline, QuietStep, Goto
  <2>3. p \in Updaters /\ FetchCurrent(p) => QuietStep(p)
    BY <1>0 DEF FetchCurrent, QuietStep, Goto, TypeOK
  <2> QED
    BY <2>1, <2>2, <2>3
<1> QED
  BY <1>1, <1>2, <1>3, <1>4, <1>5, <1>6 DEF SoloStep, SenderStep, UpdaterStep

LEMMA ComposerImplements ==
  ASSUME LockInv, ContentInv, NEW c \in Composers, ComposerStep(c)
  PROVE  [AD!ADNext]_(AD!adVars)
<1>0. TypeOK /\ c \in Callers /\ c \in Authors /\ Composed(c) /\ c \notin asks
  BY DEF LockInv, ContentInv, Authors, TypeOK
<1>1. CASE Compose(c)
  <2>1. PICK d \in Keys \ exists, E \in {{Fields(c)}, {Fields(c), Files(c)}} :
          /\ exists' = exists \cup {d}
          /\ content' = [content EXCEPT ![d] = {Fields(c)}]
          /\ made' = [made EXCEPT ![c] = [key |-> {d}, edits |-> E]]
          /\ Goto(c, IF Files(c) \in E THEN "attach" ELSE "finalize")
    BY <1>1 DEF Compose
  <2>2. UNCHANGED <<draft, asks, sent, shown>> /\ step[c] = "idle"
    BY <1>1 DEF Compose
  <2>3. /\ Phases' = [Phases EXCEPT ![c] = IF Files(c) \in E THEN "filling" ELSE "whole"]
        /\ Phases[c] = "new"
    <3> DEFINE t == IF Files(c) \in E THEN "attach" ELSE "finalize"
    <3>1. step'[c] = t /\ Phases' = [Phases EXCEPT ![c] = Effect(c)']
      BY <2>1, <2>2, <1>0, PhaseMoves
    <3>2. Effect(c)' = IF Files(c) \in E THEN "filling" ELSE "whole"
      BY <3>1 DEF Effect
    <3>3. Effect(c) = "new"
      BY <2>2, <1>0, EffectIs
    <3> QED
      BY <3>1, <3>2, <3>3, <1>0 DEF Phases
  <2>4. AD!Compose(c)
    BY <2>1, <2>2, <2>3, <1>0 DEF AD!Compose, AD!Becomes, Phases
  <2> QED
    BY <2>4 DEF AD!ADNext
<1>2. CASE AttachFiles(c)
  <2>1. /\ Phases' = [Phases EXCEPT ![c] = "whole"] /\ Phases[c] = "filling"
    <3>1. asks' = asks /\ Goto(c, "finalize")
      BY <1>2 DEF AttachFiles
    <3>2. step'[c] = "finalize" /\ Phases' = [Phases EXCEPT ![c] = Effect(c)']
      BY <3>1, <1>0, PhaseMoves
    <3>3. Effect(c)' = "whole"
      BY <3>2 DEF Effect
    <3>4. Effect(c) = "filling"
      BY <1>2, <1>0, EffectIs DEF AttachFiles
    <3> QED
      BY <3>2, <3>3, <3>4, <1>0 DEF Phases
  <2>2. AD!Attach(c)
    BY <2>1, <1>0, <1>2 DEF AttachFiles, AD!Attach, AD!Adds, AD!Becomes, Phases
  <2> QED
    BY <2>2 DEF AD!ADNext
<1>3. CASE SendComposed(c)
  <2>1. /\ Phases' = [Phases EXCEPT ![c] = "done"] /\ Phases[c] = "whole"
    <3>1. asks' = asks /\ Goto(c, "over")
      BY <1>3 DEF SendComposed
    <3>2. step'[c] = "over" /\ Phases' = [Phases EXCEPT ![c] = Effect(c)']
      BY <3>1, <1>0, PhaseMoves
    <3>3. Effect(c)' = "done"
      BY <3>2 DEF Effect
    <3>4. Effect(c) = "whole"
      BY <1>3, <1>0, EffectIs DEF SendComposed
    <3> QED
      BY <3>2, <3>3, <3>4, <1>0 DEF Phases
  <2>2. AD!SendOwn(c)
    BY <2>1, <1>0, <1>3 DEF SendComposed, Composed, AD!SendOwn, AD!Becomes, Phases
  <2> QED
    BY <2>2 DEF AD!ADNext
<1>4. CASE DraftReady(c) \/ ComposeFails(c)
  <2>1. QuietStep(c)
    BY <1>4 DEF DraftReady, ComposeFails, QuietStep, AfterFailure, Goto
  <2> QED
    BY <2>1, <1>0, QuietImplements
<1> QED
  BY <1>1, <1>2, <1>3, <1>4 DEF ComposerStep

LEMMA StepImplements ==
  LockInv /\ ContentInv /\ Roles /\ [Next]_vars => [AD!ADNext]_(AD!adVars)
<1> SUFFICES ASSUME LockInv, ContentInv, Roles, [Next]_vars
             PROVE  [AD!ADNext]_(AD!adVars)
  OBVIOUS
<1>1. CASE UNCHANGED vars
  BY <1>1 DEF vars, sdVars, AD!adVars, Effect
<1> QED
  BY <1>1, NextCases, WebImplements, SoloImplements, LockStepImplements, ComposerImplements

LEMMA InitImplements == Init => AD!ADInit
<1> SUFFICES ASSUME Init PROVE AD!ADInit
  OBVIOUS
<1>1. Procs = Senders \cup Updaters
  OBVIOUS
<1>2. [p \in Callers |-> Effect(p)] = [p \in Senders \cup Updaters \cup Composers |-> "new"]
  BY DEF Init, Effect
<1> QED
  BY <1>1, <1>2 DEF Init, AD!ADInit, Nothing

(* Under every interleaving of lock, fetch, comparison and server calls,   *)
(* each update and each send acts on its draft in one step, and none finds *)
(* an update between its fields and its files (send_snapshot.go:28-37,     *)
(* drafts.go:166-168).                                                     *)
THEOREM DraftsAreAtomic == Spec => Atomic
<1>1. Init => LockInv /\ ContentInv /\ Roles
  BY InitLock, InitContent, InitRoles
<1>2. LockInv /\ ContentInv /\ Roles /\ [Next]_vars => (LockInv /\ ContentInv /\ Roles)'
  BY NextLock, NextContent, NextRoles
<1> QED
  BY <1>1, <1>2, InitImplements, StepImplements, PTL DEF Spec, Atomic, AD!ADSpec
=============================================================================
