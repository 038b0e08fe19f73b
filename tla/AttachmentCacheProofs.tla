----------------------- MODULE AttachmentCacheProofs -----------------------
(***************************************************************************)
(* Proofs about AttachmentCache, for any calls, attachments, sizes and     *)
(* number of sweeps.                                                       *)
(***************************************************************************)
EXTENDS AttachmentCache, FiniteSetTheorems, TLAPS

USE DEF Tools, Pcs, Answers, NoAtt, Uncached, At, Goto, Becomes, Ends, Ended, Fault

CallType == [pc : Pcs, tool : Tools \union {"none"}, att : Atts \union {NoAtt},
             seen : SUBSET Atts, try : 1 .. MaxTries + 1, answer : Answers]

(* A call on its way knows its attachment; one that creates a file owns it. *)
CallIsSound(r, c, saved) ==
    /\ r.pc \notin {"ready", "done"} \/ r.answer = "path" => r.att \in Atts
    /\ r.pc # "done" => r.answer = "none"
    /\ r.pc = "fill" =>
         /\ r.try \in DOMAIN saved
         /\ saved[r.try] = [owner |-> c, whole |-> FALSE]

CallInv == \A c \in Calls : CallIsSound(call[c], c, downloads)

(* A staging file is its own attachment's.  It is whole, or being written  *)
(* by a call that still has it under its name, or was cut short for a      *)
(* reason on record.                                                       *)
StagingInv ==
    /\ orphan \subseteq {c \in Calls : At(c, "write")}
    /\ \A n \in DOMAIN staged :
         /\ n = StagingName(staged[n].att)
         /\ staged[n].whole \/ n \in lost \/ \E c \in Writing(n) : c \notin orphan
    /\ \A c \in Calls : At(c, "write") \/ call[c].answer = "path" =>
         StagingName(call[c].att) \in DOMAIN staged \union lost

CacheInv == TypeOK /\ CallInv /\ StagingInv

LEMMA BoundsAreNat ==
    /\ MaxTries \in Nat /\ MaxTime \in Nat /\ MaxFaults \in Nat /\ MaxSweeps \in Nat
    /\ Retention \in Nat
  BY BoundsAssumption

LEMMA NameIsName == ASSUME NEW a \in Atts PROVE StagingName(a) \in Names
  BY DEF Names

LEMMA NameIsOwn ==
  ASSUME NEW a, NEW b, StagingName(a) = StagingName(b) PROVE a = b
  BY DEF StagingName

LEMMA InitCache == Init => CacheInv
<1> SUFFICES ASSUME Init PROVE CacheInv
  OBVIOUS
<1>1. TypeOK
  <2>1. call \in [Calls -> [pc : Pcs, tool : Tools \union {"none"}, att : Atts \union {NoAtt},
                           seen : SUBSET Atts, try : 1 .. MaxTries + 1, answer : Answers]]
    BY BoundsAreNat DEF Init
  <2>2. DOMAIN staged = {} /\ DOMAIN downloads = {}
    BY DEF Init
  <2>3. /\ sweep \in [pc : {"idle", "rows", "list", "files"}, cutoff : Int,
                     rest : SUBSET Names, doomed : SUBSET Names]
        /\ row \in [Atts -> 0 .. MaxTime \union {Uncached}]
    BY DEF Init
  <2>4. now \in 0 .. MaxTime /\ faults \in 0 .. MaxFaults /\ sweeps \in 0 .. MaxSweeps
    BY BoundsAreNat DEF Init
  <2> QED
    BY <2>1, <2>2, <2>3, <2>4 DEF Init, TypeOK
<1>2. CallInv /\ StagingInv
  BY DEF Init, CallInv, CallIsSound, StagingInv, Writing
<1> QED
  BY <1>1, <1>2 DEF CacheInv

----------------------------------------------------------------------------
(* Up to the bytes, and the cache: neither directory changes. *)

RowStep(c) ==
    \/ \E t \in Tools, a \in Atts : Start(c, t, a)
    \/ Lookup(c) \/ Envelope(c) \/ Fetch(c) \/ BytesFail(c)
    \/ SetAttachmentCache(c) \/ CacheFails(c)
    \/ SumAttachmentBytes(c) \/ EvictAttachmentsToFit(c) \/ EvictFails(c)
    \/ OpenFails(c)

(* Call c, which held no file, moves on and holds none. *)
Moves(c) ==
    /\ call' \in [Calls -> CallType]
    /\ \A d \in Calls : d # c => call'[d] = call[d]
    /\ call[c].pc \notin {"write", "fill"}
    /\ call'[c].pc \notin {"write", "fill"} /\ call'[c].answer # "path"
    /\ call'[c].pc \notin {"ready", "done"} => call'[c].att \in Atts
    /\ call'[c].pc # "done" => call'[c].answer = "none"

LEMMA GotoMoves ==
  ASSUME CacheInv, NEW c \in Calls, NEW p \in Pcs \ {"write", "fill", "done", "ready"},
         call[c].pc \notin {"ready", "write", "fill", "done"}, Goto(c, p)
  PROVE  Moves(c)
<1>1. call \in [Calls -> CallType] /\ call[c].att \in Atts /\ call[c].answer = "none"
  BY DEF CacheInv, TypeOK, CallType, CallInv, CallIsSound
<1>2. [call[c] EXCEPT !.pc = p] \in CallType
  BY <1>1 DEF CallType
<1>3. call'[c] = [call[c] EXCEPT !.pc = p]
  BY <1>1
<1> QED
  BY <1>1, <1>2, <1>3 DEF Moves, CallType

LEMMA EndsMoves ==
  ASSUME CacheInv, NEW c \in Calls, NEW ans \in Answers \ {"path"},
         call[c].pc \notin {"write", "fill"}, Ends(c, ans)
  PROVE  Moves(c)
<1>1. call \in [Calls -> CallType]
  BY DEF CacheInv, TypeOK, CallType
<1>2. call' = [call EXCEPT ![c] = [pc |-> "done", tool |-> "none", seen |-> {}, try |-> 1,
                                  answer |-> ans, att |-> NoAtt]]
  OBVIOUS
<1>3. [pc |-> "done", tool |-> "none", seen |-> {}, try |-> 1,
       answer |-> ans, att |-> NoAtt] \in CallType
  BY BoundsAreNat DEF CallType
<1> QED
  BY <1>1, <1>2, <1>3 DEF Moves

LEMMA DeliverMoves ==
  ASSUME CacheInv, NEW c \in Calls,
         call[c].pc \notin {"ready", "write", "fill", "done"}, Deliver(c)
  PROVE  Moves(c)
<1>1. CASE Goto(c, "place") \/ Goto(c, "open")
  BY <1>1, GotoMoves
<1>2. CASE Ends(c, "inline")
  <2>1. "inline" \in Answers \ {"path"}
    OBVIOUS
  <2> HIDE DEF Ends
  <2> QED
    BY <1>2, <2>1, EndsMoves
<1> QED
  BY <1>1, <1>2 DEF Deliver

LEMMA RowStepMoves ==
  ASSUME CacheInv, NEW c \in Calls, RowStep(c)
  PROVE  Moves(c)
<1>1. call \in [Calls -> CallType] /\ CallInv
  BY DEF CacheInv, TypeOK, CallType
<1>2. CASE \E t \in Tools, a \in Atts : Start(c, t, a)
  <2>1. PICK t \in Tools, a \in Atts : Start(c, t, a)
    BY <1>2
  <2>2. call' = [call EXCEPT ![c] = [call[c] EXCEPT !.pc = "lookup", !.tool = t, !.att = a]]
    BY <2>1 DEF Start
  <2>3. [call[c] EXCEPT !.pc = "lookup", !.tool = t, !.att = a] \in CallType
    BY <1>1 DEF CallType
  <2>4. call[c].pc = "ready" /\ call[c].answer = "none"
    BY <1>1, <2>1 DEF Start, CallInv, CallIsSound
  <2>5. call'[c] = [call[c] EXCEPT !.pc = "lookup", !.tool = t, !.att = a]
    BY <1>1, <2>2
  <2> QED
    BY <1>1, <2>2, <2>3, <2>4, <2>5 DEF Moves, CallType
<1>3. CASE Lookup(c)
  BY <1>3, DeliverMoves, GotoMoves DEF Lookup
<1>4. CASE Envelope(c) \/ Fetch(c) \/ BytesFail(c)
  BY <1>4, EndsMoves, GotoMoves DEF Envelope, Fetch, BytesFail
<1>5. CASE SetAttachmentCache(c) \/ CacheFails(c)
  BY <1>5, DeliverMoves, GotoMoves DEF SetAttachmentCache, CacheFails
<1>6. CASE SumAttachmentBytes(c)
  <2>1. CASE Deliver(c)
    BY <1>6, <2>1, DeliverMoves DEF SumAttachmentBytes
  <2>2. CASE Becomes(c, [call[c] EXCEPT !.pc = "evict", !.seen = Cached])
    <3>1. [call[c] EXCEPT !.pc = "evict", !.seen = Cached] \in CallType
      BY <1>1 DEF CallType, Cached
    <3>2. call[c].pc = "sum" /\ call[c].answer = "none" /\ call[c].att \in Atts
      BY <1>1, <1>6 DEF SumAttachmentBytes, CallInv, CallIsSound
    <3>3. call'[c] = [call[c] EXCEPT !.pc = "evict", !.seen = Cached]
      BY <1>1, <2>2
    <3> QED
      BY <1>1, <2>2, <3>1, <3>2, <3>3 DEF Moves, CallType
  <2> QED
    BY <1>6, <2>1, <2>2 DEF SumAttachmentBytes
<1>7. CASE EvictAttachmentsToFit(c) \/ EvictFails(c)
  BY <1>7, DeliverMoves DEF EvictAttachmentsToFit, EvictFails
<1>8. CASE OpenFails(c)
  <2>1. "error" \in Answers \ {"path"} /\ call[c].pc \notin {"write", "fill"}
    BY <1>8 DEF OpenFails
  <2> HIDE DEF Ends
  <2> QED
    BY <1>8, <2>1, EndsMoves DEF OpenFails
<1> QED
  BY <1>2, <1>3, <1>4, <1>5, <1>6, <1>7, <1>8 DEF RowStep

LEMMA RowKeeps ==
  ASSUME CacheInv, NEW c \in Calls, RowStep(c) PROVE CacheInv'
<1>0. TypeOK /\ CallInv /\ StagingInv
  BY DEF CacheInv
<1>1. Moves(c)
  BY RowStepMoves
<1>2. UNCHANGED <<now, files, downloads, sweep, sweeps>>
  BY DEF RowStep, Start, Lookup, Envelope, Fetch, BytesFail, SetAttachmentCache,
         CacheFails, SumAttachmentBytes, EvictAttachmentsToFit, EvictFails, OpenFails
<1>3. row' \in [Atts -> 0 .. MaxTime \union {Uncached}]
  <2>1. row \in [Atts -> 0 .. MaxTime \union {Uncached}] /\ now \in 0 .. MaxTime
    BY <1>0 DEF TypeOK
  <2>2. CASE SetAttachmentCache(c)
    BY <2>1, <2>2 DEF SetAttachmentCache
  <2>3. CASE EvictAttachmentsToFit(c)
    BY <2>1, <2>3 DEF EvictAttachmentsToFit
  <2>4. CASE row' = row
    BY <2>1, <2>4
  <2> QED
    BY <2>2, <2>3, <2>4 DEF RowStep, Start, Lookup, Envelope, Fetch, BytesFail,
         CacheFails, SumAttachmentBytes, EvictFails, OpenFails
<1>4. lapsed' \in BOOLEAN
  BY <1>0 DEF TypeOK, RowStep, Start, Lookup, Envelope, Fetch, BytesFail,
         SetAttachmentCache, CacheFails, SumAttachmentBytes, EvictAttachmentsToFit,
         EvictFails, OpenFails
<1>5. faults' \in 0 .. MaxFaults
  <2>1. CASE BytesFail(c) \/ CacheFails(c) \/ EvictFails(c) \/ OpenFails(c)
    <3>1. faults < MaxFaults /\ faults' = faults + 1
      BY <2>1 DEF BytesFail, CacheFails, EvictFails, OpenFails
    <3> QED
      BY <3>1, <1>0, BoundsAreNat DEF TypeOK
  <2>2. CASE ~(BytesFail(c) \/ CacheFails(c) \/ EvictFails(c) \/ OpenFails(c))
    <3>1. faults' = faults
      BY <2>2 DEF RowStep, Start, Lookup, Envelope, Fetch, SetAttachmentCache,
           SumAttachmentBytes, EvictAttachmentsToFit
    <3> QED
      BY <3>1, <1>0 DEF TypeOK
  <2> QED
    BY <2>1, <2>2
<1>7. TypeOK'
  BY <1>0, <1>1, <1>2, <1>3, <1>4, <1>5 DEF TypeOK, CallType, Moves, files
<1>8. CallInv'
  BY <1>0, <1>1, <1>2 DEF CallInv, CallIsSound, Moves
<1>9. StagingInv'
  <2>1. \A n : Writing(n)' = Writing(n)
    BY <1>1 DEF Writing, Moves
  <2> QED
    BY <2>1, <1>0, <1>1, <1>2 DEF StagingInv, Moves, files
<1> QED
  BY <1>7, <1>8, <1>9 DEF CacheInv

----------------------------------------------------------------------------
(* The staging directory. *)

LEMMA WithIs ==
  ASSUME NEW f, NEW n, NEW v
  PROVE  /\ DOMAIN With(f, n, v) = DOMAIN f \union {n}
         /\ With(f, n, v)[n] = v
         /\ \A x \in DOMAIN f : x # n => With(f, n, v)[x] = f[x]
  BY DEF With

LEMMA WithoutIs ==
  ASSUME NEW f, NEW n
  PROVE  /\ DOMAIN Without(f, n) = DOMAIN f \ {n}
         /\ \A x \in DOMAIN f \ {n} : Without(f, n)[x] = f[x]
  BY DEF Without

LEMMA OpenStagingKeeps ==
  ASSUME CacheInv, NEW c \in Calls, OpenStaging(c) PROVE CacheInv'
<1>0. TypeOK /\ CallInv /\ StagingInv /\ call[c] \in CallType /\ call[c].pc = "open"
      /\ call[c].att \in Atts
  BY DEF CacheInv, TypeOK, CallType, OpenStaging, CallInv, CallIsSound
<1> DEFINE a == call[c].att
<1>1. PICK n \in Names : n = StagingName(a)
  BY <1>0, NameIsName
<1> DEFINE v == [att |-> a, mtime |-> now, whole |-> FALSE]
<1>2. /\ staged' = With(staged, n, v) /\ lost' = lost \ {n}
      /\ call' = [call EXCEPT ![c] = [call[c] EXCEPT !.pc = "write"]]
      /\ UNCHANGED <<now, row, orphan, downloads, sweep, lapsed, faults, sweeps>>
  BY <1>1 DEF OpenStaging
<1>3. /\ DOMAIN staged' = DOMAIN staged \union {n} /\ staged'[n] = v
      /\ \A x \in DOMAIN staged : x # n => staged'[x] = staged[x]
  BY <1>2 DEF With
<1>4. /\ call' \in [Calls -> CallType]
      /\ call'[c] = [call[c] EXCEPT !.pc = "write"]
      /\ \A d \in Calls : d # c => call'[d] = call[d]
  BY <1>0, <1>2 DEF TypeOK, CallType
<1>5. TypeOK'
  <2>1. v \in [att : Atts, mtime : 0 .. MaxTime, whole : BOOLEAN]
    BY <1>0 DEF TypeOK
  <2>2. \A x \in DOMAIN staged' :
          staged'[x] \in [att : Atts, mtime : 0 .. MaxTime, whole : BOOLEAN]
    BY <1>0, <1>3, <2>1 DEF TypeOK
  <2>3. DOMAIN staged' \subseteq Names /\ lost' \subseteq Names
    BY <1>0, <1>1, <1>2, <1>3 DEF TypeOK
  <2> QED
    BY <1>0, <1>2, <1>4, <2>2, <2>3 DEF TypeOK, CallType
<1>6. CallInv'
  BY <1>0, <1>2, <1>4 DEF CallInv, CallIsSound, CallType
<1>7. StagingInv'
  <2>1. orphan' \subseteq {d \in Calls : At(d, "write")}' /\ c \notin orphan
    BY <1>0, <1>2, <1>4 DEF StagingInv
  <2>2. \A d \in Calls : \A x : d # c => (d \in Writing(x)' <=> d \in Writing(x))
    BY <1>4 DEF Writing
  <2>3. c \in Writing(n)'
    BY <1>0, <1>1, <1>4 DEF Writing, CallType
  <2>4. \A x \in DOMAIN staged' :
          /\ x = StagingName(staged'[x].att)
          /\ staged'[x].whole \/ x \in lost' \/ \E d \in Writing(x)' : d \notin orphan'
    <3> SUFFICES ASSUME NEW x \in DOMAIN staged'
                 PROVE  /\ x = StagingName(staged'[x].att)
                        /\ staged'[x].whole \/ x \in lost'
                           \/ \E d \in Writing(x)' : d \notin orphan'
      OBVIOUS
    <3>1. CASE x = n
      BY <3>1, <1>1, <1>2, <1>3, <2>1, <2>3
    <3>2. CASE x # n
      <4>1. \A d \in Writing(x) : d # c
        BY <1>0 DEF Writing
      <4> QED
        BY <3>2, <4>1, <1>0, <1>2, <1>3, <2>2 DEF StagingInv, Writing
    <3> QED
      BY <3>1, <3>2
  <2>5. \A d \in Calls : At(d, "write")' \/ call'[d].answer = "path" =>
          StagingName(call'[d].att) \in DOMAIN staged' \union lost'
    <3> SUFFICES ASSUME NEW d \in Calls, At(d, "write")' \/ call'[d].answer = "path"
                 PROVE  StagingName(call'[d].att) \in DOMAIN staged' \union lost'
      OBVIOUS
    <3>1. CASE d = c
      BY <3>1, <1>0, <1>1, <1>3, <1>4 DEF CallType
    <3>2. CASE d # c
      BY <3>2, <1>0, <1>2, <1>3, <1>4 DEF StagingInv
    <3> QED
      BY <3>1, <3>2
  <2> QED
    BY <2>1, <2>4, <2>5 DEF StagingInv, StagingName, Writing
<1> QED
  BY <1>5, <1>6, <1>7 DEF CacheInv

LEMMA WriteStagingKeeps ==
  ASSUME CacheInv, NEW c \in Calls, WriteStaging(c) PROVE CacheInv'
<1>0. TypeOK /\ CallInv /\ StagingInv /\ call[c] \in CallType /\ call[c].pc = "write"
      /\ call[c].att \in Atts
  BY DEF CacheInv, TypeOK, CallType, WriteStaging, CallInv, CallIsSound
<1> DEFINE a == call[c].att
           r == [pc |-> "done", tool |-> "none", seen |-> {}, try |-> 1,
                 answer |-> "path", att |-> a]
           v == [att |-> a, mtime |-> now, whole |-> TRUE]
<1>1. PICK n \in Names : n = StagingName(a)
  BY <1>0, NameIsName
<1>2. /\ orphan' = orphan \ {c}
      /\ call' = [call EXCEPT ![c] = r]
      /\ UNCHANGED <<now, row, lost, downloads, sweep, lapsed, faults, sweeps>>
  BY DEF WriteStaging
<1>3. /\ call' \in [Calls -> CallType]
      /\ call'[c] = r
      /\ \A d \in Calls : d # c => call'[d] = call[d]
  <2>1. call \in [Calls -> CallType] /\ r \in CallType
    BY <1>0, BoundsAreNat DEF TypeOK, CallType
  <2> QED
    BY <1>2, <2>1
<1>4. /\ DOMAIN staged' \subseteq Names
      /\ \A x \in DOMAIN staged' :
           /\ staged'[x] \in [att : Atts, mtime : 0 .. MaxTime, whole : BOOLEAN]
           /\ x = StagingName(staged'[x].att)
           /\ \/ x \in DOMAIN staged /\ staged'[x] = staged[x] /\ (x # n \/ c \in orphan)
              \/ staged'[x].whole
      /\ DOMAIN staged \subseteq DOMAIN staged'
  <2>1. CASE c \in orphan
    <3>1. staged' = staged
      BY <2>1 DEF WriteStaging
    <3> QED
      BY <3>1, <2>1, <1>0 DEF TypeOK, StagingInv
  <2>2. CASE c \notin orphan
    <3>1. staged' = With(staged, n, v)
      BY <2>2, <1>1 DEF WriteStaging
    <3>2. /\ DOMAIN staged' = DOMAIN staged \union {n} /\ staged'[n] = v
          /\ \A x \in DOMAIN staged : x # n => staged'[x] = staged[x]
      BY <3>1 DEF With
    <3>3. v \in [att : Atts, mtime : 0 .. MaxTime, whole : BOOLEAN]
      BY <1>0 DEF TypeOK
    <3>4. v.att = a /\ v.whole
      OBVIOUS
    <3>5. \A x \in DOMAIN staged :
            /\ staged[x] \in [att : Atts, mtime : 0 .. MaxTime, whole : BOOLEAN]
            /\ x = StagingName(staged[x].att)
            /\ x \in Names
      BY <1>0 DEF TypeOK, StagingInv
    <3> HIDE DEF v
    <3> QED
      BY <3>2, <3>3, <3>4, <3>5, <1>1
  <2> QED
    BY <2>1, <2>2
<1>5. TypeOK'
  BY <1>0, <1>2, <1>3, <1>4 DEF TypeOK, CallType
<1>6. CallInv'
  <2>1. CallIsSound(call'[c], c, downloads')
    BY <1>0, <1>3 DEF CallIsSound
  <2> QED
    BY <2>1, <1>0, <1>2, <1>3 DEF CallInv
<1>7. StagingInv'
  <2>1. orphan' \subseteq {d \in Calls : At(d, "write")}'
    BY <1>0, <1>2, <1>3 DEF StagingInv
  <2>2. \A d \in Calls : \A x : d # c => (d \in Writing(x)' <=> d \in Writing(x))
    BY <1>3 DEF Writing
  <2>3. \A x \in DOMAIN staged' :
          staged'[x].whole \/ x \in lost' \/ \E d \in Writing(x)' : d \notin orphan'
    <3> SUFFICES ASSUME NEW x \in DOMAIN staged', ~ staged'[x].whole, x \notin lost'
                 PROVE  \E d \in Writing(x)' : d \notin orphan'
      OBVIOUS
    <3>1. x \in DOMAIN staged /\ staged'[x] = staged[x] /\ (x # n \/ c \in orphan)
      BY <1>4
    <3>2. PICK d \in Writing(x) : d \notin orphan
      BY <3>1, <1>0, <1>2 DEF StagingInv
    <3>3. d # c /\ d \in Calls
      BY <3>1, <3>2, <1>1 DEF Writing
    <3> QED
      BY <3>2, <3>3, <2>2, <1>2
  <2>4. \A d \in Calls : At(d, "write")' \/ call'[d].answer = "path" =>
          StagingName(call'[d].att) \in DOMAIN staged' \union lost'
    <3> SUFFICES ASSUME NEW d \in Calls, At(d, "write")' \/ call'[d].answer = "path"
                 PROVE  StagingName(call'[d].att) \in DOMAIN staged' \union lost'
      OBVIOUS
    <3>1. /\ call'[d].att = call[d].att
          /\ At(d, "write") \/ call[d].answer = "path"
      BY <1>0, <1>3
    <3> QED
      BY <3>1, <1>0, <1>2, <1>4 DEF StagingInv
  <2> QED
    BY <2>1, <2>3, <2>4, <1>4 DEF StagingInv, StagingName, Writing
<1> QED
  BY <1>5, <1>6, <1>7 DEF CacheInv

(* A removed name is on record, and whoever was writing under it is an     *)
(* orphan: no name that stays loses its writer.                            *)
LEMMA UnlinkKeeps ==
  ASSUME CacheInv, NEW n \in Names, NEW by \in SUBSET Writing(n), Unlink(n, by),
         \A d \in Calls \ by : call'[d] = call[d],
         \A d \in by : call'[d].pc = "done" /\ call'[d].answer # "path"
  PROVE  /\ StagingInv'
         /\ DOMAIN staged' \subseteq Names /\ lost' \subseteq Names /\ orphan' \subseteq Calls
         /\ \A x \in DOMAIN staged' :
              staged'[x] \in [att : Atts, mtime : 0 .. MaxTime, whole : BOOLEAN]
<1>0. TypeOK /\ CallInv /\ StagingInv /\ by \subseteq Calls
  BY DEF CacheInv, Writing
<1>1. /\ DOMAIN staged' = DOMAIN staged \ {n}
      /\ \A x \in DOMAIN staged' : staged'[x] = staged[x]
      /\ orphan' = (orphan \union Writing(n)) \ by
      /\ lost' = lost \union {n}
  BY DEF Unlink, Without
<1>2. orphan' \subseteq {d \in Calls : At(d, "write")}'
  BY <1>0, <1>1 DEF StagingInv, Writing
<1>3. \A x \in DOMAIN staged' :
        /\ x = StagingName(staged'[x].att)
        /\ staged'[x].whole \/ x \in lost' \/ \E d \in Writing(x)' : d \notin orphan'
  <2> SUFFICES ASSUME NEW x \in DOMAIN staged'
               PROVE  /\ x = StagingName(staged'[x].att)
                      /\ staged'[x].whole \/ x \in lost' \/ \E d \in Writing(x)' : d \notin orphan'
    OBVIOUS
  <2>1. x \in DOMAIN staged /\ staged'[x] = staged[x] /\ x # n
    BY <1>1
  <2>2. staged[x].whole \/ x \in lost \/ \E d \in Writing(x) : d \notin orphan
    BY <2>1, <1>0 DEF StagingInv
  <2>3. ASSUME NEW d \in Writing(x), d \notin orphan PROVE d \in Writing(x)' /\ d \notin orphan'
    <3>1. d \in Calls /\ d \notin Writing(n)
      BY <2>1 DEF Writing
    <3>2. call'[d] = call[d]
      BY <3>1
    <3> QED
      BY <2>3, <3>1, <3>2, <1>1 DEF Writing
  <2> QED
    BY <2>1, <2>2, <2>3, <1>0, <1>1 DEF StagingInv
<1>4. \A d \in Calls : At(d, "write")' \/ call'[d].answer = "path" =>
        StagingName(call'[d].att) \in DOMAIN staged' \union lost'
  <2> SUFFICES ASSUME NEW d \in Calls, At(d, "write")' \/ call'[d].answer = "path"
               PROVE  StagingName(call'[d].att) \in DOMAIN staged' \union lost'
    OBVIOUS
  <2>1. call'[d] = call[d]
    OBVIOUS
  <2> QED
    BY <2>1, <1>0, <1>1 DEF StagingInv
<1>5. /\ DOMAIN staged' \subseteq Names /\ lost' \subseteq Names /\ orphan' \subseteq Calls
      /\ \A x \in DOMAIN staged' :
           staged'[x] \in [att : Atts, mtime : 0 .. MaxTime, whole : BOOLEAN]
  BY <1>0, <1>1 DEF TypeOK, Writing
<1> QED
  BY <1>2, <1>3, <1>4, <1>5 DEF StagingInv, StagingName, Writing

LEMMA WriteFailsKeeps ==
  ASSUME CacheInv, NEW c \in Calls, WriteFails(c) PROVE CacheInv'
<1>0. TypeOK /\ CallInv /\ StagingInv /\ call[c] \in CallType /\ call[c].pc = "write"
      /\ call[c].att \in Atts
  BY DEF CacheInv, TypeOK, CallType, WriteFails, CallInv, CallIsSound
<1> DEFINE r == [pc |-> "done", tool |-> "none", seen |-> {}, try |-> 1,
                 answer |-> "error", att |-> NoAtt]
<1>1. PICK n \in Names : n = StagingName(call[c].att)
  BY <1>0, NameIsName
<1>2. /\ Unlink(n, {c})
      /\ call' = [call EXCEPT ![c] = r]
      /\ faults < MaxFaults /\ faults' = faults + 1
      /\ UNCHANGED <<now, row, downloads, sweep, lapsed, sweeps>>
  BY <1>1 DEF WriteFails
<1>3. /\ call' \in [Calls -> CallType]
      /\ call'[c] = r
      /\ \A d \in Calls : d # c => call'[d] = call[d]
  <2>1. call \in [Calls -> CallType] /\ r \in CallType
    BY <1>0, BoundsAreNat DEF TypeOK, CallType
  <2> QED
    BY <1>2, <2>1
<1>4. {c} \in SUBSET Writing(n)
  BY <1>0, <1>1 DEF Writing
<1>5. /\ StagingInv'
      /\ DOMAIN staged' \subseteq Names /\ lost' \subseteq Names /\ orphan' \subseteq Calls
      /\ \A x \in DOMAIN staged' :
           staged'[x] \in [att : Atts, mtime : 0 .. MaxTime, whole : BOOLEAN]
  BY <1>2, <1>3, <1>4, UnlinkKeeps
<1>6. faults' \in 0 .. MaxFaults
  BY <1>0, <1>2, BoundsAreNat DEF TypeOK
<1>7. TypeOK'
  BY <1>0, <1>2, <1>3, <1>5, <1>6 DEF TypeOK, CallType
<1>8. CallInv'
  <2>1. CallIsSound(call'[c], c, downloads')
    BY <1>3 DEF CallIsSound
  <2> QED
    BY <2>1, <1>0, <1>2, <1>3 DEF CallInv
<1> QED
  BY <1>5, <1>7, <1>8 DEF CacheInv

----------------------------------------------------------------------------
(* ~/Downloads: the staging directory is untouched. *)

SavedFile == [owner : Calls \union {"user"}, whole : BOOLEAN]

LEMMA StagingFrame ==
  ASSUME CacheInv, UNCHANGED files, NEW c \in Calls,
         \A d \in Calls : d # c => call'[d] = call[d],
         call[c].pc # "write", call'[c].pc # "write", call'[c].answer # "path"
  PROVE  StagingInv'
<1>0. StagingInv /\ staged' = staged /\ orphan' = orphan /\ lost' = lost
  BY DEF CacheInv, files
<1>1. \A n : Writing(n)' = Writing(n)
  BY DEF Writing
<1> QED
  BY <1>0, <1>1 DEF StagingInv

LEMMA OpenExclusiveKeeps ==
  ASSUME CacheInv, NEW c \in Calls, OpenExclusive(c) PROVE CacheInv'
<1>0. TypeOK /\ CallInv /\ call[c] \in CallType /\ call[c].pc = "place"
      /\ call[c].att \in Atts /\ call[c].answer = "none" /\ call \in [Calls -> CallType]
  BY DEF CacheInv, TypeOK, CallType, OpenExclusive, CallInv, CallIsSound
<1>1. /\ UNCHANGED <<now, row, files, sweep, lapsed, faults, sweeps>>
      /\ UNCHANGED <<staged, orphan, lost>>
  BY DEF OpenExclusive, files
<1>2. PICK i \in 1 .. MaxTries + 1 : i = call[c].try
  BY <1>0 DEF CallType
<1>3. /\ call' \in [Calls -> CallType]
      /\ \A d \in Calls : d # c => call'[d] = call[d]
      /\ call'[c].pc # "write" /\ call'[c].answer # "path"
      /\ CallIsSound(call'[c], c, downloads')
      /\ \/ downloads' = downloads
         \/ /\ i \in 1 .. MaxTries /\ i \notin DOMAIN downloads
            /\ downloads' = With(downloads, i, [owner |-> c, whole |-> FALSE])
  <2>1. CASE OutOfTries(i)
    <3> DEFINE r == [pc |-> "done", tool |-> "none", seen |-> {}, try |-> 1,
                     answer |-> "error", att |-> NoAtt]
    <3>1. call' = [call EXCEPT ![c] = r] /\ downloads' = downloads
      BY <2>1, <1>2 DEF OpenExclusive
    <3>2. r \in CallType
      BY BoundsAreNat DEF CallType
    <3>3. call' \in [Calls -> CallType] /\ call'[c] = r
          /\ \A d \in Calls : d # c => call'[d] = call[d]
      BY <1>0, <3>1, <3>2
    <3> QED
      BY <3>1, <3>3 DEF CallIsSound
  <2>2. CASE ~ OutOfTries(i) /\ Taken(i)
    <3> DEFINE r == [call[c] EXCEPT !.try = i + 1]
    <3>1. call' = [call EXCEPT ![c] = r] /\ downloads' = downloads
      BY <2>2, <1>2 DEF OpenExclusive
    <3>2. i + 1 \in 1 .. MaxTries + 1
      BY <2>2, <1>2, BoundsAreNat DEF OutOfTries
    <3>3. r \in CallType /\ r.pc = "place" /\ r.answer = "none" /\ r.att \in Atts
      BY <1>0, <3>2 DEF CallType
    <3>4. call' \in [Calls -> CallType] /\ call'[c] = r
          /\ \A d \in Calls : d # c => call'[d] = call[d]
      BY <1>0, <3>1, <3>3
    <3> QED
      BY <3>1, <3>3, <3>4 DEF CallIsSound
  <2>3. CASE ~ OutOfTries(i) /\ ~ Taken(i)
    <3> DEFINE r == [call[c] EXCEPT !.pc = "fill"]
               v == [owner |-> c, whole |-> FALSE]
    <3>1. call' = [call EXCEPT ![c] = r] /\ downloads' = With(downloads, i, v)
      BY <2>3, <1>2 DEF OpenExclusive
    <3>2. i \in 1 .. MaxTries /\ i \notin DOMAIN downloads
      BY <2>3, <1>2, BoundsAreNat DEF OutOfTries, Taken
    <3>3. r \in CallType /\ r.pc = "fill" /\ r.answer = "none" /\ r.att \in Atts /\ r.try = i
      BY <1>0, <1>2 DEF CallType
    <3>4. call' \in [Calls -> CallType] /\ call'[c] = r
          /\ \A d \in Calls : d # c => call'[d] = call[d]
      BY <1>0, <3>1, <3>3
    <3>5. i \in DOMAIN downloads' /\ downloads'[i] = v
      BY <3>1 DEF With
    <3> QED
      BY <3>1, <3>2, <3>3, <3>4, <3>5 DEF CallIsSound
  <2> QED
    BY <2>1, <2>2, <2>3
<1>4. /\ DOMAIN downloads' \subseteq 1 .. MaxTries
      /\ \A j \in DOMAIN downloads' : downloads'[j] \in SavedFile
      /\ \A j \in DOMAIN downloads : j \in DOMAIN downloads' /\ downloads'[j] = downloads[j]
  <2>1. /\ DOMAIN downloads \subseteq 1 .. MaxTries
        /\ \A j \in DOMAIN downloads : downloads[j] \in SavedFile
    BY <1>0 DEF TypeOK, SavedFile
  <2>2. CASE downloads' = downloads
    BY <2>1, <2>2
  <2>3. CASE /\ i \in 1 .. MaxTries /\ i \notin DOMAIN downloads
             /\ downloads' = With(downloads, i, [owner |-> c, whole |-> FALSE])
    <3>1. /\ DOMAIN downloads' = DOMAIN downloads \union {i}
          /\ downloads'[i] = [owner |-> c, whole |-> FALSE]
          /\ \A j \in DOMAIN downloads : j # i => downloads'[j] = downloads[j]
      BY <2>3 DEF With
    <3>2. [owner |-> c, whole |-> FALSE] \in SavedFile
      BY DEF SavedFile
    <3> QED
      BY <2>1, <2>3, <3>1, <3>2
  <2> QED
    BY <1>3, <2>2, <2>3
<1>5. TypeOK'
  BY <1>0, <1>1, <1>3, <1>4 DEF TypeOK, CallType, SavedFile
<1>6. CallInv'
  BY <1>0, <1>3, <1>4 DEF CallInv, CallIsSound
<1>7. StagingInv'
  BY <1>0, <1>1, <1>3, StagingFrame
<1> QED
  BY <1>5, <1>6, <1>7 DEF CacheInv

(* A call writes or removes only the file it created itself.               *)
SaveEnds(c) == SaveWrites(c) \/ SaveFails(c)

LEMMA SaveEndsKeeps ==
  ASSUME CacheInv, NEW c \in Calls, SaveEnds(c)
  PROVE  /\ CacheInv'
         /\ \A j \in DOMAIN downloads :
              downloads[j].whole => j \in DOMAIN downloads' /\ downloads'[j] = downloads[j]
<1>0. TypeOK /\ CallInv /\ call[c] \in CallType /\ call[c].pc = "fill"
      /\ call \in [Calls -> CallType]
  BY DEF CacheInv, TypeOK, CallType, SaveEnds, SaveWrites, SaveFails
<1>1. PICK i \in DOMAIN downloads : i = call[c].try
  BY <1>0 DEF CallInv, CallIsSound
<1>2. downloads[i] = [owner |-> c, whole |-> FALSE]
  BY <1>0, <1>1 DEF CallInv, CallIsSound
<1>3. /\ UNCHANGED <<now, row, files, sweep, lapsed, sweeps>>
      /\ UNCHANGED <<staged, orphan, lost>>
      /\ faults' \in 0 .. MaxFaults
  <2>0. faults \in 0 .. MaxFaults /\ MaxFaults \in Nat
    BY <1>0, BoundsAreNat DEF TypeOK
  <2>1. ASSUME SaveWrites(c) PROVE faults' \in 0 .. MaxFaults
    <3>1. faults' = faults
      BY <2>1 DEF SaveWrites
    <3> QED
      BY <3>1, <2>0
  <2>2. ASSUME SaveFails(c) PROVE faults' \in 0 .. MaxFaults
    <3>1. faults < MaxFaults /\ faults' = faults + 1
      BY <2>2 DEF SaveFails
    <3> QED
      BY <3>1, <2>0
  <2> QED
    BY <2>1, <2>2 DEF SaveEnds, SaveWrites, SaveFails, files
<1>4. PICK ans \in {"saved", "error"} :
        call' = [call EXCEPT ![c] = [pc |-> "done", tool |-> "none", seen |-> {}, try |-> 1,
                                    answer |-> ans, att |-> NoAtt]]
  BY DEF SaveEnds, SaveWrites, SaveFails
<1>5. /\ call' \in [Calls -> CallType]
      /\ \A d \in Calls : d # c => call'[d] = call[d]
      /\ call'[c].pc = "done" /\ call'[c].answer # "path"
  <2>1. [pc |-> "done", tool |-> "none", seen |-> {}, try |-> 1,
         answer |-> ans, att |-> NoAtt] \in CallType
    BY BoundsAreNat DEF CallType
  <2> QED
    BY <1>0, <1>4, <2>1
<1>6. /\ DOMAIN downloads' \subseteq DOMAIN downloads
      /\ \A j \in DOMAIN downloads :
           j # i => j \in DOMAIN downloads' /\ downloads'[j] = downloads[j]
      /\ \A j \in DOMAIN downloads' : downloads'[j] \in SavedFile
  <2>1. \A j \in DOMAIN downloads : downloads[j] \in SavedFile
    BY <1>0 DEF TypeOK, SavedFile
  <2>2. CASE SaveWrites(c)
    <3>1. downloads' = With(downloads, i, [owner |-> c, whole |-> TRUE])
      BY <2>2, <1>1 DEF SaveWrites
    <3>2. /\ DOMAIN downloads' = DOMAIN downloads \union {i}
          /\ downloads'[i] = [owner |-> c, whole |-> TRUE]
          /\ \A j \in DOMAIN downloads : j # i => downloads'[j] = downloads[j]
      BY <3>1 DEF With
    <3>3. [owner |-> c, whole |-> TRUE] \in SavedFile
      BY DEF SavedFile
    <3> QED
      BY <2>1, <3>2, <3>3
  <2>3. CASE SaveFails(c)
    <3>1. downloads' = Without(downloads, i)
      BY <2>3, <1>1 DEF SaveFails
    <3>2. /\ DOMAIN downloads' = DOMAIN downloads \ {i}
          /\ \A j \in DOMAIN downloads : j # i => downloads'[j] = downloads[j]
      BY <3>1 DEF Without
    <3> QED
      BY <2>1, <3>2
  <2> QED
    BY <2>2, <2>3 DEF SaveEnds
<1>7. TypeOK'
  BY <1>0, <1>3, <1>5, <1>6 DEF TypeOK, CallType, SavedFile
<1>8. CallInv'
  <2>1. ASSUME NEW d \in Calls, d # c PROVE CallIsSound(call[d], d, downloads')
    <3>1. CallIsSound(call[d], d, downloads)
      BY <1>0 DEF CallInv
    <3>2. CASE call[d].pc = "fill"
      <4>1. downloads[call[d].try] = [owner |-> d, whole |-> FALSE]
            /\ call[d].try \in DOMAIN downloads
        BY <3>1, <3>2 DEF CallIsSound
      <4>2. call[d].try # i
        BY <2>1, <4>1, <1>2
      <4> QED
        BY <3>1, <4>1, <4>2, <1>6 DEF CallIsSound
    <3>3. CASE call[d].pc # "fill"
      BY <3>1, <3>3 DEF CallIsSound
    <3> QED
      BY <3>2, <3>3
  <2>2. CallIsSound(call'[c], c, downloads')
    BY <1>5 DEF CallIsSound
  <2> QED
    BY <2>1, <2>2, <1>5 DEF CallInv
<1>9. StagingInv'
  BY <1>0, <1>3, <1>5, StagingFrame
<1> QED
  BY <1>2, <1>6, <1>7, <1>8, <1>9 DEF CacheInv

LEMMA UserKeeps ==
  ASSUME CacheInv, NEW i \in 1 .. MaxTries, UserAddsFile(i)
  PROVE  /\ CacheInv'
         /\ \A j \in DOMAIN downloads : j \in DOMAIN downloads' /\ downloads'[j] = downloads[j]
<1>0. TypeOK /\ CallInv /\ StagingInv
  BY DEF CacheInv
<1>1. /\ i \notin DOMAIN downloads
      /\ UNCHANGED <<now, row, staged, orphan, lost, call, sweep, lapsed, faults, sweeps>>
  BY DEF UserAddsFile, files
<1>2. /\ DOMAIN downloads' = DOMAIN downloads \union {i}
      /\ downloads'[i] = [owner |-> "user", whole |-> TRUE]
      /\ \A j \in DOMAIN downloads : j # i => downloads'[j] = downloads[j]
  BY DEF UserAddsFile, With
<1>3. \A j \in DOMAIN downloads : j \in DOMAIN downloads' /\ downloads'[j] = downloads[j]
  BY <1>1, <1>2
<1>4. TypeOK'
  <2>1. [owner |-> "user", whole |-> TRUE] \in SavedFile
    BY DEF SavedFile
  <2>2. /\ DOMAIN downloads' \subseteq 1 .. MaxTries
        /\ \A j \in DOMAIN downloads' : downloads'[j] \in SavedFile
    BY <1>0, <1>2, <1>3, <2>1 DEF TypeOK, SavedFile
  <2> QED
    BY <1>0, <1>1, <2>2 DEF TypeOK, SavedFile
<1>5. CallInv'
  BY <1>0, <1>1, <1>3 DEF CallInv, CallIsSound
<1>6. StagingInv'
  BY <1>0, <1>1 DEF StagingInv, Writing
<1> QED
  BY <1>3, <1>4, <1>5, <1>6 DEF CacheInv

----------------------------------------------------------------------------
(* Sweeps, a crash, the clock. *)

SweepType == [pc : {"idle", "rows", "list", "files"}, cutoff : Int,
              rest : SUBSET Names, doomed : SUBSET Names]

SweepReads ==
    \/ SweepBegins(FALSE, now - Retention)
    \/ SweepBegins(TRUE, now - Retention)
    \/ SweepBegins(TRUE, now)
    \/ PurgeAttachmentsOlderThan \/ ReadDir \/ SweepEnds
    \/ \E n \in Names : SweepInfo(n)

LEMMA SweepReadsKeep == ASSUME CacheInv, SweepReads PROVE CacheInv'
<1>0. TypeOK /\ CallInv /\ StagingInv /\ sweep \in SweepType
  BY DEF CacheInv, TypeOK, SweepType
<1>1. UNCHANGED <<now, staged, orphan, lost, downloads, call, lapsed, faults>>
  BY DEF SweepReads, SweepBegins, PurgeAttachmentsOlderThan, ReadDir, SweepEnds, SweepInfo, files
<1>2. sweep' \in SweepType /\ sweeps' \in 0 .. MaxSweeps
  <2>1. CASE \/ SweepBegins(FALSE, now - Retention)
             \/ SweepBegins(TRUE, now - Retention)
             \/ SweepBegins(TRUE, now)
    <3>1. PICK rows \in BOOLEAN, cutoff \in Int : SweepBegins(rows, cutoff)
      <4>1. now \in Int /\ now - Retention \in Int
        BY <1>0, BoundsAreNat DEF TypeOK
      <4> QED
        BY <2>1, <4>1
    <3>2. sweep' \in SweepType
      BY <3>1, <1>0 DEF SweepBegins, SweepType
    <3>3. sweeps' \in 0 .. MaxSweeps
      BY <3>1, <1>0, BoundsAreNat DEF SweepBegins, TypeOK
    <3> QED
      BY <3>2, <3>3
  <2>2. CASE PurgeAttachmentsOlderThan
    BY <2>2, <1>0 DEF PurgeAttachmentsOlderThan, SweepType, TypeOK
  <2>3. CASE ReadDir
    BY <2>3, <1>0 DEF ReadDir, SweepType, TypeOK
  <2>4. CASE SweepEnds
    <3>1. PICK z \in Int : z = 0
      OBVIOUS
    <3>2. PICK t \in SweepType : t = [sweep EXCEPT !.pc = "idle"]
      BY <1>0 DEF SweepType
    <3>3. sweep' = [t EXCEPT !.cutoff = z] /\ sweeps' = sweeps
      BY <2>4, <3>1, <3>2 DEF SweepEnds
    <3>4. sweep' \in SweepType
      BY <3>3 DEF SweepType
    <3> QED
      BY <3>3, <3>4, <1>0 DEF TypeOK
  <2>5. CASE \E n \in Names : SweepInfo(n)
    <3>1. PICK n \in Names : SweepInfo(n)
      BY <2>5
    <3> QED
      BY <3>1, <1>0 DEF SweepInfo, SweepType, TypeOK
  <2> QED
    BY <2>1, <2>2, <2>3, <2>4, <2>5 DEF SweepReads
<1>3. row' \in [Atts -> 0 .. MaxTime \union {Uncached}]
  BY <1>0 DEF TypeOK, SweepReads, SweepBegins, PurgeAttachmentsOlderThan, ReadDir, SweepEnds,
       SweepInfo
<1>4. TypeOK'
  BY <1>0, <1>1, <1>2, <1>3 DEF TypeOK, SweepType
<1>5. CallInv' /\ StagingInv'
  BY <1>0, <1>1 DEF CallInv, CallIsSound, StagingInv, Writing
<1> QED
  BY <1>4, <1>5 DEF CacheInv

LEMMA SweepRemoveKeeps ==
  ASSUME CacheInv, NEW n \in Names, SweepRemove(n) PROVE CacheInv'
<1>0. TypeOK /\ CallInv /\ StagingInv /\ sweep \in SweepType
  BY DEF CacheInv, TypeOK, SweepType
<1>1. UNCHANGED <<now, row, downloads, call, lapsed, faults, sweeps>>
  BY DEF SweepRemove
<1>2. sweep' \in SweepType
  BY <1>0 DEF SweepRemove, SweepType
<1>3. /\ StagingInv'
      /\ DOMAIN staged' \subseteq Names /\ lost' \subseteq Names /\ orphan' \subseteq Calls
      /\ \A x \in DOMAIN staged' :
           staged'[x] \in [att : Atts, mtime : 0 .. MaxTime, whole : BOOLEAN]
  <2>1. CASE n \in DOMAIN staged
    <3>1. Unlink(n, {}) /\ {} \in SUBSET Writing(n)
      BY <2>1 DEF SweepRemove
    <3>2. /\ \A d \in Calls \ {} : call'[d] = call[d]
          /\ \A d \in {} : call'[d].pc = "done" /\ call'[d].answer # "path"
      BY <1>1
    <3> QED
      BY <3>1, <3>2, UnlinkKeeps
  <2>2. CASE n \notin DOMAIN staged
    <3>1. UNCHANGED <<staged, orphan, lost>>
      BY <2>2 DEF SweepRemove, files
    <3> QED
      BY <3>1, <1>0, <1>1 DEF TypeOK, StagingInv, Writing
  <2> QED
    BY <2>1, <2>2
<1>4. TypeOK'
  BY <1>0, <1>1, <1>2, <1>3 DEF TypeOK, SweepType
<1>5. CallInv'
  BY <1>0, <1>1 DEF CallInv, CallIsSound
<1> QED
  BY <1>3, <1>4, <1>5 DEF CacheInv

LEMMA CrashKeeps == ASSUME CacheInv, Crash PROVE CacheInv'
<1>0. TypeOK /\ CallInv /\ StagingInv /\ call \in [Calls -> CallType]
  BY DEF CacheInv, TypeOK, CallType
<1> DEFINE live == {c \in Calls : call[c].pc \notin {"ready", "done"}}
           r == [pc |-> "done", tool |-> "none", seen |-> {}, try |-> 1,
                 answer |-> "lost", att |-> NoAtt]
<1>1. /\ call' = [c \in Calls |-> IF c \in live THEN r ELSE call[c]]
      /\ lost' = lost \union {StagingName(call[c].att) : c \in {d \in live : At(d, "write")}}
      /\ orphan' = {}
      /\ faults < MaxFaults /\ faults' = faults + 1
      /\ lapsed' \in BOOLEAN
      /\ UNCHANGED <<now, row, staged, downloads, sweep, sweeps>>
  BY <1>0 DEF Crash, TypeOK
<1>2. /\ call' \in [Calls -> CallType]
      /\ \A c \in Calls : c \in live => call'[c] = r
      /\ \A c \in Calls : c \notin live => call'[c] = call[c] /\ call[c].pc \in {"ready", "done"}
  <2>1. r \in CallType
    BY BoundsAreNat DEF CallType
  <2> QED
    BY <1>0, <1>1, <2>1
<1>3. \A c \in Calls : call[c].pc = "write" =>
        /\ StagingName(call[c].att) \in Names
        /\ StagingName(call[c].att) \in lost'
  <2> SUFFICES ASSUME NEW c \in Calls, call[c].pc = "write"
               PROVE  StagingName(call[c].att) \in Names /\ StagingName(call[c].att) \in lost'
    OBVIOUS
  <2>1. call[c].att \in Atts
    BY <1>0 DEF CallInv, CallIsSound
  <2> QED
    BY <1>1, <2>1, NameIsName
<1>4. lost \subseteq lost' /\ lost' \subseteq Names
  BY <1>0, <1>1, <1>3 DEF TypeOK
<1>5. faults' \in 0 .. MaxFaults
  BY <1>0, <1>1, BoundsAreNat DEF TypeOK
<1>6. TypeOK'
  BY <1>0, <1>1, <1>2, <1>4, <1>5 DEF TypeOK, CallType
<1>7. CallInv'
  BY <1>0, <1>1, <1>2 DEF CallInv, CallIsSound
<1>8. StagingInv'
  <2>1. \A x \in DOMAIN staged' :
          /\ x = StagingName(staged'[x].att)
          /\ staged'[x].whole \/ x \in lost'
    <3> SUFFICES ASSUME NEW x \in DOMAIN staged
                 PROVE  x = StagingName(staged[x].att) /\ (staged[x].whole \/ x \in lost')
      BY <1>1
    <3>1. /\ x = StagingName(staged[x].att)
          /\ staged[x].whole \/ x \in lost \/ \E c \in Writing(x) : c \notin orphan
      BY <1>0 DEF StagingInv
    <3>2. \A c \in Writing(x) : x \in lost'
      BY <1>3 DEF Writing
    <3> QED
      BY <3>1, <3>2, <1>4
  <2>2. \A c \in Calls : At(c, "write")' \/ call'[c].answer = "path" =>
          StagingName(call'[c].att) \in DOMAIN staged' \union lost'
    <3> SUFFICES ASSUME NEW c \in Calls, At(c, "write")' \/ call'[c].answer = "path"
                 PROVE  StagingName(call'[c].att) \in DOMAIN staged' \union lost'
      OBVIOUS
    <3>1. call'[c] = call[c] /\ call[c].answer = "path"
      BY <1>2
    <3> QED
      BY <3>1, <1>0, <1>1, <1>4 DEF StagingInv
  <2> QED
    BY <2>1, <2>2, <1>1 DEF StagingInv, StagingName, Writing
<1> QED
  BY <1>6, <1>7, <1>8 DEF CacheInv

LEMMA TickKeeps == ASSUME CacheInv, Tick PROVE CacheInv'
<1>0. TypeOK /\ CallInv /\ StagingInv
  BY DEF CacheInv
<1>1. /\ now < MaxTime /\ now' = now + 1
      /\ UNCHANGED <<row, staged, orphan, lost, downloads, call, sweep, lapsed, faults, sweeps>>
  BY DEF Tick, files
<1>2. now' \in 0 .. MaxTime
  BY <1>0, <1>1, BoundsAreNat DEF TypeOK
<1>3. TypeOK'
  BY <1>0, <1>1, <1>2 DEF TypeOK
<1>4. CallInv' /\ StagingInv'
  BY <1>0, <1>1 DEF CallInv, CallIsSound, StagingInv, Writing
<1> QED
  BY <1>3, <1>4 DEF CacheInv

----------------------------------------------------------------------------
(* Sums of sizes: what MapThenSumSet gives for a finite set of attachments. *)

(* The function that MapThenSumSet chooses to add up the sizes of A.        *)
SumStep(g, s) == IF s = {} THEN 0
                 ELSE Size[CHOOSE x \in s : TRUE] + g[s \ {CHOOSE x \in s : TRUE}]
Adds(g, A) == g = [s \in SUBSET A |-> SumStep(g, s)]

LEMMA BytesIsSum == \A A : Bytes(A) = (CHOOSE g : Adds(g, A))[A]
  BY Zenon DEF Bytes, MapThenSumSet, MapThenFoldSet, Adds, SumStep

(* A collection of subsets of a finite set has a smallest one. *)
LEMMA SmallestSubset ==
  ASSUME NEW A, IsFiniteSet(A), NEW T, T \subseteq SUBSET A, T # {}
  PROVE  \E s \in T : \A t \in T : t \subseteq s => t = s
<1>1. T \subseteq FiniteSubsetsOf(A)
  BY FS_Subset DEF FiniteSubsetsOf
<1>2. IsWellFoundedOn(StrictSubsetOrdering(A), FiniteSubsetsOf(A))
  BY FS_StrictSubsetOrderingWellFounded
<1>3. PICK s \in T : \A t \in T : ~ (<<t, s>> \in StrictSubsetOrdering(A))
  BY <1>1, <1>2, WFMin, Zenon
<1>4. \A t \in T : t \subseteq s => t = s
  BY <1>3 DEF StrictSubsetOrdering
<1> QED
  BY <1>4

(* Sums of up to n sizes can be tabulated. *)
UpTo(A, n) == {s \in SUBSET A : Cardinality(s) <= n}
Tabulated(A, n) ==
    \E g \in [UpTo(A, n) -> Nat] : \A s \in UpTo(A, n) : g[s] = SumStep(g, s)

LEMMA ChoosesMember ==
  ASSUME NEW s, s # {} PROVE (CHOOSE x \in s : TRUE) \in s
  OBVIOUS

LEMMA SumsTabulated ==
  ASSUME NEW A, IsFiniteSet(A), A \subseteq Atts PROVE \A n \in Nat : Tabulated(A, n)
<1> DEFINE Missing == {n \in Nat : ~ Tabulated(A, n)}
<1>1. SUFFICES ASSUME Missing # {} PROVE FALSE
  OBVIOUS
<1>2. PICK n \in Missing : \A m \in Missing : ~ (<<m, n>> \in OpToRel(<, Nat))
  <2>1. Missing \subseteq Nat
    OBVIOUS
  <2> HIDE DEF Missing
  <2> QED
    BY <1>1, <2>1, NatLessThanWellFounded, WFMin, Zenon
<1>3. \A s \in SUBSET A : Cardinality(s) \in Nat /\ (Cardinality(s) = 0 <=> s = {})
  BY FS_Subset, FS_CardinalityType, FS_EmptySet
<1>4. CASE n = 0
  <2>1. UpTo(A, 0) = {{}}
    BY <1>3 DEF UpTo
  <2>2. [s \in UpTo(A, 0) |-> 0] \in [UpTo(A, 0) -> Nat]
    OBVIOUS
  <2>3. Tabulated(A, 0)
    BY <2>1, <2>2 DEF Tabulated, SumStep
  <2> QED
    BY <1>2, <1>4, <2>3
<1>5. CASE n # 0
  <2>1. n - 1 \in Nat /\ <<n - 1, n>> \in OpToRel(<, Nat)
    BY <1>5 DEF OpToRel
  <2>2. Tabulated(A, n - 1)
    BY <1>2, <2>1
  <2>3. PICK g \in [UpTo(A, n - 1) -> Nat] : \A s \in UpTo(A, n - 1) : g[s] = SumStep(g, s)
    BY <2>2 DEF Tabulated
  <2> DEFINE h == [s \in UpTo(A, n) |-> SumStep(g, s)]
  <2>4. \A s \in UpTo(A, n) : s # {} => s \ {CHOOSE x \in s : TRUE} \in UpTo(A, n - 1)
    <3> SUFFICES ASSUME NEW s \in UpTo(A, n), s # {}
                 PROVE  s \ {CHOOSE x \in s : TRUE} \in UpTo(A, n - 1)
      OBVIOUS
    <3>1. PICK x \in s : x = CHOOSE y \in s : TRUE
      BY ChoosesMember
    <3>2. s \in SUBSET A /\ IsFiniteSet(s) /\ Cardinality(s) <= n
      BY FS_Subset DEF UpTo
    <3>3. Cardinality(s \ {x}) = Cardinality(s) - 1
      BY <3>2, FS_RemoveElement
    <3>4. Cardinality(s \ {x}) <= n - 1
      BY <3>2, <3>3, <1>3
    <3> QED
      BY <3>1, <3>2, <3>4 DEF UpTo
  <2>5. \A s \in UpTo(A, n) : SumStep(g, s) \in Nat
    <3> SUFFICES ASSUME NEW s \in UpTo(A, n), s # {} PROVE SumStep(g, s) \in Nat
      BY DEF SumStep
    <3>1. (CHOOSE x \in s : TRUE) \in Atts
      BY ChoosesMember DEF UpTo
    <3> QED
      BY <3>1, <2>4, SizesAssumption DEF SumStep
  <2>6. h \in [UpTo(A, n) -> Nat]
    BY <2>5
  <2>7. \A s \in UpTo(A, n - 1) : s \in UpTo(A, n) /\ h[s] = g[s]
    <3>1. \A s \in SUBSET A : Cardinality(s) <= n - 1 => Cardinality(s) <= n
      <4>1. n \in Nat
        OBVIOUS
      <4>2. \A k \in Nat : k <= n - 1 => k <= n
        BY <4>1
      <4> QED
        BY <4>2, <1>3
    <3> QED
      BY <2>3, <3>1 DEF UpTo
  <2>8. \A s \in UpTo(A, n) : h[s] = SumStep(h, s)
    <3> SUFFICES ASSUME NEW s \in UpTo(A, n) PROVE h[s] = SumStep(h, s)
      OBVIOUS
    <3>1. CASE s = {}
      BY <3>1 DEF SumStep
    <3>2. CASE s # {}
      <4>1. h[s \ {CHOOSE x \in s : TRUE}] = g[s \ {CHOOSE x \in s : TRUE}]
        BY <3>2, <2>4, <2>7
      <4>2. h[s] = SumStep(g, s)
        OBVIOUS
      <4> HIDE DEF h
      <4> QED
        BY <3>2, <4>1, <4>2 DEF SumStep
    <3> QED
      BY <3>1, <3>2
  <2>9. Tabulated(A, n)
    <3> HIDE DEF h
    <3> QED
      BY <2>6, <2>8 DEF Tabulated
  <2> QED
    BY <1>2, <2>9
<1> QED
  BY <1>4, <1>5

LEMMA SumExists ==
  ASSUME NEW A, IsFiniteSet(A), A \subseteq Atts
  PROVE  \E g \in [SUBSET A -> Nat] : Adds(g, A)
<1>1. Cardinality(A) \in Nat
  BY FS_CardinalityType
<1>2. UpTo(A, Cardinality(A)) = SUBSET A
  BY FS_Subset DEF UpTo
<1>3. PICK g \in [SUBSET A -> Nat] : \A s \in SUBSET A : g[s] = SumStep(g, s)
  <2>1. Tabulated(A, Cardinality(A))
    BY <1>1, SumsTabulated
  <2> QED
    BY <1>2, <2>1 DEF Tabulated
<1> QED
  BY <1>3 DEF Adds

(* Two such functions agree where both are defined. *)
LEMMA SumUnique ==
  ASSUME NEW A, IsFiniteSet(A), NEW B \in SUBSET A, NEW g, NEW h, Adds(g, A), Adds(h, B)
  PROVE  \A s \in SUBSET B : g[s] = h[s]
<1> DEFINE Differ == {s \in SUBSET B : g[s] # h[s]}
<1> SUFFICES ASSUME Differ # {} PROVE FALSE
  OBVIOUS
<1>1. PICK s \in Differ : \A t \in Differ : t \subseteq s => t = s
  <2>1. Differ \subseteq SUBSET B /\ Differ # {}
    OBVIOUS
  <2>2. IsFiniteSet(B)
    BY FS_Subset
  <2> HIDE DEF Differ
  <2> QED
    BY <2>1, <2>2, SmallestSubset
<1>2. g[s] = SumStep(g, s) /\ h[s] = SumStep(h, s)
  BY Zenon DEF Adds
<1>3. s # {}
  BY <1>2 DEF SumStep
<1>4. PICK x \in s : x = CHOOSE y \in s : TRUE
  BY <1>3, ChoosesMember
<1>5. g[s \ {x}] = h[s \ {x}]
  BY <1>1, <1>4
<1> QED
  BY <1>2, <1>3, <1>4, <1>5 DEF SumStep

LEMMA BytesAdds ==
  ASSUME NEW A, IsFiniteSet(A), A \subseteq Atts
  PROVE  \E g \in [SUBSET A -> Nat] : Adds(g, A) /\ \A s \in SUBSET A : Bytes(s) = g[s]
<1>1. PICK g \in [SUBSET A -> Nat] : Adds(g, A)
  BY SumExists
<1>2. ASSUME NEW s \in SUBSET A PROVE Bytes(s) = g[s]
  <2>1. IsFiniteSet(s) /\ s \subseteq Atts
    BY FS_Subset
  <2>2. \E h : Adds(h, s)
    BY <2>1, SumExists
  <2>3. Adds(CHOOSE h : Adds(h, s), s)
    BY <2>2
  <2>4. g[s] = (CHOOSE h : Adds(h, s))[s]
    BY <1>1, <2>3, SumUnique
  <2> QED
    BY <2>4, BytesIsSum
<1> QED
  BY <1>1, <1>2

(* The bytes of no attachment are none; those of some are a natural number. *)
LEMMA BytesType ==
  ASSUME NEW A, IsFiniteSet(A), A \subseteq Atts PROVE Bytes(A) \in Nat
<1>1. PICK g \in [SUBSET A -> Nat] : \A s \in SUBSET A : Bytes(s) = g[s]
  BY BytesAdds
<1> QED
  BY <1>1

LEMMA BytesOfNone == Bytes({}) = 0
<1>1. IsFiniteSet({})
  BY FS_EmptySet
<1>2. PICK g : Adds(g, {}) /\ Bytes({}) = g[{}]
  BY <1>1, BytesAdds
<1>3. g[{}] = SumStep(g, {})
  BY <1>2, Zenon DEF Adds
<1> QED
  BY <1>2, <1>3 DEF SumStep

LEMMA BytesUnfolds ==
  ASSUME NEW A, IsFiniteSet(A), A \subseteq Atts, A # {}
  PROVE  \E x \in A : Bytes(A) = Size[x] + Bytes(A \ {x})
<1>1. PICK g \in [SUBSET A -> Nat] : Adds(g, A) /\ \A s \in SUBSET A : Bytes(s) = g[s]
  BY BytesAdds
<1>2. PICK x \in A : x = CHOOSE y \in A : TRUE
  BY ChoosesMember
<1>3. g[A] = SumStep(g, A)
  BY <1>1, Zenon DEF Adds
<1>4. g[A] = Size[x] + g[A \ {x}]
  BY <1>2, <1>3 DEF SumStep
<1> QED
  BY <1>1, <1>4

(* Whichever attachment is set aside, it counts for its size. *)
LEMMA BytesRemove ==
  ASSUME NEW A, IsFiniteSet(A), A \subseteq Atts
  PROVE  \A x \in A : Bytes(A) = Size[x] + Bytes(A \ {x})
<1> DEFINE Wrong == {s \in SUBSET A : \E x \in s : Bytes(s) # Size[x] + Bytes(s \ {x})}
<1> SUFFICES ASSUME Wrong # {} PROVE FALSE
  OBVIOUS
<1>1. PICK s \in Wrong : \A t \in Wrong : t \subseteq s => t = s
  <2>1. Wrong \subseteq SUBSET A /\ Wrong # {}
    OBVIOUS
  <2> HIDE DEF Wrong
  <2> QED
    BY <2>1, SmallestSubset
<1>2. PICK x \in s : Bytes(s) # Size[x] + Bytes(s \ {x})
  OBVIOUS
<1>3. s \in SUBSET A /\ IsFiniteSet(s) /\ s \subseteq Atts
  BY FS_Subset
<1>4. PICK y \in s : Bytes(s) = Size[y] + Bytes(s \ {y})
  BY <1>2, <1>3, BytesUnfolds
<1>5. x # y
  BY <1>2, <1>4
<1>6. \A z \in s : \A w \in s \ {z} : Bytes(s \ {z}) = Size[w] + Bytes((s \ {z}) \ {w})
  <2> SUFFICES ASSUME NEW z \in s, NEW w \in s \ {z}
               PROVE  Bytes(s \ {z}) = Size[w] + Bytes((s \ {z}) \ {w})
    OBVIOUS
  <2>1. s \ {z} \in SUBSET A /\ s \ {z} \subseteq s /\ s \ {z} # s
    BY <1>3
  <2>2. s \ {z} \notin Wrong
    <3> HIDE DEF Wrong
    <3> QED
      BY <1>1, <2>1
  <2> QED
    BY <2>1, <2>2
<1>7. /\ Bytes(s \ {y}) = Size[x] + Bytes((s \ {y}) \ {x})
      /\ Bytes(s \ {x}) = Size[y] + Bytes((s \ {x}) \ {y})
  BY <1>5, <1>6
<1>8. (s \ {x}) \ {y} = (s \ {y}) \ {x}
  OBVIOUS
<1>9. Size[x] \in Nat /\ Size[y] \in Nat /\ Bytes((s \ {y}) \ {x}) \in Nat
  <2>1. IsFiniteSet((s \ {y}) \ {x})
    BY <1>3, FS_Subset
  <2> QED
    BY <1>3, <2>1, BytesType, SizesAssumption
<1> QED
  BY <1>2, <1>4, <1>7, <1>8, <1>9

(* What is taken from a set and what stays add up to it. *)
LEMMA BytesSplit ==
  ASSUME NEW A, IsFiniteSet(A), A \subseteq Atts
  PROVE  \A V \in SUBSET A : Bytes(A) = Bytes(V) + Bytes(A \ V)
<1> DEFINE Wrong == {V \in SUBSET A : Bytes(A) # Bytes(V) + Bytes(A \ V)}
<1> SUFFICES ASSUME Wrong # {} PROVE FALSE
  OBVIOUS
<1>1. PICK V \in Wrong : \A t \in Wrong : t \subseteq V => t = V
  <2>1. Wrong \subseteq SUBSET A /\ Wrong # {}
    OBVIOUS
  <2> HIDE DEF Wrong
  <2> QED
    BY <2>1, SmallestSubset
<1>2. ASSUME NEW T \in SUBSET A PROVE IsFiniteSet(T) /\ T \subseteq Atts /\ Bytes(T) \in Nat
  BY <1>2, FS_Subset, BytesType
<1>3. V # {}
  <2>1. A \ {} = A
    OBVIOUS
  <2> QED
    BY <2>1, <1>2, BytesOfNone
<1>4. PICK x \in V : TRUE
  BY <1>3
<1>5. Bytes(V) = Size[x] + Bytes(V \ {x})
  BY <1>2, BytesRemove
<1>6. Bytes(A) = Bytes(V \ {x}) + Bytes(A \ (V \ {x}))
  BY <1>1
<1>7. Bytes(A \ (V \ {x})) = Size[x] + Bytes(A \ V)
  <2> DEFINE Rest == A \ (V \ {x})
  <2>1. x \in Rest /\ Rest \ {x} = A \ V /\ Rest \in SUBSET A
    OBVIOUS
  <2> HIDE DEF Rest
  <2>2. Bytes(Rest) = Size[x] + Bytes(Rest \ {x})
    BY <2>1, <1>2, BytesRemove
  <2> QED
    BY <2>1, <2>2 DEF Rest
<1>8. Size[x] \in Nat /\ Bytes(V \ {x}) \in Nat /\ Bytes(A \ V) \in Nat
  BY <1>2, SizesAssumption
<1>9. Bytes(A) # Bytes(V) + Bytes(A \ V)
  OBVIOUS
<1> HIDE DEF Wrong
<1> QED
  BY <1>5, <1>6, <1>7, <1>8, <1>9

LEMMA BytesMonotone ==
  ASSUME NEW A, IsFiniteSet(A), A \subseteq Atts, NEW V \in SUBSET A
  PROVE  Bytes(V) <= Bytes(A) /\ Bytes(A \ V) = Bytes(A) - Bytes(V)
<1>1. Bytes(A) \in Nat /\ Bytes(V) \in Nat /\ Bytes(A \ V) \in Nat
  BY FS_Subset, BytesType
<1>2. Bytes(A) = Bytes(V) + Bytes(A \ V)
  BY BytesSplit
<1> QED
  BY <1>1, <1>2

----------------------------------------------------------------------------
(* The ceiling.  Of the calls that still have to evict, one knows of every *)
(* row: one that has yet to sum them, or the last that did, for only a     *)
(* call that will sum after it adds a row.                                 *)

CeilingInv ==
    \/ lapsed
    \/ Bytes(Cached) <= Ceiling
    \/ \E c \in Calls : At(c, "sum")
    \/ \E c \in Calls : At(c, "evict") /\ Cached \subseteq call[c].seen

LEMMA BytesAfter == Bytes(Cached)' = Bytes(Cached')
  BY Zenon DEF Bytes, MapThenSumSet, MapThenFoldSet

LEMMA CachedIsFinite ==
  /\ IsFiniteSet(Cached) /\ Cached \subseteq Atts
  /\ IsFiniteSet(Cached') /\ Cached' \subseteq Atts
  BY AttsAssumption, FS_Subset DEF Cached

(* No row is added, and the evictions under way stay as they were. *)
LEMMA QuietKeepsCeiling ==
  ASSUME CeilingInv, Cached' \subseteq Cached, lapsed' = lapsed,
         \A d \in Calls : call[d].pc \in {"sum", "evict"} => call'[d] = call[d]
  PROVE  CeilingInv'
<1>1. CASE Bytes(Cached) <= Ceiling
  <2>1. Bytes(Cached') <= Bytes(Cached)
    BY CachedIsFinite, BytesMonotone
  <2>2. Bytes(Cached') \in Nat /\ Bytes(Cached) \in Nat /\ Ceiling \in Nat
    BY CachedIsFinite, BytesType, BoundsAssumption
  <2>3. Bytes(Cached') <= Ceiling
    BY <1>1, <2>1, <2>2
  <2>4. Bytes(Cached)' <= Ceiling
    BY <2>3, BytesAfter
  <2> QED
    BY <2>4 DEF CeilingInv
<1>2. CASE \E c \in Calls : At(c, "sum")
  BY <1>2 DEF CeilingInv
<1>3. CASE \E c \in Calls : At(c, "evict") /\ Cached \subseteq call[c].seen
  BY <1>3 DEF CeilingInv
<1>4. CASE lapsed
  BY <1>4 DEF CeilingInv
<1> QED
  BY <1>1, <1>2, <1>3, <1>4 DEF CeilingInv

LEMMA EvictKeepsCeiling ==
  ASSUME CacheInv, CeilingInv, NEW c \in Calls, EvictAttachmentsToFit(c)
  PROVE  CeilingInv'
<1> DEFINE seen == call[c].seen
<1>1. PICK V \in SUBSET Cached :
        /\ Bytes(V) >= Bytes(seen) - Ceiling \/ V = Cached
        /\ row' = [a \in Atts |-> IF a \in V THEN Uncached ELSE row[a]]
  BY DEF EvictAttachmentsToFit, Victims
<1>2. Cached' = Cached \ V
  BY <1>1 DEF Cached
<1>3. /\ \A d \in Calls : d # c => call'[d] = call[d]
      /\ call[c].pc = "evict" /\ seen \in SUBSET Atts
      /\ lapsed' = (lapsed /\ ~ Cached \subseteq seen)
  <2>1. Moves(c)
    BY RowStepMoves DEF RowStep
  <2> QED
    BY <2>1 DEF Moves, EvictAttachmentsToFit, CacheInv, TypeOK
<1>4. CASE Cached \subseteq seen
  <2>1. /\ Bytes(Cached \ V) = Bytes(Cached) - Bytes(V)
        /\ Bytes(Cached) <= Bytes(seen)
    <3>1. IsFiniteSet(seen)
      BY <1>3, AttsAssumption, FS_Subset
    <3> QED
      BY <1>3, <1>4, <3>1, CachedIsFinite, BytesMonotone
  <2>2. /\ Bytes(Cached) \in Nat /\ Bytes(seen) \in Nat /\ Bytes(V) \in Nat
        /\ Ceiling \in Nat
    <3>1. IsFiniteSet(seen) /\ IsFiniteSet(V)
      BY <1>3, CachedIsFinite, AttsAssumption, FS_Subset
    <3> QED
      BY <1>3, <3>1, CachedIsFinite, BytesType, BoundsAssumption
  <2>3. Bytes(Cached \ V) <= Ceiling
    <3>1. CASE V = Cached
      <4>1. Cached \ V = {}
        BY <3>1
      <4> QED
        BY <4>1, <2>2, BytesOfNone
    <3>2. CASE Bytes(V) >= Bytes(seen) - Ceiling
      BY <3>2, <2>1, <2>2
    <3> QED
      BY <3>1, <3>2, <1>1
  <2>4. Bytes(Cached)' <= Ceiling
    BY <2>3, <1>2, BytesAfter
  <2> QED
    BY <2>4 DEF CeilingInv
<1>5. CASE ~ Cached \subseteq seen
  <2>1. CASE lapsed
    BY <2>1, <1>3, <1>5 DEF CeilingInv
  <2>2. CASE Bytes(Cached) <= Ceiling
    <3>1. Bytes(Cached \ V) <= Bytes(Cached)
      BY CachedIsFinite, BytesMonotone
    <3>2. Bytes(Cached \ V) \in Nat /\ Bytes(Cached) \in Nat /\ Ceiling \in Nat
      BY CachedIsFinite, FS_Subset, BytesType, BoundsAssumption
    <3>3. Bytes(Cached)' <= Ceiling
      BY <2>2, <3>1, <3>2, <1>2, BytesAfter
    <3> QED
      BY <3>3 DEF CeilingInv
  <2>3. CASE \E d \in Calls : At(d, "sum")
    <3>1. PICK d \in Calls : At(d, "sum")
      BY <2>3
    <3>2. call'[d] = call[d]
      BY <3>1, <1>3
    <3> QED
      BY <3>1, <3>2 DEF CeilingInv
  <2>4. CASE \E d \in Calls : At(d, "evict") /\ Cached \subseteq call[d].seen
    <3>1. PICK d \in Calls : At(d, "evict") /\ Cached \subseteq call[d].seen
      BY <2>4
    <3>2. call'[d] = call[d]
      BY <3>1, <1>3, <1>5
    <3> QED
      BY <3>1, <3>2, <1>2 DEF CeilingInv
  <2> QED
    BY <2>1, <2>2, <2>3, <2>4 DEF CeilingInv
<1> QED
  BY <1>4, <1>5

LEMMA RowStepKeepsCeiling ==
  ASSUME CacheInv, CeilingInv, NEW c \in Calls, RowStep(c)
  PROVE  CeilingInv'
<1>1. Moves(c)
  BY RowStepMoves
<1>2. CASE EvictAttachmentsToFit(c)
  BY <1>2, EvictKeepsCeiling
<1>3. CASE EvictFails(c)
  BY <1>3 DEF EvictFails, CeilingInv
<1>4. ASSUME Goto(c, "sum") PROVE CeilingInv'
  <2>1. call[c] \in CallType /\ call \in [Calls -> CallType]
    BY DEF CacheInv, TypeOK, CallType
  <2>2. call'[c].pc = "sum"
    BY <2>1, <1>4 DEF CallType
  <2> QED
    BY <2>2 DEF CeilingInv
<1>5. CASE SumAttachmentBytes(c)
  <2>1. Cached' = Cached
    BY <1>5 DEF SumAttachmentBytes, Cached
  <2>2. CASE Bytes(Cached) <= Ceiling
    BY <2>1, <2>2, BytesAfter DEF CeilingInv
  <2>3. CASE ~ (Bytes(Cached) <= Ceiling)
    <3>1. call' = [call EXCEPT ![c] = [call[c] EXCEPT !.pc = "evict", !.seen = Cached]]
      BY <1>5, <2>3 DEF SumAttachmentBytes
    <3>2. call'[c].pc = "evict" /\ call'[c].seen = Cached
      BY <3>1 DEF CacheInv, TypeOK
    <3> QED
      BY <2>1, <3>2 DEF CeilingInv
  <2> QED
    BY <2>2, <2>3
<1>6. CASE \/ \E t \in Tools, a \in Atts : Start(c, t, a)
           \/ Lookup(c) \/ Envelope(c) \/ Fetch(c) \/ BytesFail(c) \/ OpenFails(c)
           \/ CacheFails(c)
  <2>1. row' = row /\ lapsed' = lapsed /\ call[c].pc \notin {"sum", "evict"}
    BY <1>6 DEF Start, Lookup, Envelope, Fetch, BytesFail, OpenFails, CacheFails
  <2>2. Cached' = Cached
    BY <2>1 DEF Cached
  <2>3. \A d \in Calls : call[d].pc \in {"sum", "evict"} => call'[d] = call[d]
    BY <2>1, <1>1 DEF Moves
  <2> QED
    BY <2>1, <2>2, <2>3, QuietKeepsCeiling
<1> QED
  <2>1. CASE SetAttachmentCache(c)
    BY <2>1, <1>4 DEF SetAttachmentCache
  <2> QED
    BY <2>1, <1>2, <1>3, <1>5, <1>6 DEF RowStep

LEMMA StepCeiling ==
  ASSUME CacheInv, CeilingInv, [Next]_vars PROVE CeilingInv'
<1>1. ASSUME NEW c \in Calls,
             \/ OpenStaging(c) \/ WriteStaging(c) \/ WriteFails(c)
             \/ OpenExclusive(c) \/ SaveWrites(c) \/ SaveFails(c)
      PROVE  CeilingInv'
  <2>1. /\ row' = row /\ lapsed' = lapsed
        /\ call[c].pc \notin {"sum", "evict"}
        /\ \E r : call' = [call EXCEPT ![c] = r]
    BY <1>1 DEF OpenStaging, WriteStaging, WriteFails, OpenExclusive, SaveWrites, SaveFails
  <2>2. Cached' = Cached
    BY <2>1 DEF Cached
  <2>3. \A d \in Calls : call[d].pc \in {"sum", "evict"} => call'[d] = call[d]
    BY <2>1 DEF CacheInv, TypeOK
  <2> QED
    BY <2>1, <2>2, <2>3, QuietKeepsCeiling
<1>2. CASE \/ SweepReads \/ Tick \/ UNCHANGED vars
           \/ \E i \in 1 .. MaxTries : UserAddsFile(i)
           \/ \E n \in Names : SweepRemove(n)
  <2>1. call' = call /\ lapsed' = lapsed
    BY <1>2 DEF SweepReads, SweepBegins, PurgeAttachmentsOlderThan, ReadDir, SweepEnds,
         SweepInfo, SweepRemove, Tick, UserAddsFile, vars
  <2>2. \/ row' = row
        \/ row' = [a \in Atts |-> IF row[a] < sweep.cutoff THEN Uncached ELSE row[a]]
    BY <1>2 DEF SweepReads, SweepBegins, PurgeAttachmentsOlderThan, ReadDir, SweepEnds,
         SweepInfo, SweepRemove, Tick, UserAddsFile, vars
  <2>3. Cached' \subseteq Cached
    BY <2>2 DEF Cached
  <2> QED
    BY <2>1, <2>3, QuietKeepsCeiling
<1>3. CASE Crash
  <2>1. /\ row' = row
        /\ lapsed' = (lapsed \/ \E c \in Calls : call[c].pc \in {"sum", "evict"})
    BY <1>3 DEF Crash
  <2>2. CASE \E c \in Calls : call[c].pc \in {"sum", "evict"}
    BY <2>1, <2>2 DEF CeilingInv
  <2>3. CASE ~ \E c \in Calls : call[c].pc \in {"sum", "evict"}
    <3>1. Cached' = Cached
      BY <2>1 DEF Cached
    <3> QED
      BY <2>1, <2>3, <3>1, BytesAfter DEF CeilingInv
  <2> QED
    BY <2>2, <2>3
<1> QED
  BY <1>1, <1>2, <1>3, RowStepKeepsCeiling DEF Next, RowStep, SweepReads

----------------------------------------------------------------------------
(* The invariant of every step, and what it gives. *)

DownloadsKept ==
    \A i \in DOMAIN downloads :
      downloads[i].whole => i \in DOMAIN downloads' /\ downloads'[i] = downloads[i]

LEMMA StepCache ==
  ASSUME CacheInv, [Next]_vars PROVE CacheInv' /\ DownloadsKept
<1>1. ASSUME NEW c \in Calls, RowStep(c) PROVE CacheInv' /\ DownloadsKept
  <2>1. downloads' = downloads
    BY <1>1 DEF RowStep, Start, Lookup, Envelope, Fetch, BytesFail, SetAttachmentCache,
         CacheFails, SumAttachmentBytes, EvictAttachmentsToFit, EvictFails, OpenFails
  <2> QED
    BY <1>1, <2>1, RowKeeps DEF DownloadsKept
<1>2. ASSUME NEW c \in Calls, OpenStaging(c) \/ WriteStaging(c) \/ WriteFails(c)
      PROVE  CacheInv' /\ DownloadsKept
  <2>1. downloads' = downloads
    BY <1>2 DEF OpenStaging, WriteStaging, WriteFails
  <2> QED
    BY <1>2, <2>1, OpenStagingKeeps, WriteStagingKeeps, WriteFailsKeeps DEF DownloadsKept
<1>3. ASSUME NEW c \in Calls, OpenExclusive(c) PROVE CacheInv' /\ DownloadsKept
  <2>1. \A j \in DOMAIN downloads : j \in DOMAIN downloads' /\ downloads'[j] = downloads[j]
    <3>1. CASE downloads' = downloads
      BY <3>1
    <3>2. CASE /\ ~ Taken(call[c].try)
               /\ downloads' = With(downloads, call[c].try, [owner |-> c, whole |-> FALSE])
      BY <3>2 DEF Taken, With
    <3> QED
      BY <1>3, <3>1, <3>2 DEF OpenExclusive
  <2> QED
    BY <1>3, <2>1, OpenExclusiveKeeps DEF DownloadsKept
<1>4. ASSUME NEW c \in Calls, SaveWrites(c) \/ SaveFails(c)
      PROVE  CacheInv' /\ DownloadsKept
  BY <1>4, SaveEndsKeeps DEF SaveEnds, DownloadsKept
<1>5. ASSUME NEW i \in 1 .. MaxTries, UserAddsFile(i) PROVE CacheInv' /\ DownloadsKept
  BY <1>5, UserKeeps DEF DownloadsKept
<1>6. CASE SweepReads
  <2>1. downloads' = downloads
    BY <1>6 DEF SweepReads, SweepBegins, PurgeAttachmentsOlderThan, ReadDir, SweepEnds, SweepInfo
  <2> QED
    BY <1>6, <2>1, SweepReadsKeep DEF DownloadsKept
<1>7. ASSUME NEW n \in Names, SweepRemove(n) PROVE CacheInv' /\ DownloadsKept
  <2>1. downloads' = downloads
    BY <1>7 DEF SweepRemove
  <2> QED
    BY <1>7, <2>1, SweepRemoveKeeps DEF DownloadsKept
<1>8. CASE Crash \/ Tick
  <2>1. downloads' = downloads
    BY <1>8 DEF Crash, Tick
  <2> QED
    BY <1>8, <2>1, CrashKeeps, TickKeeps DEF DownloadsKept
<1>9. CASE UNCHANGED vars
  <2>1. UNCHANGED <<now, row, staged, orphan, lost, downloads, call, sweep, lapsed, faults, sweeps>>
    BY <1>9 DEF vars
  <2>2. CacheInv'
    BY <2>1 DEF CacheInv, TypeOK, CallInv, CallIsSound, StagingInv, Writing
  <2> QED
    BY <2>1, <2>2 DEF DownloadsKept
<1>10. CASE Next
  <2>1. CASE \E c \in Calls : RowStep(c) \/ OpenStaging(c) \/ WriteStaging(c) \/ WriteFails(c)
                             \/ OpenExclusive(c) \/ SaveWrites(c) \/ SaveFails(c)
    BY <2>1, <1>1, <1>2, <1>3, <1>4
  <2>2. CASE \E i \in 1 .. MaxTries : UserAddsFile(i)
    BY <2>2, <1>5
  <2>3. CASE SweepReads \/ \E n \in Names : SweepRemove(n)
    BY <2>3, <1>6, <1>7
  <2>4. CASE Crash \/ Tick
    BY <2>4, <1>8
  <2> QED
    BY <1>10, <2>1, <2>2, <2>3, <2>4 DEF Next, RowStep, SweepReads
<1> QED
  BY <1>9, <1>10

LEMMA CacheInvariant == Spec => []CacheInv
  BY InitCache, StepCache, PTL DEF Spec

(* Every reachable state has its type: no sequence of saves, evictions,    *)
(* sweeps and crashes creates a file beyond the last name tried, or a      *)
(* staging file under a name no attachment has.                            *)
THEOREM CacheTypes == Spec => []TypeOK
<1>1. CacheInv => TypeOK
  BY DEF CacheInv
<1> QED
  BY <1>1, CacheInvariant, PTL

(* A path a download answered holds its attachment, whole, or a call about *)
(* the same attachment is rewriting it, or what took it is on record       *)
(* (attachment_download.go:310-331).                                       *)
THEOREM PathsHold == Spec => []PathHolds
<1>1. CacheInv => PathHolds
  <2> SUFFICES ASSUME CacheInv, NEW c \in Calls, call[c].answer = "path",
                      StagingName(call[c].att) \notin lost,
                      Writing(StagingName(call[c].att)) = {}
               PROVE  LET n == StagingName(call[c].att) IN
                      n \in DOMAIN staged /\ staged[n].att = call[c].att /\ staged[n].whole
    BY DEF PathHolds
  <2>1. PICK n : n = StagingName(call[c].att)
    OBVIOUS
  <2>2. n \in DOMAIN staged
    BY <2>1 DEF CacheInv, StagingInv
  <2>3. /\ n = StagingName(staged[n].att)
        /\ staged[n].whole
    BY <2>1, <2>2 DEF CacheInv, StagingInv
  <2>4. staged[n].att = call[c].att
    BY <2>1, <2>3, NameIsOwn
  <2> QED
    BY <2>1, <2>2, <2>3, <2>4
<1> QED
  BY <1>1, CacheInvariant, PTL

(* Whatever order saves, failures of a save and the user's own files come  *)
(* in, a complete file of ~/Downloads is never changed or removed          *)
(* (attachment_save.go:207).                                               *)
THEOREM DownloadsAreKept == Spec => NeverOverwrites
<1>1. CacheInv /\ [Next]_vars =>
        [\A i \in DOMAIN downloads :
            downloads[i].whole => i \in DOMAIN downloads' /\ downloads'[i] = downloads[i]]_vars
  BY StepCache DEF DownloadsKept
<1> QED
  BY <1>1, CacheInvariant, PTL DEF Spec, NeverOverwrites

(* Whatever calls write rows and evict on totals that are stale by then,   *)
(* the cache is over its ceiling only while an eviction is still to come,  *)
(* or after one was lost (store/attachments.go:134).                       *)
THEOREM CacheStaysWithinCeiling == Spec => []WithinCeiling
<1>1. Init => CeilingInv
  <2> SUFFICES ASSUME Init PROVE CeilingInv
    OBVIOUS
  <2>1. Cached = {}
    BY DEF Init, Cached
  <2>2. Ceiling \in Nat
    BY BoundsAssumption
  <2> QED
    BY <2>1, <2>2, BytesOfNone DEF CeilingInv
<1>2. CeilingInv => WithinCeiling
  BY DEF CeilingInv, WithinCeiling
<1> QED
  BY <1>1, <1>2, CacheInvariant, StepCeiling, PTL DEF Spec
=============================================================================
