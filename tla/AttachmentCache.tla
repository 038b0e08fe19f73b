--------------------------- MODULE AttachmentCache ---------------------------
(***************************************************************************)
(* The attachments of the mailbox: the rows of attachment_cache in the     *)
(* SQLite store, the staging directory, which holds the plaintext of       *)
(* attachments too large for an answer, and ~/Downloads.  Calls of         *)
(* mail_download_attachment and mail_save_attachment run concurrently in   *)
(* the daemon.  Sweeps run in other processes: `protonmcp purge` at any    *)
(* time, serve-stdio when it starts, and the daemon before it serves.      *)
(* Nothing locks any of the three; SQLite makes one statement, or one      *)
(* transaction, atomic.                                                    *)
(*                                                                         *)
(* A file of the staging directory is named after the attachment, so every *)
(* call about one attachment writes one file.  All saves ask for the same  *)
(* name in ~/Downloads, the case in which they compete; the file at index  *)
(* i is the name with the suffix " (i)".  The user adds files there.       *)
(***************************************************************************)
EXTENDS Integers, FiniteSets, FiniteSetsExt

CONSTANTS Calls, Atts,
          Size,         \* the bytes of an attachment once decrypted
          Declared,     \* the size its message's envelope declares
          Filename,     \* its sanitized file name: several may share one
          InlineMax,    \* up to this size an answer carries the bytes
          SizeCap,      \* max_attachment_bytes
          Ceiling,      \* attachmentCacheCeilingBytes
          Retention,    \* DefaultBodyRetention
          MaxTries,     \* names tried in ~/Downloads (1000 in the code)
          MaxTime, MaxSweeps, MaxFaults     \* bounds of the model

\* A mailbox has finitely many attachments.
ASSUME AttsAssumption == IsFiniteSet(Atts)
ASSUME SizesAssumption == Size \in [Atts -> Nat] /\ Declared \in [Atts -> Nat]
ASSUME BoundsAssumption ==
    {InlineMax, SizeCap, Ceiling, Retention, MaxTries, MaxTime, MaxSweeps, MaxFaults} \subseteq Nat

Uncached == -1
NoAtt == "none"
Tools == {"download", "save"}
Pcs == {"ready", "lookup", "envelope", "fetch", "cache", "sum", "evict",
        "open", "write", "place", "fill", "done"}
Answers == {"none", "inline", "path", "saved", "error", "lost"}

VARIABLES
    now,
    row,        \* cached_at of an attachment's row, or Uncached
    staged,     \* the staging directory: name -> [att, mtime, whole]
    downloads,  \* ~/Downloads: index -> [owner, whole]
    call,       \* what each call holds: [pc, tool, att, seen, try, answer]
    orphan,     \* calls whose open staging file has lost its name
    sweep,      \* the sweep under way: [pc, cutoff, rest, doomed]
    lost,       \* names a sweep, a failed write or a crash has taken (history)
    lapsed,     \* an eviction was lost, and none that had summed every row
                \* has run since (history)
    faults, sweeps

files == <<staged, orphan, lost>>
vars == <<now, row, staged, downloads, call, orphan, sweep, lost, lapsed, faults, sweeps>>

-----------------------------------------------------------------------------
Cached == {a \in Atts : row[a] # Uncached}
Bytes(S) == MapThenSumSet(LAMBDA a : Size[a], S)

\* The name of an attachment's staging file.
Fault_StagingName(a) == <<"att", Filename[a]>>
StagingName(a) == <<a, Filename[a]>>
Names == {StagingName(a) : a \in Atts}

At(c, p) == call[c].pc = p
Becomes(c, r) == call' = [call EXCEPT ![c] = r]
Goto(c, p) == Becomes(c, [call[c] EXCEPT !.pc = p])
\* A call that has ended keeps its answer, and the attachment a path is for.
Ended(r, answer) ==
    [pc |-> "done", tool |-> "none", seen |-> {}, try |-> 1, answer |-> answer,
     att |-> IF answer = "path" THEN r.att ELSE NoAtt]
Ends(c, answer) == Becomes(c, Ended(call[c], answer))
Fault == faults < MaxFaults /\ faults' = faults + 1

\* Where a call goes once it holds the bytes: a save to ~/Downloads, a small
\* download into the answer, a large one to its staging file.
Deliver(c) ==
    \/ /\ call[c].tool = "save"
       /\ Goto(c, "place")
    \/ /\ call[c].tool = "download"
       /\ Size[call[c].att] <= InlineMax
       /\ Ends(c, "inline")
    \/ /\ call[c].tool = "download"
       /\ Size[call[c].att] > InlineMax
       /\ Goto(c, "open")

Init ==
    /\ now = 0
    /\ row = [a \in Atts |-> Uncached]
    /\ staged = << >>
    /\ downloads = << >>
    /\ call = [c \in Calls |-> [pc |-> "ready", tool |-> "none", att |-> NoAtt,
                                seen |-> {}, try |-> 1, answer |-> "none"]]
    /\ orphan = {} /\ lost = {} /\ lapsed = FALSE
    /\ sweep = [pc |-> "idle", cutoff |-> 0, rest |-> {}, doomed |-> {}]
    /\ faults = 0 /\ sweeps = 0

-----------------------------------------------------------------------------
(* A call, up to the bytes: the row if there is one, else Proton.           *)

Start(c, t, a) ==
    /\ At(c, "ready")
    /\ Becomes(c, [call[c] EXCEPT !.pc = "lookup", !.tool = t, !.att = a])
    /\ UNCHANGED <<now, row, files, downloads, sweep, lapsed, faults, sweeps>>

\* GetCachedAttachment: a hit needs no size check and no network.
Lookup(c) ==
    /\ At(c, "lookup")
    /\ IF row[call[c].att] # Uncached THEN Deliver(c) ELSE Goto(c, "envelope")
    /\ UNCHANGED <<now, row, files, downloads, sweep, lapsed, faults, sweeps>>

\* The size check on the message's envelope.
Envelope(c) ==
    /\ At(c, "envelope")
    /\ IF Declared[call[c].att] > SizeCap THEN Ends(c, "error") ELSE Goto(c, "fetch")
    /\ UNCHANGED <<now, row, files, downloads, sweep, lapsed, faults, sweeps>>

\* FetchAndDecryptAttachment, and the check of what it decrypted.
Fetch(c) ==
    /\ At(c, "fetch")
    /\ IF Size[call[c].att] > SizeCap THEN Ends(c, "error") ELSE Goto(c, "cache")
    /\ UNCHANGED <<now, row, files, downloads, sweep, lapsed, faults, sweeps>>

\* The store or Proton fails, or the session is gone: the call ends in error.
BytesFail(c) ==
    /\ call[c].pc \in {"lookup", "envelope", "fetch"}
    /\ Fault
    /\ Ends(c, "error")
    /\ UNCHANGED <<now, row, files, downloads, sweep, lapsed, sweeps>>

-----------------------------------------------------------------------------
(* The cache: one row per attachment, then the eviction down to the         *)
(* ceiling, whose SUM is read before its transaction begins: seen holds the *)
(* rows it summed.                                                          *)

SetAttachmentCache(c) ==
    /\ At(c, "cache")
    /\ row' = [row EXCEPT ![call[c].att] = now]
    /\ Goto(c, "sum")
    /\ UNCHANGED <<now, files, downloads, sweep, lapsed, faults, sweeps>>

\* A row that cannot be written fails no call; a save still evicts.
CacheFails(c) ==
    /\ At(c, "cache")
    /\ Fault
    /\ IF call[c].tool = "save" THEN Goto(c, "sum") ELSE Deliver(c)
    /\ UNCHANGED <<now, row, files, downloads, sweep, lapsed, sweeps>>

SumAttachmentBytes(c) ==
    /\ At(c, "sum")
    /\ IF Bytes(Cached) <= Ceiling
         THEN lapsed' = FALSE /\ Deliver(c)
         ELSE /\ Becomes(c, [call[c] EXCEPT !.pc = "evict", !.seen = Cached])
              /\ UNCHANGED lapsed
    /\ UNCHANGED <<now, row, files, downloads, sweep, faults, sweeps>>

\* The rows the scan takes, oldest first, until it has the overflow: V is a
\* prefix of some order by cached_at, which counts seconds and may tie.
Fault_Victims(V, overflow) ==
    /\ \A v \in V, a \in Cached \ V : row[v] <= row[a]
    /\ Bytes(V) < overflow
    /\ \A a \in Cached \ V : Bytes(V \union {a}) >= overflow
Victims(V, overflow) ==
    /\ \A v \in V, a \in Cached \ V : row[v] <= row[a]
    /\ Bytes(V) >= overflow \/ V = Cached
    /\ V # {} => \E last \in V :
                   /\ \A v \in V : row[v] <= row[last]
                   /\ Bytes(V \ {last}) < overflow

EvictAttachmentsToFit(c) ==
    /\ At(c, "evict")
    /\ \E V \in SUBSET Cached :
         /\ Victims(V, Bytes(call[c].seen) - Ceiling)
         /\ row' = [a \in Atts |-> IF a \in V THEN Uncached ELSE row[a]]
    /\ lapsed' = (lapsed /\ ~ Cached \subseteq call[c].seen)
    /\ Deliver(c)
    /\ UNCHANGED <<now, files, downloads, sweep, faults, sweeps>>

\* The sum, the scan or the transaction fails: only the log tells.
EvictFails(c) ==
    /\ call[c].pc \in {"sum", "evict"}
    /\ Fault
    /\ lapsed' = TRUE
    /\ Deliver(c)
    /\ UNCHANGED <<now, row, files, downloads, sweep, sweeps>>

-----------------------------------------------------------------------------
(* The staging file.  A call that has it open writes to the file even if    *)
(* its name has gone since.                                                 *)

Writing(n) == {c \in Calls : At(c, "write") /\ StagingName(call[c].att) = n}
Without(f, n) == [x \in DOMAIN f \ {n} |-> f[x]]
With(f, n, v) == [x \in DOMAIN f \union {n} |-> IF x = n THEN v ELSE f[x]]

\* Remove the name, whoever has the file open.
Unlink(n, by) ==
    /\ staged' = Without(staged, n)
    /\ orphan' = (orphan \union Writing(n)) \ by
    /\ lost' = lost \union {n}

\* OpenFile(O_CREATE|O_TRUNC): an existing file is emptied where it is.
OpenStaging(c) ==
    LET n == StagingName(call[c].att) IN
    /\ At(c, "open")
    /\ staged' = With(staged, n, [att |-> call[c].att, mtime |-> now, whole |-> FALSE])
    /\ lost' = lost \ {n}
    /\ Goto(c, "write")
    /\ UNCHANGED <<now, row, orphan, downloads, sweep, lapsed, faults, sweeps>>

WriteStaging(c) ==
    LET n == StagingName(call[c].att) IN
    /\ At(c, "write")
    /\ staged' = IF c \in orphan THEN staged
                 ELSE With(staged, n, [att |-> call[c].att, mtime |-> now, whole |-> TRUE])
    /\ orphan' = orphan \ {c}
    /\ Ends(c, "path")
    /\ UNCHANGED <<now, row, lost, downloads, sweep, lapsed, faults, sweeps>>

\* The directory or the file cannot be opened.
OpenFails(c) ==
    /\ call[c].pc \in {"open", "place"}
    /\ Fault
    /\ Ends(c, "error")
    /\ UNCHANGED <<now, row, files, downloads, sweep, lapsed, sweeps>>

\* The write fails: the name is removed, whosever file it is by now.
WriteFails(c) ==
    /\ At(c, "write")
    /\ Fault
    /\ Unlink(StagingName(call[c].att), {c})
    /\ Ends(c, "error")
    /\ UNCHANGED <<now, row, downloads, sweep, lapsed, sweeps>>

-----------------------------------------------------------------------------
(* ~/Downloads: openExclusiveWithSuffix tries one name after the other.     *)

Fault_Taken(i) == i = 1 /\ i \in DOMAIN downloads
Taken(i) == i \in DOMAIN downloads

OutOfTries(i) == i > MaxTries

OpenExclusive(c) ==
    LET i == call[c].try IN
    /\ At(c, "place")
    /\ \/ /\ OutOfTries(i)
          /\ Ends(c, "error") /\ UNCHANGED downloads
       \/ /\ ~OutOfTries(i) /\ Taken(i)
          /\ Becomes(c, [call[c] EXCEPT !.try = i + 1]) /\ UNCHANGED downloads
       \/ /\ ~OutOfTries(i) /\ ~Taken(i)
          /\ downloads' = With(downloads, i, [owner |-> c, whole |-> FALSE])
          /\ Goto(c, "fill")
    /\ UNCHANGED <<now, row, files, sweep, lapsed, faults, sweeps>>

SaveWrites(c) ==
    /\ At(c, "fill")
    /\ downloads' = With(downloads, call[c].try, [owner |-> c, whole |-> TRUE])
    /\ Ends(c, "saved")
    /\ UNCHANGED <<now, row, files, sweep, lapsed, faults, sweeps>>

SaveFails(c) ==
    /\ At(c, "fill")
    /\ Fault
    /\ downloads' = Without(downloads, call[c].try)
    /\ Ends(c, "error")
    /\ UNCHANGED <<now, row, files, sweep, lapsed, sweeps>>

\* The user adds a file (one, a bound of the model); what a user removes by
\* hand is not modelled.
UserAddsFile(i) ==
    /\ i \notin DOMAIN downloads
    /\ \A j \in DOMAIN downloads : downloads[j].owner # "user"
    /\ downloads' = With(downloads, i, [owner |-> "user", whole |-> TRUE])
    /\ UNCHANGED <<now, row, files, call, sweep, lapsed, faults, sweeps>>

-----------------------------------------------------------------------------
(* Sweeps.  serve-stdio and purge delete the rows first and then the files; *)
(* the daemon's hook never purges attachment_cache.                         *)

\* `purge --older-than 0s` has the present as its cutoff.
SweepBegins(purgesRows, cutoff) ==
    /\ sweep.pc = "idle"
    /\ sweeps < MaxSweeps
    /\ sweep' = [sweep EXCEPT !.pc = IF purgesRows THEN "rows" ELSE "list", !.cutoff = cutoff]
    /\ sweeps' = sweeps + 1
    /\ UNCHANGED <<now, row, files, downloads, call, lapsed, faults>>

PurgeAttachmentsOlderThan ==
    /\ sweep.pc = "rows"
    /\ row' = [a \in Atts |-> IF row[a] < sweep.cutoff THEN Uncached ELSE row[a]]
    /\ sweep' = [sweep EXCEPT !.pc = "list"]
    /\ UNCHANGED <<now, files, downloads, call, lapsed, faults, sweeps>>

ReadDir ==
    /\ sweep.pc = "list"
    /\ sweep' = [sweep EXCEPT !.pc = "files", !.rest = DOMAIN staged]
    /\ UNCHANGED <<now, row, files, downloads, call, lapsed, faults, sweeps>>

\* The modification time is read here and the file removed a step later.
SweepInfo(n) ==
    /\ sweep.pc = "files" /\ sweep.doomed = {} /\ n \in sweep.rest
    /\ sweep' = [sweep EXCEPT !.rest = @ \ {n},
                   !.doomed = IF n \in DOMAIN staged /\ staged[n].mtime < sweep.cutoff
                                THEN {n} ELSE {}]
    /\ UNCHANGED <<now, row, files, downloads, call, lapsed, faults, sweeps>>

SweepRemove(n) ==
    /\ n \in sweep.doomed
    /\ IF n \in DOMAIN staged THEN Unlink(n, {}) ELSE UNCHANGED files
    /\ sweep' = [sweep EXCEPT !.doomed = {}]
    /\ UNCHANGED <<now, row, downloads, call, lapsed, faults, sweeps>>

SweepEnds ==
    /\ sweep.pc = "files" /\ sweep.doomed = {} /\ sweep.rest = {}
    /\ sweep' = [sweep EXCEPT !.pc = "idle", !.cutoff = 0]
    /\ UNCHANGED <<now, row, files, downloads, call, lapsed, faults, sweeps>>

-----------------------------------------------------------------------------
\* The daemon dies: a file it was writing stays cut short, an eviction it
\* owed is lost.
Crash ==
    LET live == {c \in Calls : call[c].pc \notin {"ready", "done"}} IN
    /\ live # {}
    /\ Fault
    /\ call' = [c \in Calls |-> IF c \in live THEN Ended(call[c], "lost") ELSE call[c]]
    /\ lost' = lost \union {StagingName(call[c].att) : c \in {d \in live : At(d, "write")}}
    /\ orphan' = {}
    /\ lapsed' = (lapsed \/ \E c \in live : call[c].pc \in {"sum", "evict"})
    /\ UNCHANGED <<now, row, staged, downloads, sweep, sweeps>>

Tick ==
    /\ now < MaxTime
    /\ now' = now + 1
    /\ UNCHANGED <<row, files, downloads, call, sweep, lapsed, faults, sweeps>>

Next ==
    \/ \E c \in Calls :
         \/ \E t \in Tools, a \in Atts : Start(c, t, a)
         \/ Lookup(c) \/ Envelope(c) \/ Fetch(c) \/ BytesFail(c)
         \/ SetAttachmentCache(c) \/ CacheFails(c)
         \/ SumAttachmentBytes(c) \/ EvictAttachmentsToFit(c) \/ EvictFails(c)
         \/ OpenStaging(c) \/ WriteStaging(c) \/ OpenFails(c) \/ WriteFails(c)
         \/ OpenExclusive(c) \/ SaveWrites(c) \/ SaveFails(c)
    \/ \E i \in 1 .. MaxTries : UserAddsFile(i)
    \/ SweepBegins(FALSE, now - Retention)
    \/ SweepBegins(TRUE, now - Retention)
    \/ SweepBegins(TRUE, now)
    \/ PurgeAttachmentsOlderThan \/ ReadDir \/ SweepEnds
    \/ \E n \in Names : SweepInfo(n) \/ SweepRemove(n)
    \/ Crash \/ Tick

Spec == Init /\ [][Next]_vars

-----------------------------------------------------------------------------
(* Properties.                                                              *)

\* The type invariant: no file lies beyond the last name that is tried.
TypeOK ==
    /\ now \in 0 .. MaxTime
    /\ row \in [Atts -> 0 .. MaxTime \union {Uncached}]
    /\ DOMAIN staged \subseteq Names
    /\ \A n \in DOMAIN staged :
         staged[n] \in [att : Atts, mtime : 0 .. MaxTime, whole : BOOLEAN]
    /\ DOMAIN downloads \subseteq 1 .. MaxTries
    /\ \A i \in DOMAIN downloads :
         downloads[i] \in [owner : Calls \union {"user"}, whole : BOOLEAN]
    /\ call \in [Calls -> [pc : Pcs, tool : Tools \union {"none"}, att : Atts \union {NoAtt},
                           seen : SUBSET Atts, try : 1 .. MaxTries + 1, answer : Answers]]
    /\ orphan \subseteq Calls
    /\ sweep \in [pc : {"idle", "rows", "list", "files"}, cutoff : Int,
                  rest : SUBSET Names, doomed : SUBSET Names]
    /\ lost \subseteq Names /\ lapsed \in BOOLEAN
    /\ faults \in 0 .. MaxFaults /\ sweeps \in 0 .. MaxSweeps

\* The cache is over its ceiling only while a call that wrote a row still
\* has its eviction to come, or after an eviction was lost, until one that
\* had summed every row runs: the total an evictor acts on is stale when its
\* transaction runs, and two evictors may act on overlapping totals, but
\* what they delete is never too little (store/attachments.go:134).
WithinCeiling ==
    \/ Bytes(Cached) <= Ceiling
    \/ \E c \in Calls : call[c].pc \in {"sum", "evict"}
    \/ lapsed

\* The path a download answered holds that attachment, whole, whatever other
\* calls wrote since -- unless another call for the same attachment is in
\* the middle of rewriting it, or a sweep, a failed rewrite or a crash took
\* it (attachment_download.go:310-331).
PathHolds ==
    \A c \in Calls :
      call[c].answer = "path" =>
        LET n == StagingName(call[c].att) IN
        \/ n \in DOMAIN staged /\ staged[n].att = call[c].att /\ staged[n].whole
        \/ Writing(n) # {}
        \/ n \in lost

\* A file of ~/Downloads that is complete, the user's or another save's, is
\* never changed or removed by a save (attachment_save.go:207).
NeverOverwrites ==
    [][\A i \in DOMAIN downloads :
          downloads[i].whole => i \in DOMAIN downloads' /\ downloads'[i] = downloads[i]]_vars
=============================================================================
