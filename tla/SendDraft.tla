----------------------------- MODULE SendDraft ------------------------------
(***************************************************************************)
(* mail_send_draft against mail_draft_update: the approval dialog and the  *)
(* send act on one snapshot (issue #116, internal/mcptools/                *)
(* send_snapshot.go, mail_send.go and drafts.go), while the web UI may     *)
(* edit the same draft on the server, and while the tools that create a    *)
(* draft (mail_draft_create, mail_send, mail_reply, mail_forward) still    *)
(* fill it: they take no lock, and the draft is in every list at once.     *)
(*                                                                         *)
(* A draft's content is the set of edits it carries: the fields of each    *)
(* mail_draft_update, the files it attached, the edits of the web UI.      *)
(* UpdateDraft re-encrypts the body, so two different sets of edits never  *)
(* look the same to draftChange.                                           *)
(*                                                                         *)
(* The policy's ttl for mail_send_draft is 0, as in default.yaml: every    *)
(* call that prompts shows its own dialog.  Failures covered: every server *)
(* call may fail.  Not covered: mail_draft_delete.                         *)
(***************************************************************************)
EXTENDS KeyedMutex

CONSTANTS
    Senders,    \* mail_send_draft calls
    Updaters,   \* mail_draft_update calls
    Composers,  \* mail_draft_create, mail_send, mail_reply, mail_forward calls
    Drafts,     \* the drafts there are at the start; the other Keys are free
    WebEdits    \* edits made in the Proton web UI

Fields(p) == <<p, "fields">>
Files(p) == <<p, "files">>
Authors == Updaters \cup Composers
OwnEdits == {Fields(a) : a \in Authors} \cup {Files(a) : a \in Authors}
Edits == WebEdits \cup OwnEdits

ASSUME SendDraftAssumption ==
    /\ Procs = Senders \cup Updaters
    /\ Senders \cap Updaters = {}
    /\ Composers \cap Procs = {}
    /\ Drafts \subseteq Keys
    /\ WebEdits \cap OwnEdits = {}

VARIABLES
    draft,      \* draft_id of each call
    asks,       \* the senders policy makes prompt; the others are allowed
    exists,     \* server: drafts that were created
    content,    \* server: what each draft carries
    sent,       \* server: drafts that were sent
    step,       \* where each call is
    shown,      \* the approved snapshot of a sender
    fetched,    \* what the handler's own GetMessage returned
    made        \* the draft of each composer, and what it is to carry

sdVars == <<draft, asks, exists, content, sent, step, shown, fetched, made>>
vars == <<kmVars, sdVars>>

Steps == {"idle", "prompt", "enter", "wait", "locked", "verified", "merged",
          "upload", "unlock", "drop", "over", "attach", "finalize"}
Callers == Procs \cup Composers
Nothing == [key |-> {}, edits |-> {}]

(* Every variable has its type; no entry is released more often than used. *)
TypeOK ==
    /\ KMTypeOK
    /\ draft \in [Procs -> Keys]
    /\ asks \in SUBSET Senders
    /\ exists \in SUBSET Keys
    /\ content \in [Keys -> SUBSET Edits]
    /\ sent \in SUBSET exists
    /\ step \in [Callers -> Steps]
    /\ shown \in [Senders -> SUBSET Edits]
    /\ fetched \in [Procs -> SUBSET Edits]
    /\ made \in [Composers -> [key : SUBSET Keys, edits : SUBSET Edits]]

Init ==
    /\ KMInit
    /\ draft \in [Procs -> Keys]
    /\ asks \in SUBSET Senders
    /\ exists = Drafts
    /\ content = [d \in Keys |-> {}]
    /\ sent = {}
    /\ step = [p \in Callers |-> "idle"]
    /\ made = [c \in Composers |-> Nothing]
    /\ shown = [s \in Senders |-> {}]
    /\ fetched = [p \in Procs |-> {}]

Goto(p, s) == step' = [step EXCEPT ![p] = s]

----------------------------------------------------------------------------
(* The web UI edits a draft that is still a draft. *)
WebEdit(d, w) ==
    /\ d \in exists \ sent
    /\ w \notin content[d]
    /\ content' = [content EXCEPT ![d] = @ \cup {w}]
    /\ UNCHANGED <<kmVars, draft, asks, exists, made, sent, step, shown, fetched>>

----------------------------------------------------------------------------
(* mail_send_draft: PromptSnapshot fetches the draft and renders it. *)
ShowDraft(s) ==
    /\ step[s] = "idle" /\ s \in asks /\ draft[s] \in exists
    /\ shown' = [shown EXCEPT ![s] = content[draft[s]]]
    /\ Goto(s, "prompt")
    /\ UNCHANGED <<kmVars, draft, asks, exists, made, content, sent, fetched>>

Approve(s) ==
    /\ step[s] = "prompt"
    /\ Goto(s, "enter")
    /\ UNCHANGED <<kmVars, draft, asks, exists, made, content, sent, shown, fetched>>

(* Declined, timed out, or canceled. *)
Decline(s) ==
    /\ step[s] = "prompt"
    /\ Goto(s, "over")
    /\ UNCHANGED <<kmVars, draft, asks, exists, made, content, sent, shown, fetched>>

(* Policy says allow (to the sender, or to every updater): no dialog, and  *)
(* no snapshot in the handler's Context.                                   *)
StartAllowed(p) ==
    /\ step[p] = "idle" /\ p \notin asks /\ draft[p] \in exists
    /\ Goto(p, "enter")
    /\ UNCHANGED <<kmVars, draft, asks, exists, made, content, sent, shown, fetched>>

(* draftLocks.Lock(draftID). *)
EnterLock(p) ==
    /\ step[p] = "enter"
    /\ Lookup(p, draft[p])
    /\ Goto(p, "wait")
    /\ UNCHANGED <<draft, asks, exists, made, content, sent, shown, fetched>>

TakeLock(p) ==
    /\ step[p] = "wait"
    /\ Acquire(p)
    /\ Goto(p, "locked")
    /\ UNCHANGED <<draft, asks, exists, made, content, sent, shown, fetched>>

(* draftChange: anything that differs from what the dialog showed. *)
Fault_NotCompared(s) == FALSE
Changed(s) == s \in asks /\ content[draft[s]] # shown[s]

(* Every return of the two handlers runs the deferred unlock. *)
Fault_RefusalReturnsLocked(s) == "over"
AfterRefusal(s) == "unlock"

(* sendDraftByID fetches the draft again and compares. *)
VerifyDraft(s) ==
    /\ s \in Senders /\ step[s] = "locked"
    /\ fetched' = [fetched EXCEPT ![s] = content[draft[s]]]
    /\ Goto(s, IF Changed(s) THEN AfterRefusal(s) ELSE "verified")
    /\ UNCHANGED <<kmVars, draft, asks, exists, made, content, sent, shown>>

(* Any server call, the key material or the allowlist may refuse. *)
HandlerFails(p) ==
    /\ step[p] \in {"locked", "verified", "merged", "upload"}
    /\ Goto(p, "unlock")
    /\ UNCHANGED <<kmVars, draft, asks, exists, made, content, sent, shown, fetched>>

(* SendDraft; the server takes a draft once. *)
Send(s) ==
    /\ step[s] = "verified"
    /\ draft[s] \notin sent
    /\ sent' = sent \cup {draft[s]}
    /\ Goto(s, "unlock")
    /\ UNCHANGED <<kmVars, draft, asks, exists, made, content, shown, fetched>>

----------------------------------------------------------------------------
(* mail_draft_update: fetch the current draft, so that what the call does  *)
(* not pass is kept.                                                       *)
FetchCurrent(u) ==
    /\ u \in Updaters /\ step[u] = "locked"
    /\ fetched' = [fetched EXCEPT ![u] = content[draft[u]]]
    /\ Goto(u, "merged")
    /\ UNCHANGED <<kmVars, draft, asks, exists, made, content, sent, shown>>

(* UpdateDraft replaces the fields and keeps the files already attached. *)
Fault_FilesReplaced(x) == FALSE
IsFiles(x) == \E q \in Authors : x = Files(q)

UpdateDraft(u) ==
    /\ step[u] = "merged"
    /\ draft[u] \notin sent
    /\ content' = [content EXCEPT ![draft[u]] =
                      fetched[u] \cup {Fields(u)} \cup {x \in @ : IsFiles(x)}]
    /\ Goto(u, "upload")
    /\ UNCHANGED <<kmVars, draft, asks, exists, made, sent, shown, fetched>>

(* The upload of the call's attachments, if it has any. *)
UploadFiles(u) ==
    /\ step[u] = "upload"
    /\ draft[u] \notin sent
    /\ content' \in {content, [content EXCEPT ![draft[u]] = @ \cup {Files(u)}]}
    /\ Goto(u, "unlock")
    /\ UNCHANGED <<kmVars, draft, asks, exists, made, sent, shown, fetched>>

----------------------------------------------------------------------------
(* The composers: CreateDraft with the fields of the call, the files of    *)
(* the call, and for all but mail_draft_create the send.  The packages are *)
(* built from the call's own text and files, never from a fetch.           *)
Compose(c) ==
    /\ step[c] = "idle"
    /\ \E d \in Keys \ exists, edits \in {{Fields(c)}, {Fields(c), Files(c)}} :
        /\ exists' = exists \cup {d}
        /\ content' = [content EXCEPT ![d] = {Fields(c)}]
        /\ made' = [made EXCEPT ![c] = [key |-> {d}, edits |-> edits]]
        /\ Goto(c, IF Files(c) \in edits THEN "attach" ELSE "finalize")
    /\ UNCHANGED <<kmVars, draft, asks, sent, shown, fetched>>

AttachFiles(c) ==
    /\ step[c] = "attach"
    /\ \E d \in made[c].key \ sent : content' = [content EXCEPT ![d] = @ \cup {Files(c)}]
    /\ Goto(c, "finalize")
    /\ UNCHANGED <<kmVars, draft, asks, exists, sent, shown, fetched, made>>

(* mail_draft_create answers with the draft_id. *)
DraftReady(c) ==
    /\ step[c] = "finalize"
    /\ Goto(c, "over")
    /\ UNCHANGED <<kmVars, draft, asks, exists, content, sent, shown, fetched, made>>

SendComposed(c) ==
    /\ step[c] = "finalize"
    /\ \E d \in made[c].key \ sent : sent' = sent \cup {d}
    /\ Goto(c, "over")
    /\ UNCHANGED <<kmVars, draft, asks, exists, content, shown, fetched, made>>

(* An upload that fails ends the call, and leaves the draft behind. *)
Fault_UploadLogged(c) == IF step[c] = "attach" THEN "finalize" ELSE "over"
AfterFailure(c) == "over"

ComposeFails(c) ==
    /\ step[c] \in {"attach", "finalize"}
    /\ Goto(c, AfterFailure(c))
    /\ UNCHANGED <<kmVars, draft, asks, exists, content, sent, shown, fetched, made>>

----------------------------------------------------------------------------
ReleaseLock(p) ==
    /\ step[p] = "unlock"
    /\ Release(p)
    /\ Goto(p, "drop")
    /\ UNCHANGED <<draft, asks, exists, made, content, sent, shown, fetched>>

DropLock(p) ==
    /\ step[p] = "drop"
    /\ Drop(p, draft[p])
    /\ Goto(p, "over")
    /\ UNCHANGED <<draft, asks, exists, made, content, sent, shown, fetched>>

----------------------------------------------------------------------------
SenderStep(s) ==
    \/ ShowDraft(s) \/ Approve(s) \/ Decline(s) \/ VerifyDraft(s) \/ Send(s)

UpdaterStep(u) == FetchCurrent(u) \/ UpdateDraft(u) \/ UploadFiles(u)

HandlerStep(p) ==
    \/ EnterLock(p) \/ HandlerFails(p) \/ ReleaseLock(p) \/ DropLock(p)

Next ==
    \/ \E d \in Keys, w \in WebEdits : WebEdit(d, w)
    \/ \E p \in Procs : StartAllowed(p) \/ TakeLock(p) \/ HandlerStep(p)
    \/ \E s \in Senders : SenderStep(s)
    \/ \E u \in Updaters : UpdaterStep(u)
    \/ \E c \in Composers :
         Compose(c) \/ AttachFiles(c) \/ DraftReady(c) \/ SendComposed(c) \/ ComposeFails(c)

Spec == Init /\ [][Next]_vars

----------------------------------------------------------------------------
(* The map holds an entry for a draft exactly as long as some call uses    *)
(* it, counts its users right, and gives all calls on one draft the same   *)
(* entry: otherwise two of them hold different locks for one draft.        *)
OneLockPerDraft ==
    /\ \A d \in Keys :
        registry[d] # NoEntry => refs[registry[d]] = Cardinality(Users(registry[d]))
                                 /\ refs[registry[d]] > 0
    /\ \A p \in Procs : uses[p] # NoEntry => registry[draft[p]] = uses[p]

(* Verify-and-send and fetch-and-update exclude each other per draft. *)
InHandler(p) == step[p] \in {"locked", "verified", "merged", "upload", "unlock"}

DraftSerialized ==
    \A p, q \in Procs :
        InHandler(p) /\ InHandler(q) /\ draft[p] = draft[q] => p = q

(* What mail_send_draft sends is what the user approved: the package is    *)
(* built from the draft the handler fetched, the rest of the message is    *)
(* what the server holds, and both are the dialog's snapshot -- except     *)
(* that a web edit may still land between the check and the send ("the     *)
(* user's own hands", send_snapshot.go:32), and so may the upload of a     *)
(* composer, which holds no lock on the draft it made.                     *)
SendsWhatWasApproved ==
    [][\A s \in asks : step[s] = "verified" /\ sent' # sent /\ step'[s] = "unlock"
        => /\ fetched[s] = shown[s]
           /\ shown[s] \subseteq content[draft[s]]
           /\ content[draft[s]] \ shown[s] \subseteq
                WebEdits \cup {Files(c) : c \in Composers}]_vars

(* No update made through the daemon is undone by another one working from *)
(* an older fetch; only a web edit can be.                                 *)
NoLostUpdate ==
    [][\A d \in Keys : content[d] \ content'[d] \subseteq WebEdits]_vars

(* mail_send, mail_reply and mail_forward send a message only with every   *)
(* file of the call, whatever updates and web edits came in between: a     *)
(* failed upload never ends in a message without its attachment            *)
(* (mail_send.go:402-406).                                                 *)
SentIsWhole ==
    [][\A c \in Composers : step[c] = "finalize" /\ sent' # sent /\ step'[c] = "over"
        => \A d \in made[c].key : d \in sent' => made[c].edits \subseteq content[d]]_vars

(* A lock is held only by a call that is still in its handler, which runs  *)
(* on and releases it: no return, a refused draft or a failed upload among *)
(* them, leaves the draft locked for ever (mail_send.go:420-432).          *)
HolderRuns ==
    \A e \in Entries : holder[e] # Nobody =>
        InHandler(holder[e]) /\ uses[holder[e]] = e
----------------------------------------------------------------------------
(* How far a call's effect on the server has come: an update takes effect  *)
(* when UpdateDraft answers, a send when SendDraft does; a call that holds *)
(* a lock, waits for it or gives it back has no effect.                    *)
Effect(p) ==
    CASE step[p] \in {"unlock", "drop", "over"} -> "done"
      [] step[p] \in {"upload", "attach"} -> "filling"
      [] step[p] = "finalize" -> "whole"
      [] p \in asks /\ step[p] \in {"prompt", "enter", "wait", "locked", "verified"} ->
           "asked"
      [] OTHER -> "new"

AD == INSTANCE AtomicDrafts
        WITH fields <- [a \in Authors |-> Fields(a)],
             files <- [a \in Authors |-> Files(a)],
             phase <- [p \in Callers |-> Effect(p)]

(* With the lock, fetch and comparison of each call and all that may run   *)
(* between them, the draft tools implement AtomicDrafts: every update and  *)
(* every send looks like one step, mail_draft_update cannot "slip in       *)
(* between that check and SendDraft" (send_snapshot.go:30), and no send    *)
(* finds an update between its fields and its files (drafts.go:166-168).   *)
Atomic == AD!ADSpec
=============================================================================
