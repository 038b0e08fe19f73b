---------------------------- MODULE AtomicDrafts ----------------------------
(***************************************************************************)
(* What the draft tools promise, with every lock, fetch and comparison     *)
(* left out: a call acts on its draft in one step, as if it had the server *)
(* to itself.  An update has two, its fields and then its files; the web   *)
(* UI and the upload of a composer may come between them, another update   *)
(* or mail_send_draft may not.                                             *)
(*                                                                         *)
(* SendDraft refines this specification.                                   *)
(***************************************************************************)
CONSTANTS
    Senders,    \* mail_send_draft calls
    Updaters,   \* mail_draft_update calls
    Composers,  \* mail_draft_create, mail_send, mail_reply, mail_forward calls
    Keys,       \* draft IDs
    Drafts,     \* those in use at the start
    WebEdits,   \* edits made in the Proton web UI
    fields,     \* what each updater and composer writes,
    files       \* and what it attaches

VARIABLES
    draft,      \* draft_id of each sender and updater
    asks,       \* the senders that prompt
    exists,     \* drafts that were created
    content,    \* what each draft carries
    sent,       \* drafts that were sent
    shown,      \* what the dialog of a sender showed
    made,       \* the draft of each composer, and what it is to carry
    phase       \* how far the effect of each call has come

adVars == <<draft, asks, exists, content, sent, shown, made, phase>>

ADInit ==
    /\ draft \in [Senders \cup Updaters -> Keys]
    /\ asks \in SUBSET Senders
    /\ exists = Drafts
    /\ content = [d \in Keys |-> {}]
    /\ sent = {}
    /\ shown = [s \in Senders |-> {}]
    /\ made = [c \in Composers |-> [key |-> {}, edits |-> {}]]
    /\ phase = [p \in Senders \cup Updaters \cup Composers |-> "new"]

Becomes(p, s) == phase' = [phase EXCEPT ![p] = s]
Adds(d, x) == content' = [content EXCEPT ![d] = @ \cup {x}]

(* No update is between its fields and its files. *)
Quiet(d) == \A u \in Updaters : phase[u] = "filling" => draft[u] # d

(* What no lock keeps out of a draft. *)
Unguarded == WebEdits \cup {files[c] : c \in Composers}

Edit(d, w) ==
    /\ d \in exists \ sent
    /\ Adds(d, w)
    /\ UNCHANGED <<draft, asks, exists, sent, shown, made, phase>>

Show(s) ==
    /\ phase[s] = "new" /\ s \in asks /\ draft[s] \in exists
    /\ shown' = [shown EXCEPT ![s] = content[draft[s]]]
    /\ Becomes(s, "asked")
    /\ UNCHANGED <<draft, asks, exists, content, sent, made>>

(* What was shown is sent, whole, and at most something unguarded with it. *)
Send(s) ==
    /\ phase[s] = IF s \in asks THEN "asked" ELSE "new"
    /\ draft[s] \in exists \ sent
    /\ Quiet(draft[s])
    /\ s \in asks => /\ shown[s] \subseteq content[draft[s]]
                     /\ content[draft[s]] \subseteq shown[s] \cup Unguarded
    /\ sent' = sent \cup {draft[s]}
    /\ Becomes(s, "done")
    /\ UNCHANGED <<draft, asks, exists, content, shown, made>>

(* An update keeps what the daemon's calls wrote; a web edit may go. *)
Update(u) ==
    /\ phase[u] = "new"
    /\ draft[u] \in exists \ sent
    /\ Quiet(draft[u])
    /\ \E lost \in SUBSET WebEdits :
         content' = [content EXCEPT ![draft[u]] = (@ \ lost) \cup {fields[u]}]
    /\ Becomes(u, "filling")
    /\ UNCHANGED <<draft, asks, exists, sent, shown, made>>

Upload(u) ==
    /\ phase[u] = "filling"
    /\ draft[u] \in exists \ sent
    /\ Adds(draft[u], files[u])
    /\ Becomes(u, "done")
    /\ UNCHANGED <<draft, asks, exists, sent, shown, made>>

Compose(c) ==
    /\ phase[c] = "new"
    /\ \E d \in Keys \ exists, edits \in {{fields[c]}, {fields[c], files[c]}} :
        /\ exists' = exists \cup {d}
        /\ content' = [content EXCEPT ![d] = {fields[c]}]
        /\ made' = [made EXCEPT ![c] = [key |-> {d}, edits |-> edits]]
        /\ Becomes(c, IF files[c] \in edits THEN "filling" ELSE "whole")
    /\ UNCHANGED <<draft, asks, sent, shown>>

Attach(c) ==
    /\ phase[c] = "filling"
    /\ \E d \in made[c].key \ sent : Adds(d, files[c])
    /\ Becomes(c, "whole")
    /\ UNCHANGED <<draft, asks, exists, sent, shown, made>>

SendOwn(c) ==
    /\ phase[c] = "whole"
    /\ \E d \in made[c].key \ sent :
        /\ made[c].edits \subseteq content[d]
        /\ sent' = sent \cup {d}
    /\ Becomes(c, "done")
    /\ UNCHANGED <<draft, asks, exists, content, shown, made>>

(* Refused, failed, or with nothing more to do: no effect from now on. *)
Stop(p) ==
    /\ phase[p] # "done"
    /\ Becomes(p, "done")
    /\ UNCHANGED <<draft, asks, exists, content, sent, shown, made>>

ADNext ==
    \/ \E d \in Keys, w \in WebEdits : Edit(d, w)
    \/ \E s \in Senders : Show(s) \/ Send(s)
    \/ \E u \in Updaters : Update(u) \/ Upload(u)
    \/ \E c \in Composers : Compose(c) \/ Attach(c) \/ SendOwn(c)
    \/ \E p \in Senders \cup Updaters \cup Composers : Stop(p)

ADSpec == ADInit /\ [][ADNext]_adVars
=============================================================================
