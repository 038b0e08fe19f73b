SPECIFICATION Spec
CHECK_DEADLOCK FALSE
CONSTANTS
    Senders = {s1}
    Updaters = {u1, u2}
    Composers = {c1}
    Drafts = {}
    Procs = {s1, u1, u2}
    Keys = {d1}
    Entries = {e1, e2}
    NoEntry = NoEntry
    Nobody = Nobody
    WebEdits = {w1}
INVARIANTS DraftSerialized HolderRuns
PROPERTIES Atomic SendsWhatWasApproved NoLostUpdate SentIsWhole
SYMMETRY Symmetry
