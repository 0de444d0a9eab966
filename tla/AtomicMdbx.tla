----------------------------- MODULE AtomicMdbx -----------------------------
(***************************************************************************)
(* What the callers of UbtDatabase count on: a call changes the tables at  *)
(* one instant, in the way Stores has it, or fails and changes nothing,    *)
(* and all that one call reads is the tables as they were at one instant.  *)
(***************************************************************************)
EXTENDS MdbxCalls

VARIABLES
    db,         \* the tables
    asked,      \* the call of each client
    view,       \* what a call has read
    outcome     \* where the call is, "ok" or "error" when it is decided

Init ==
    /\ db = NoTables
    /\ asked = [c \in Client |-> Open]
    /\ view = [c \in Client |-> NoTables]
    /\ outcome = [c \in Client |-> "idle"]

Call(c) ==
    /\ outcome[c] = "idle"
    /\ \E r \in Asked : asked' = [asked EXCEPT ![c] = r]
    /\ outcome' = [outcome EXCEPT ![c] = "called"]
    /\ UNCHANGED <<db, view>>

\* A call that writes takes effect.
Write(c) ==
    /\ outcome[c] = "called" /\ asked[c].op \in WriteOps
    /\ db' = Written(db, asked[c])
    /\ outcome' = [outcome EXCEPT ![c] = "ok"]
    /\ UNCHANGED <<asked, view>>

\* A call that reads looks at the tables; it is answered later.
Look(c) ==
    /\ outcome[c] = "called" /\ asked[c].op \in ReadOps
    /\ view' = [view EXCEPT ![c] = Read(db, asked[c])]
    /\ outcome' = [outcome EXCEPT ![c] = "looked"]
    /\ UNCHANGED <<db, asked>>

Found(c) ==
    /\ outcome[c] = "looked"
    /\ outcome' = [outcome EXCEPT ![c] = "ok"]
    /\ UNCHANGED <<db, asked, view>>

Fail(c) ==
    /\ outcome[c] \in {"called", "looked"}
    /\ outcome' = [outcome EXCEPT ![c] = "error"]
    /\ view' = [view EXCEPT ![c] = NoTables]
    /\ UNCHANGED <<db, asked>>

Return(c) ==
    /\ outcome[c] \in {"ok", "error"}
    /\ outcome' = [outcome EXCEPT ![c] = "idle"]
    /\ view' = [view EXCEPT ![c] = NoTables]
    /\ asked' = [asked EXCEPT ![c] = Open]
    /\ UNCHANGED db

\* The process dies; the tables stay.
Die ==
    /\ outcome' = [c \in Client |-> "idle"]
    /\ view' = [c \in Client |-> NoTables]
    /\ asked' = [c \in Client |-> Open]
    /\ UNCHANGED db

Next ==
    \/ \E c \in Client : \/ Call(c) \/ Write(c) \/ Look(c) \/ Found(c)
                         \/ Fail(c) \/ Return(c)
    \/ Die

Spec == Init /\ [][Next]_<<db, asked, view, outcome>>
=============================================================================
