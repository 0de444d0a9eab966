------------------------------ MODULE MdbxTxn -------------------------------
(***************************************************************************)
(* UbtDatabase as it is built on libmdbx: every call opens a transaction,  *)
(* goes through its keys one by one, commits or returns early, and the     *)
(* wrapper (mdbx.rs) aborts on drop what was not committed.  Of libmdbx    *)
(* itself this takes for granted: one writer at a time, a reader sees the  *)
(* last commit before it began, and a commit is durable or has no effect.  *)
(***************************************************************************)
EXTENDS MdbxCalls

CONSTANTS
    NoClient,   \* nobody holds the writer lock
    MaxCalls    \* calls in one run

ASSUME TxnAssumption == NoClient \notin Client

StemKey(s)  == <<"stem", s>>
AddrKey(s)  == <<"addr", s>>
DeltaKey(b) == <<"delta", b>>
HeadKey     == <<"head", 0>>

StemKeys  == {StemKey(s) : s \in Stem}
AddrKeys  == {AddrKey(s) : s \in Stem}
DeltaKeys == {DeltaKey(b) : b \in Block}
Key == StemKeys \cup AddrKeys \cup DeltaKeys \cup {HeadKey}

\* The record under a key when there is none.
Absent(k) ==
    CASE k \in StemKeys  -> NoNode
      [] k \in AddrKeys  -> NoAddress
      [] k \in DeltaKeys -> EmptyPatch
      [] OTHER           -> NoHead

Cell(k) ==
    CASE k \in StemKeys  -> Node \cup {NoNode}
      [] k \in AddrKeys  -> Address \cup {NoAddress}
      [] k \in DeltaKeys -> Patch
      [] OTHER           -> HeadRecord \cup {NoHead}

Empty == [k \in Key |-> Absent(k)]

\* What the records of a database say, in the terms of Stores.
TablesOf(f) ==
    [stems  |-> [s \in Stem |-> f[StemKey(s)]],
     addrs  |-> {s \in Stem : f[AddrKey(s)] # NoAddress},
     head   |-> f[HeadKey],
     deltas |-> [b \in Block |-> f[DeltaKey(b)]]]

\* The keys a call goes through.  A prune first collects those that are there.
WriteKeys(r, f) ==
    CASE r.op = "updateStems" -> {StemKey(s) : s \in {s \in Stem : r.table[s] # NoNode}}
      [] r.op \in {"saveAddress", "saveAddresses"} -> {AddrKey(s) : s \in KnownStems(r.addrs)}
      [] r.op = "saveHead" -> {HeadKey}
      [] r.op \in {"saveDeltas", "deleteDeltas"} -> {DeltaKey(r.block)}
      [] r.op = "pruneDeltas" ->
            {DeltaKey(b) : b \in {b \in Block : b < r.block /\ f[DeltaKey(b)] # EmptyPatch}}
      [] r.op = "deleteAfter" ->
            {DeltaKey(b) : b \in {b \in Block : b > r.block /\ f[DeltaKey(b)] # EmptyPatch}}
      [] OTHER -> {}

ReadKeys(r) ==
    CASE r.op = "loadStems"   -> {StemKey(s) : s \in r.stems}
      [] r.op = "loadAddress" -> {AddrKey(s) : s \in r.stems}
      [] r.op = "loadDeltas"  -> {DeltaKey(r.block)}
      [] OTHER                -> {HeadKey}

\* The record that a call puts under a key; a delete puts none there.
SwappedMutant(r, k) ==
    CASE k \in StemKeys -> r.table[k[2]]
      [] k \in AddrKeys -> k[2]
      [] k = HeadKey    -> r.head
      [] OTHER          -> IF r.op = "saveDeltas" THEN r.patch ELSE EmptyPatch
NewRecord(r, k) ==
    CASE k \in StemKeys -> r.table[k[2]]
      [] k \in AddrKeys -> r.addrs[k[2]]
      [] k = HeadKey    -> r.head
      [] OTHER          -> IF r.op = "saveDeltas" THEN r.patch ELSE EmptyPatch

\* "Stem address already exists", "Stem address mismatch in MDBX"
NoCheckMutant(r, k, f) == FALSE
Refused(r, k, f) ==
    /\ k \in AddrKeys /\ f[k] # NoAddress
    /\ r.op = "saveAddress" \/ f[k] # NewRecord(r, k)

VARIABLES
    disk,       \* the records as of the last commit
    work,       \* the writer's own copy
    writer,     \* who holds the writer lock
    asked,      \* the call of each client
    at,         \* where the call is
    todo,       \* keys it has still to go through
    snap,       \* the records as a reader sees them
    seen,       \* what a reader has read
    result,     \* what the call returns
    handle,     \* libmdbx's transaction: none, live, or freed
    committed,  \* the wrapper's flag
    misuse,     \* a freed transaction was given to libmdbx
    calls       \* calls so far

mdbxVars == <<disk, work, writer, asked, at, todo, snap, seen, result, handle,
              committed, misuse, calls>>
lockVars == <<disk, work, writer>>

Reads(c) == asked[c].op \in ReadOps

TxnInit ==
    /\ disk = Empty /\ work = Empty /\ writer = NoClient
    /\ asked = [c \in Client |-> Open]
    /\ at = [c \in Client |-> "idle"]
    /\ todo = [c \in Client |-> {}]
    /\ snap = [c \in Client |-> Empty]
    /\ seen = [c \in Client |-> Empty]
    /\ result = [c \in Client |-> "none"]
    /\ handle = [c \in Client |-> "none"]
    /\ committed = [c \in Client |-> FALSE]
    /\ misuse = FALSE
    /\ calls = 0

----------------------------------------------------------------------------
Call(c) ==
    /\ at[c] = "idle" /\ calls < MaxCalls
    /\ \E r \in Asked : asked' = [asked EXCEPT ![c] = r]
    /\ at' = [at EXCEPT ![c] = "begin"]
    /\ calls' = calls + 1
    /\ UNCHANGED <<lockVars, todo, snap, seen, result, handle, committed, misuse>>

\* The two batch calls return at once when there is nothing to write.
EmptyBatch(c) ==
    /\ at[c] = "begin" /\ asked[c].op \in {"updateStems", "saveAddresses"}
    /\ WriteKeys(asked[c], disk) = {}
    /\ result' = [result EXCEPT ![c] = "ok"]
    /\ at' = [at EXCEPT ![c] = "done"]
    /\ UNCHANGED <<lockVars, asked, todo, snap, seen, handle, committed, misuse, calls>>

BeginRo(c) ==
    /\ at[c] = "begin" /\ Reads(c)
    /\ snap' = [snap EXCEPT ![c] = disk]
    /\ todo' = [todo EXCEPT ![c] = ReadKeys(asked[c])]
    /\ handle' = [handle EXCEPT ![c] = "live"]
    /\ at' = [at EXCEPT ![c] = "items"]
    /\ UNCHANGED <<lockVars, asked, seen, result, committed, misuse, calls>>

\* A writer waits for the one before it.
BeginRw(c) ==
    /\ at[c] = "begin" /\ ~Reads(c)
    /\ ~(asked[c].op \in {"updateStems", "saveAddresses"} /\ WriteKeys(asked[c], disk) = {})
    /\ writer = NoClient
    /\ writer' = c /\ work' = disk
    /\ todo' = [todo EXCEPT ![c] = WriteKeys(asked[c], disk)]
    /\ handle' = [handle EXCEPT ![c] = "live"]
    /\ at' = [at EXCEPT ![c] = "items"]
    /\ UNCHANGED <<disk, asked, snap, seen, result, committed, misuse, calls>>

BeginFails(c) ==
    /\ at[c] = "begin"
    /\ result' = [result EXCEPT ![c] = "error"]
    /\ at' = [at EXCEPT ![c] = "done"]
    /\ UNCHANGED <<lockVars, asked, todo, snap, seen, handle, committed, misuse, calls>>

\* Every read of a call goes through its one transaction.
GetLatestMutant(c, k) == seen' = [seen EXCEPT ![c][k] = disk[k]]
Get(c, k) == seen' = [seen EXCEPT ![c][k] = snap[c][k]]

GetNext(c) ==
    /\ at[c] = "items" /\ Reads(c)
    /\ \E k \in todo[c] :
        /\ Get(c, k)
        /\ todo' = [todo EXCEPT ![c] = @ \ {k}]
    /\ UNCHANGED <<lockVars, asked, at, snap, result, handle, committed, misuse, calls>>

PutNext(c) ==
    /\ at[c] = "items" /\ ~Reads(c)
    /\ \E k \in todo[c] :
        /\ ~Refused(asked[c], k, work)
        /\ work' = [work EXCEPT ![k] = NewRecord(asked[c], k)]
        /\ todo' = [todo EXCEPT ![c] = @ \ {k}]
    /\ UNCHANGED <<disk, writer, asked, at, snap, seen, result, handle, committed,
                   misuse, calls>>

\* A get, put or delete fails (MDBX_MAP_FULL, an address that differs, a record
\* that does not deserialize): the call returns early.
ItemFails(c) ==
    /\ at[c] = "items"
    /\ result' = [result EXCEPT ![c] = "error"]
    /\ at' = [at EXCEPT ![c] = "drop"]
    /\ UNCHANGED <<lockVars, asked, todo, snap, seen, handle, committed, misuse, calls>>

AllRead(c) ==
    /\ at[c] = "items" /\ Reads(c) /\ todo[c] = {}
    /\ result' = [result EXCEPT ![c] = "ok"]
    /\ at' = [at EXCEPT ![c] = "drop"]
    /\ UNCHANGED <<lockVars, asked, todo, snap, seen, handle, committed, misuse, calls>>

\* commit consumes the transaction, whether it succeeds or not; libmdbx frees it
\* and releases the lock in both cases.
FlagOnSuccessMutant(c, ok) == committed' = [committed EXCEPT ![c] = ok]
SetCommitted(c, ok) == committed' = [committed EXCEPT ![c] = TRUE]

Commit(c) ==
    /\ at[c] = "items" /\ ~Reads(c) /\ todo[c] = {}
    /\ \E ok \in BOOLEAN :
        /\ disk' = IF ok THEN work ELSE disk
        /\ result' = [result EXCEPT ![c] = IF ok THEN "ok" ELSE "error"]
        /\ SetCommitted(c, ok)
    /\ misuse' = (misuse \/ handle[c] # "live")
    /\ handle' = [handle EXCEPT ![c] = "freed"]
    /\ writer' = NoClient /\ work' = Empty
    /\ at' = [at EXCEPT ![c] = "drop"]
    /\ UNCHANGED <<asked, todo, snap, seen, calls>>

\* The transaction goes out of scope, and is aborted if the flag is not set.
KeepOpenMutant(c) == UNCHANGED <<writer, work, handle, misuse>>
AbortUnlessCommitted(c) ==
    IF committed[c] THEN UNCHANGED <<writer, work, handle, misuse>>
    ELSE /\ misuse' = (misuse \/ handle[c] # "live")
         /\ handle' = [handle EXCEPT ![c] = "freed"]
         /\ writer' = IF writer = c THEN NoClient ELSE writer
         /\ work' = IF writer = c THEN Empty ELSE work

Drop(c) ==
    /\ at[c] = "drop"
    /\ AbortUnlessCommitted(c)
    /\ at' = [at EXCEPT ![c] = "done"]
    /\ snap' = [snap EXCEPT ![c] = Empty]
    /\ todo' = [todo EXCEPT ![c] = {}]
    /\ committed' = [committed EXCEPT ![c] = FALSE]
    /\ UNCHANGED <<disk, asked, seen, result, calls>>

Return(c) ==
    /\ at[c] = "done"
    /\ at' = [at EXCEPT ![c] = "idle"]
    /\ seen' = [seen EXCEPT ![c] = Empty]
    /\ result' = [result EXCEPT ![c] = "none"]
    /\ handle' = [handle EXCEPT ![c] = "none"]
    /\ asked' = [asked EXCEPT ![c] = Open]
    /\ UNCHANGED <<lockVars, todo, snap, committed, misuse, calls>>

\* The process dies; the lock file is robust, and what was not committed is gone.
Die ==
    /\ calls < MaxCalls /\ calls' = calls + 1
    /\ writer' = NoClient /\ work' = Empty
    /\ asked' = [c \in Client |-> Open]
    /\ at' = [c \in Client |-> "idle"]
    /\ todo' = [c \in Client |-> {}]
    /\ snap' = [c \in Client |-> Empty]
    /\ seen' = [c \in Client |-> Empty]
    /\ result' = [c \in Client |-> "none"]
    /\ handle' = [c \in Client |-> "none"]
    /\ committed' = [c \in Client |-> FALSE]
    /\ UNCHANGED <<disk, misuse>>

Step(c) == \/ BeginRo(c) \/ BeginRw(c) \/ BeginFails(c) \/ EmptyBatch(c)
           \/ GetNext(c) \/ PutNext(c) \/ ItemFails(c) \/ AllRead(c)
           \/ Commit(c) \/ Drop(c) \/ Return(c)

TxnNext == Die \/ \E c \in Client : Call(c) \/ Step(c)

TxnSpec == TxnInit /\ [][TxnNext]_mdbxVars

\* A call that has begun goes on: it waits for nobody but the writer before it.
FairTxnSpec == TxnSpec /\ \A c \in Client : WF_mdbxVars(Step(c))

----------------------------------------------------------------------------
(* Properties.                                                               *)

Database(f) == DOMAIN f = Key /\ \A k \in Key : f[k] \in Cell(k)

\* The only type invariant: records under a key are of its table, and every
\* client is somewhere in a call.
TxnTypeOK ==
    /\ Database(disk) /\ Database(work)
    /\ writer \in Client \cup {NoClient}
    /\ asked \in [Client -> Request]
    /\ at \in [Client -> {"idle", "begin", "items", "drop", "done"}]
    /\ todo \in [Client -> SUBSET Key]
    /\ DOMAIN snap = Client /\ DOMAIN seen = Client
    /\ \A c \in Client : Database(snap[c]) /\ Database(seen[c])
    /\ result \in [Client -> {"none", "ok", "error"}]
    /\ handle \in [Client -> {"none", "live", "freed"}]
    /\ committed \in [Client -> BOOLEAN]
    /\ misuse \in BOOLEAN
    /\ calls \in Nat

Outcome(c) ==
    CASE result[c] # "none"                 -> result[c]
      [] at[c] = "items" /\ Reads(c)        -> "looked"
      [] at[c] = "idle"                     -> "idle"
      [] OTHER                              -> "called"

\* What a reader is going to return.
View(c) ==
    IF result[c] = "error" \/ ~Reads(c) THEN NoTables
    ELSE IF at[c] = "items" THEN Read(TablesOf(snap[c]), asked[c])
    ELSE TablesOf(seen[c])

Atomic == INSTANCE AtomicMdbx WITH
    db <- TablesOf(disk),
    view <- [c \in Client |-> View(c)],
    outcome <- [c \in Client |-> Outcome(c)]

\* Put by put and get by get, with early returns, failed commits and other
\* callers between, every call of UbtDatabase acts at one instant or not at all,
\* and as Stores has it (persistence.rs; "one transaction" in UbtExEx).
CallsAreAtomic == Atomic!Spec

\* The address of a stem, once on record, never changes, whoever saves it again
\* (save_stem_address, batch_save_stem_addresses).
AddressesStay ==
    [][\A k \in AddrKeys : disk[k] # NoAddress => disk'[k] = disk[k]]_mdbxVars

\* No transaction is given to libmdbx after it was freed, and the writer lock is
\* held by a live transaction, and by nobody when no write is under way.
HandlesSound ==
    /\ ~misuse
    /\ \A c \in Client :
        /\ (writer = c) = (handle[c] = "live" /\ ~Reads(c))
        /\ at[c] \in {"idle", "done"} => handle[c] # "live"

\* No path through a call, with its early returns, keeps the writer lock: a
\* second writer never waits for good.
LockReleased == \A c \in Client : (writer = c) ~> (writer # c)
=============================================================================
