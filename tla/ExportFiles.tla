---------------------------- MODULE ExportFiles -----------------------------
(***************************************************************************)
(* The files of an export (pir_export.rs).  A state file is created with   *)
(* no entries in its header, written through a buffer entry by entry, and  *)
(* given its true count at the end; then comes the stem index, count first.*)
(* An export may fail at any point, and the process die: what has reached  *)
(* the files stays, and the next export truncates it.                      *)
(*                                                                         *)
(* What goes into a file (StateExport) is a constant here.                 *)
(***************************************************************************)
EXTENDS Naturals, Sequences

CONSTANTS
    Client,     \* callers
    Path,       \* state files: state.bin, contract-<address>.bin, delta-<range>.bin
    Indexed,    \* those that come with a stem index: all but the deltas
    Block,      \* the head block of an export
    Stem,
    Content,    \* Content[p][b]: the leaves of an export, in key order
    Exclusive,  \* no two exports at a time write the same file
    MaxCalls    \* exports, and deaths, in one run

Leaf == [stem : Stem, subindex : Nat]

\* What key order comes to here: the leaves of a stem are next to each other.
Grouped(L) ==
    \A i, j, k \in 1 .. Len(L) :
        (i < j /\ j < k /\ L[i].stem = L[k].stem) => L[j].stem = L[k].stem

ASSUME FilesAssumption ==
    /\ Path # {} /\ Block # {}
    /\ Indexed \subseteq Path
    /\ Content \in [Path -> [Block -> Seq(Leaf)]]
    /\ \A p \in Path, b \in Block : Grouped(Content[p][b])
    /\ Exclusive \in BOOLEAN

Header == [kind : {"header"}, count : Nat, block : Block]
Entry  == [kind : {"entry"}, leaf : Leaf, block : Block]
Count  == [kind : {"count"}, count : Nat]
Row    == [kind : {"row"}, stem : Stem, offset : Nat]
Hole   == [kind |-> "hole"]
Cell   == Header \cup Entry \cup Count \cup Row \cup {Hole}

HeaderOf(n, b) == [kind |-> "header", count |-> n, block |-> b]
EntryOf(l, b)  == [kind |-> "entry", leaf |-> l, block |-> b]
RowOf(s, n)    == [kind |-> "row", stem |-> s, offset |-> n]
CountOf(n)     == [kind |-> "count", count |-> n]

\* A write at a position, as a file system does it: what is between the end of
\* the file and the position reads as zeros.
WriteAt(f, pos, cells) ==
    [i \in 1 .. (IF Len(f) > pos + Len(cells) THEN Len(f) ELSE pos + Len(cells)) |->
        CASE i \in pos + 1 .. pos + Len(cells) -> cells[i - pos]
          [] i <= pos /\ i > Len(f)            -> Hole
          [] OTHER                             -> f[i]]

VARIABLES
    state,      \* the state file at each path
    index,      \* the stem index that goes with it
    at,         \* where the export of each client is
    path, block,
    next,       \* the leaf to be looked up next
    offset,     \* entry_offset: entries given to the writer
    rows,       \* stem_index_entries
    missing,    \* a stem had no address
    buf,        \* what the BufWriter holds
    pos,        \* the position in the file
    calls

work == <<path, block, next, offset, rows, missing>>
fileVars == <<state, index, at, work, buf, pos, calls>>

At == {"idle", "entries", "flushed", "headed", "index", "answered"}

FilesInit ==
    /\ state = [p \in Path |-> <<>>]
    /\ index = [p \in Path |-> <<>>]
    /\ at = [c \in Client |-> "idle"]
    /\ path = [c \in Client |-> CHOOSE p \in Path : TRUE]
    /\ block = [c \in Client |-> CHOOSE b \in Block : TRUE]
    /\ next = [c \in Client |-> 1]
    /\ offset = [c \in Client |-> 0]
    /\ rows = [c \in Client |-> <<>>]
    /\ missing = [c \in Client |-> FALSE]
    /\ buf = [c \in Client |-> <<>>]
    /\ pos = [c \in Client |-> 0]
    /\ calls = 0

Leaves(c) == Content[path[c]][block[c]]

----------------------------------------------------------------------------
\* File::create truncates; the header goes into the buffer with a count of 0.
CreateStateFile(c, p, b) ==
    /\ at[c] = "idle" /\ calls < MaxCalls
    /\ Exclusive => \A d \in Client : at[d] # "idle" => path[d] # p
    /\ state' = [state EXCEPT ![p] = <<>>]
    /\ at' = [at EXCEPT ![c] = "entries"]
    /\ path' = [path EXCEPT ![c] = p] /\ block' = [block EXCEPT ![c] = b]
    /\ next' = [next EXCEPT ![c] = 1] /\ offset' = [offset EXCEPT ![c] = 0]
    /\ rows' = [rows EXCEPT ![c] = <<>>] /\ missing' = [missing EXCEPT ![c] = FALSE]
    /\ buf' = [buf EXCEPT ![c] = <<HeaderOf(0, b)>>] /\ pos' = [pos EXCEPT ![c] = 0]
    /\ calls' = calls + 1
    /\ UNCHANGED index

\* The row of a stem has the offset of its first entry.
EndOffsetMutant(R, s, n) ==
    IF R # <<>> /\ R[Len(R)].stem = s THEN [R EXCEPT ![Len(R)] = RowOf(s, n)]
                                      ELSE Append(R, RowOf(s, n))
WithRow(R, s, n) ==
    IF R # <<>> /\ R[Len(R)].stem = s THEN R ELSE Append(R, RowOf(s, n))

WriteEntry(c) ==
    /\ at[c] = "entries" /\ next[c] <= Len(Leaves(c))
    /\ LET l == Leaves(c)[next[c]] IN
        /\ buf' = [buf EXCEPT ![c] = Append(@, EntryOf(l, block[c]))]
        /\ rows' = [rows EXCEPT ![c] = WithRow(@, l.stem, offset[c])]
    /\ next' = [next EXCEPT ![c] = @ + 1]
    /\ offset' = [offset EXCEPT ![c] = @ + 1]
    /\ UNCHANGED <<state, index, at, path, block, missing, pos, calls>>

\* A stem without an address is left out, and the export fails at the end.
SkipLeaf(c) ==
    /\ at[c] = "entries" /\ next[c] <= Len(Leaves(c))
    /\ next' = [next EXCEPT ![c] = @ + 1]
    /\ missing' = [missing EXCEPT ![c] = TRUE]
    /\ UNCHANGED <<state, index, at, path, block, offset, rows, buf, pos, calls>>

\* The first n cells of the buffer reach the file that is being written.
Spilled(c, n) ==
    LET cells == SubSeq(buf[c], 1, n)
        p == path[c]
    IN  /\ state' = IF at[c] = "entries"
                    THEN [state EXCEPT ![p] = WriteAt(@, pos[c], cells)] ELSE state
        /\ index' = IF at[c] = "index"
                    THEN [index EXCEPT ![p] = WriteAt(@, pos[c], cells)] ELSE index

Spill(c) ==
    /\ at[c] \in {"entries", "index"}
    /\ \E n \in 1 .. Len(buf[c]) :
        /\ Spilled(c, n)
        /\ buf' = [buf EXCEPT ![c] = SubSeq(@, n + 1, Len(@))]
        /\ pos' = [pos EXCEPT ![c] = @ + n]
    /\ UNCHANGED <<at, work, calls>>

UnflushedMutant(c) == UNCHANGED <<state, index, buf, pos>>
Flush(c) ==
    /\ Spilled(c, Len(buf[c]))
    /\ buf' = [buf EXCEPT ![c] = <<>>]
    /\ pos' = [pos EXCEPT ![c] = @ + Len(buf[c])]

FinishEntries(c) ==
    /\ at[c] = "entries" /\ next[c] > Len(Leaves(c))
    /\ ~missing[c]
    /\ Flush(c)
    /\ at' = [at EXCEPT ![c] = "flushed"]
    /\ UNCHANGED <<work, calls>>

RewriteHeader(c) ==
    /\ at[c] = "flushed"
    /\ state' = [state EXCEPT ![path[c]] =
                    WriteAt(@, 0, <<HeaderOf(offset[c], block[c])>>)]
    /\ at' = [at EXCEPT ![c] = IF path[c] \in Indexed THEN "headed" ELSE "answered"]
    /\ UNCHANGED <<index, work, buf, pos, calls>>

\* The second file has a handle, and a position, of its own.
KeepPositionMutant(c) == pos
Rewound(c) == [pos EXCEPT ![c] = 0]

CreateIndex(c) ==
    /\ at[c] = "headed"
    /\ index' = [index EXCEPT ![path[c]] = <<>>]
    /\ at' = [at EXCEPT ![c] = "index"]
    /\ buf' = [buf EXCEPT ![c] = <<CountOf(Len(rows[c]))>> \o rows[c]]
    /\ pos' = Rewound(c)
    /\ UNCHANGED <<state, work, calls>>

FinishIndex(c) ==
    /\ at[c] = "index"
    /\ Flush(c)
    /\ at' = [at EXCEPT ![c] = "answered"]
    /\ UNCHANGED <<work, calls>>

\* An early return at any point.  The BufWriter writes what it holds as it is
\* dropped, as far as it gets.
Fail(c) ==
    /\ at[c] \notin {"idle", "answered"}
    /\ \E n \in 0 .. Len(buf[c]) : Spilled(c, n)
    /\ at' = [at EXCEPT ![c] = "idle"]
    /\ buf' = [buf EXCEPT ![c] = <<>>]
    /\ UNCHANGED <<work, pos, calls>>

Deliver(c) ==
    /\ at[c] = "answered"
    /\ at' = [at EXCEPT ![c] = "idle"]
    /\ UNCHANGED <<state, index, work, buf, pos, calls>>

\* The process dies, and the buffers with it.
Die ==
    /\ calls < MaxCalls /\ calls' = calls + 1
    /\ at' = [c \in Client |-> "idle"]
    /\ buf' = [c \in Client |-> <<>>]
    /\ UNCHANGED <<state, index, work, pos>>

FilesNext ==
    \/ \E c \in Client :
        \/ \E p \in Path, b \in Block : CreateStateFile(c, p, b)
        \/ WriteEntry(c) \/ SkipLeaf(c) \/ Spill(c) \/ FinishEntries(c)
        \/ RewriteHeader(c) \/ CreateIndex(c) \/ FinishIndex(c)
        \/ Fail(c) \/ Deliver(c)
    \/ Die

FilesSpec == FilesInit /\ [][FilesNext]_fileVars

----------------------------------------------------------------------------
(* Properties.                                                               *)

\* The only type invariant: files are sequences of cells, never with a hole,
\* and every export is somewhere in its files.
FilesTypeOK ==
    /\ state \in [Path -> Seq(Header \cup Entry)]
    /\ index \in [Path -> Seq(Count \cup Row)]
    /\ at \in [Client -> At]
    /\ path \in [Client -> Path]
    /\ block \in [Client -> Block]
    /\ next \in [Client -> Nat \ {0}]
    /\ offset \in [Client -> Nat]
    /\ rows \in [Client -> Seq(Row)]
    /\ missing \in [Client -> BOOLEAN]
    /\ buf \in [Client -> Seq(Header \cup Entry \cup Count \cup Row)]
    /\ pos \in [Client -> Nat]
    /\ calls \in Nat

\* The whole file of an export of p as of block b.
WholeFile(p, b) ==
    <<HeaderOf(Len(Content[p][b]), b)>>
        \o [i \in 1 .. Len(Content[p][b]) |-> EntryOf(Content[p][b][i], b)]

\* Whenever a reader finds a count other than 0 in a header, all that the header
\* announces is in the file, and nothing else: after exports that failed, that
\* left stems out, that were cut off with the process, and on top of a longer
\* file of an earlier block.
HeaderNeverLies ==
    \A p \in Path :
        (state[p] # <<>> /\ state[p][1].count # 0) => state[p] = WholeFile(p, state[p][1].block)

\* When an export is answered, its state file is whole and its index leads to
\* every entry: it has one row for each stem, and the row has the position of
\* the stem's first entry.
IndexLeads(p) ==
    LET R == index[p]
        N == Len(R) - 1
        EntriesOf(s) == {i \in 1 .. Len(state[p]) - 1 : state[p][i + 1].leaf.stem = s}
    IN  /\ R # <<>> /\ R[1] = CountOf(N)
        /\ \A j \in 2 .. N + 1 :
            /\ R[j].offset + 1 \in EntriesOf(R[j].stem)
            /\ \A i \in EntriesOf(R[j].stem) : R[j].offset < i
        /\ \A i \in 1 .. Len(state[p]) - 1 :
            \E j \in 2 .. N + 1 : R[j].stem = state[p][i + 1].leaf.stem

AnswerStands ==
    \A c \in Client : at[c] = "answered" =>
        /\ state[path[c]] = WholeFile(path[c], block[c])
        /\ path[c] \in Indexed => IndexLeads(path[c])
=============================================================================
