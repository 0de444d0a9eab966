------------------------- MODULE ExportFilesProofs -------------------------
(***************************************************************************)
(* Theorems of ExportFiles for every value of its constants: any contents,  *)
(* any number of callers and exports, and failures and deaths anywhere, as  *)
(* long as no two exports write the same file at a time.                    *)
(***************************************************************************)
EXTENDS ExportFiles, Integers, SequenceTheorems, TLAPS

----------------------------------------------------------------------------
(* What a buffer does to a file.                                             *)

\* Cell i of a file and of the buffer that is still to be written behind it.
Joined(f, b, i) == IF i <= Len(f) THEN f[i] ELSE b[i - Len(f)]

LEMMA WriteAtEnd ==
    ASSUME NEW S, NEW f \in Seq(S), NEW cells \in Seq(S)
    PROVE  /\ WriteAt(f, Len(f), cells) \in Seq(S)
           /\ Len(WriteAt(f, Len(f), cells)) = Len(f) + Len(cells)
           /\ \A i \in 1 .. Len(f) + Len(cells) :
                WriteAt(f, Len(f), cells)[i] = Joined(f, cells, i)
<1> DEFINE m == Len(f)
           n == Len(cells)
           g == [i \in 1 .. m + n |-> Joined(f, cells, i)]
<1>1. m \in Nat /\ n \in Nat
  BY LenProperties
<1>2. \A i \in 1 .. m + n : Joined(f, cells, i) \in S
  <2>1. ASSUME NEW i \in 1 .. m + n PROVE Joined(f, cells, i) \in S
    <3>1. CASE i <= m
      BY <1>1, <3>1, ElementOfSeq DEF Joined
    <3>2. CASE ~(i <= m)
      <4>1. i - m \in 1 .. n
        BY <1>1, <3>2
      <4> QED
        BY <3>2, <4>1, ElementOfSeq DEF Joined
    <3> QED
      BY <3>1, <3>2
  <2> QED
    BY <2>1
<1>3. WriteAt(f, m, cells) = g
  <2>1. (IF m > m + n THEN m ELSE m + n) = m + n
    BY <1>1
  <2>2. ASSUME NEW i \in 1 .. m + n
        PROVE  (CASE i \in m + 1 .. m + n -> cells[i - m]
                  [] i <= m /\ i > m      -> Hole
                  [] OTHER                -> f[i])
                 = Joined(f, cells, i)
    <3>1. CASE i <= m
      BY <1>1, <3>1 DEF Joined
    <3>2. CASE ~(i <= m)
      <4>1. i \in m + 1 .. m + n
        BY <1>1, <3>2
      <4> QED
        BY <1>1, <3>2, <4>1 DEF Joined
    <3> QED
      BY <3>1, <3>2
  <2> QED
    BY <2>1, <2>2 DEF WriteAt
<1>4. /\ g \in Seq(S)
      /\ Len(g) = m + n
      /\ \A i \in 1 .. m + n : g[i] = Joined(f, cells, i)
  BY <1>1, <1>2
<1> QED
  BY <1>3, <1>4

LEMMA WriteAtStart ==
    ASSUME NEW S, NEW f \in Seq(S), f # <<>>, NEW e \in S
    PROVE  WriteAt(f, 0, <<e>>) = [f EXCEPT ![1] = e]
<1>1. Len(f) \in Nat \ {0} /\ DOMAIN f = 1 .. Len(f) /\ f \in [1 .. Len(f) -> S]
  BY EmptySeq, LenProperties
<1>2. Len(<<e>>) = 1 /\ <<e>>[1] = e
  OBVIOUS
<1>3. (IF Len(f) > 0 + Len(<<e>>) THEN Len(f) ELSE 0 + Len(<<e>>)) = Len(f)
  BY <1>1, <1>2
<1>4. ASSUME NEW i \in 1 .. Len(f)
      PROVE  (CASE i \in 0 + 1 .. 0 + Len(<<e>>) -> <<e>>[i - 0]
                [] i <= 0 /\ i > Len(f)          -> Hole
                [] OTHER                         -> f[i])
               = IF i = 1 THEN e ELSE f[i]
  <2>1. CASE i = 1
    BY <1>1, <1>2, <2>1
  <2>2. CASE i # 1
    <3>1. ~(i \in 0 + 1 .. 0 + Len(<<e>>)) /\ ~(i <= 0 /\ i > Len(f))
      BY <1>1, <1>2, <2>2
    <3> QED
      BY <2>2, <3>1
  <2> QED
    BY <2>1, <2>2
<1> DEFINE g == [i \in 1 .. Len(f) |-> IF i = 1 THEN e ELSE f[i]]
<1>5. WriteAt(f, 0, <<e>>) = g
  BY <1>3, <1>4 DEF WriteAt
<1>6. g = [f EXCEPT ![1] = e]
  BY <1>1
<1> QED
  BY <1>5, <1>6

\* Giving the first n cells of a buffer b to a file f moves nothing: g is the file
\* afterwards, and r what the buffer still holds.
Spills(S, f, b, n, g, r) ==
    /\ g \in Seq(S) /\ r \in Seq(S)
    /\ Len(g) = Len(f) + n /\ Len(r) = Len(b) - n
    /\ \A i \in 1 .. Len(f) + Len(b) : Joined(g, r, i) = Joined(f, b, i)

LEMMA SpillMovesNothing ==
    ASSUME NEW S, NEW f \in Seq(S), NEW b \in Seq(S), NEW n \in 0 .. Len(b)
    PROVE  Spills(S, f, b, n, WriteAt(f, Len(f), SubSeq(b, 1, n)), SubSeq(b, n + 1, Len(b)))
<1> DEFINE g == WriteAt(f, Len(f), SubSeq(b, 1, n))
           r == SubSeq(b, n + 1, Len(b))
<1> DEFINE h == SubSeq(b, 1, n)
<1>1. Len(f) \in Nat /\ Len(b) \in Nat /\ n \in Nat /\ n <= Len(b)
  BY LenProperties
<1>2. h \in Seq(S) /\ Len(h) = n /\ \A i \in 1 .. n : h[i] = b[i]
  BY <1>1, SubSeqProperties
<1>3. /\ r \in Seq(S) /\ Len(r) = Len(b) - n
      /\ \A i \in 1 .. Len(b) - n : r[i] = b[n + i]
  <2>1. CASE n + 1 <= Len(b)
    BY <1>1, <2>1, SubSeqProperties
  <2>2. CASE n = Len(b)
    BY <1>1, <2>2, SubSeqProperties, EmptySeq
  <2> QED
    BY <1>1, <2>1, <2>2
<1> HIDE DEF h, r
<1>4. /\ g \in Seq(S) /\ Len(g) = Len(f) + n
      /\ \A i \in 1 .. Len(f) + n : g[i] = Joined(f, h, i)
  <2>1. g = WriteAt(f, Len(f), h)
    BY DEF h
  <2> HIDE DEF g
  <2> QED
    BY <1>2, <2>1, WriteAtEnd
<1> HIDE DEF g
<1>5. ASSUME NEW i \in 1 .. Len(f) + Len(b) PROVE Joined(g, r, i) = Joined(f, b, i)
  <2>1. CASE i <= Len(f)
    <3>1. i \in 1 .. Len(f) + n
      BY <1>1, <2>1
    <3> QED
      BY <1>1, <1>4, <2>1, <3>1 DEF Joined
  <2>2. CASE Len(f) < i /\ i <= Len(f) + n
    <3>1. i \in 1 .. Len(f) + n /\ i - Len(f) \in 1 .. n /\ ~(i <= Len(f))
      BY <1>1, <2>2
    <3> QED
      BY <1>1, <1>2, <1>4, <2>2, <3>1 DEF Joined
  <2>3. CASE Len(f) + n < i
    <3>1. i - (Len(f) + n) \in 1 .. Len(b) - n
      BY <1>1, <2>3
    <3>2. n + (i - (Len(f) + n)) = i - Len(f) /\ ~(i <= Len(f)) /\ ~(i <= Len(f) + n)
      BY <1>1, <2>3
    <3> QED
      BY <1>3, <1>4, <3>1, <3>2 DEF Joined
  <2> QED
    BY <1>1, <2>1, <2>2, <2>3
<1> QED
  BY <1>3, <1>4, <1>5 DEF Spills, g, r

----------------------------------------------------------------------------
(* The invariant.                                                            *)

StateCell == Header \cup Entry
IndexCell == Count \cup Row

\* The cells of a state file below a header, up to entry n of an export.
HasEntries(f, b, L, n, as) ==
    /\ Len(f) + Len(b) = n + 1
    /\ \A i \in 1 .. n : Joined(f, b, i + 1) = EntryOf(L[i], as)

\* Rows lead to the entries up to n: one for each stem, at its first entry, and the
\* last one for the stem of the last entry.
RowsLead(R, L, n) ==
    /\ \A j \in 1 .. Len(R) :
        /\ R[j].offset + 1 \in 1 .. n
        /\ L[R[j].offset + 1].stem = R[j].stem
        /\ \A i \in 1 .. n : L[i].stem = R[j].stem => R[j].offset < i
    /\ \A i \in 1 .. n : \E j \in 1 .. Len(R) : R[j].stem = L[i].stem
    /\ n > 0 => R # <<>> /\ R[Len(R)].stem = L[n].stem

\* Until the header is rewritten it says that there is nothing.
Writes(c) ==
    LET f == state[path[c]]
    IN  /\ buf[c] \in Seq(StateCell)
        /\ pos[c] = Len(f)
        /\ Len(f) + Len(buf[c]) > 0
        /\ Joined(f, buf[c], 1) = HeaderOf(0, block[c])
        /\ ~missing[c] =>
            /\ offset[c] = next[c] - 1 /\ offset[c] <= Len(Leaves(c))
            /\ HasEntries(f, buf[c], Leaves(c), offset[c], block[c])

Flushed(c) ==
    LET f == state[path[c]]
    IN  /\ f # <<>> /\ f[1] = HeaderOf(0, block[c])
        /\ HasEntries(f, <<>>, Leaves(c), offset[c], block[c])

Headed(c) == state[path[c]] = WholeFile(path[c], block[c])

IndexFrom(f, b, R) ==
    /\ Len(f) + Len(b) = Len(R) + 1
    /\ Joined(f, b, 1) = CountOf(Len(R))
    /\ \A j \in 1 .. Len(R) : Joined(f, b, j + 1) = R[j]

\* An export at work knows what is in its files and what is still in its buffer.
ClientInv(c) ==
    /\ at[c] = "entries" => Writes(c)
    /\ at[c] = "flushed" => Flushed(c)
    /\ at[c] \in {"headed", "index", "answered"} => Headed(c)
    /\ at[c] = "index" => /\ buf[c] \in Seq(IndexCell)
                          /\ pos[c] = Len(index[path[c]])
                          /\ IndexFrom(index[path[c]], buf[c], rows[c])
    /\ at[c] = "answered" /\ path[c] \in Indexed => IndexFrom(index[path[c]], <<>>, rows[c])
    /\ at[c] \in {"idle", "flushed", "headed", "answered"} => buf[c] = <<>>
    /\ at[c] \in {"flushed", "headed", "index", "answered"} =>
        ~missing[c] /\ offset[c] = Len(Leaves(c))
    /\ at[c] # "idle" /\ ~missing[c] => RowsLead(rows[c], Leaves(c), offset[c])

\* Two exports at work have different files.
OwnFiles ==
    \A c, d \in Client : (c # d /\ at[c] # "idle" /\ at[d] # "idle") => path[c] # path[d]

HeaderHolds(p) ==
    (state[p] # <<>> /\ state[p][1].count # 0) => state[p] = WholeFile(p, state[p][1].block)

FilesInv ==
    /\ OwnFiles
    /\ \A c \in Client : ClientInv(c)
    /\ \A p \in Path : HeaderHolds(p)

----------------------------------------------------------------------------
(* Facts about the parts.                                                    *)

LEMMA CellTypes ==
    /\ \A n \in Nat, b \in Block : HeaderOf(n, b) \in Header
    /\ \A l \in Leaf, b \in Block : EntryOf(l, b) \in Entry
    /\ \A s \in Stem, n \in Nat : RowOf(s, n) \in Row
    /\ \A n \in Nat : CountOf(n) \in Count
BY DEF HeaderOf, Header, EntryOf, Entry, RowOf, Row, CountOf, Count

LEMMA ContentType ==
    ASSUME NEW p \in Path, NEW b \in Block
    PROVE  /\ Content[p][b] \in Seq(Leaf)
           /\ Len(Content[p][b]) \in Nat
           /\ Grouped(Content[p][b])
<1>1. Content[p][b] \in Seq(Leaf) /\ Grouped(Content[p][b])
  BY FilesAssumption
<1> QED
  BY <1>1, LenProperties

LEMMA WholeFileCells ==
    ASSUME NEW p \in Path, NEW b \in Block
    PROVE  LET N == Len(Content[p][b])
           IN  /\ WholeFile(p, b) \in Seq(StateCell)
               /\ Len(WholeFile(p, b)) = N + 1
               /\ WholeFile(p, b)[1] = HeaderOf(N, b)
               /\ \A i \in 1 .. N : WholeFile(p, b)[i + 1] = EntryOf(Content[p][b][i], b)
<1> DEFINE N == Len(Content[p][b])
           h == <<HeaderOf(N, b)>>
           e == [i \in 1 .. N |-> EntryOf(Content[p][b][i], b)]
<1>1. N \in Nat /\ \A i \in 1 .. N : Content[p][b][i] \in Leaf
  BY ContentType, ElementOfSeq
<1>2. h \in Seq(StateCell) /\ Len(h) = 1 /\ h[1] = HeaderOf(N, b)
  BY <1>1, CellTypes DEF StateCell
<1>3. e \in Seq(StateCell) /\ Len(e) = N
  <2>1. \A i \in 1 .. N : EntryOf(Content[p][b][i], b) \in StateCell
    BY <1>1, CellTypes DEF StateCell
  <2> QED
    BY <1>1, <2>1
<1>4. \A i \in 1 .. N : e[i] = EntryOf(Content[p][b][i], b)
  OBVIOUS
<1> HIDE DEF h, e
<1>5. /\ h \o e \in Seq(StateCell)
      /\ Len(h \o e) = 1 + N
      /\ \A i \in 1 .. 1 + N : (h \o e)[i] = IF i <= 1 THEN h[i] ELSE e[i - 1]
  <2>1. /\ h \o e \in Seq(StateCell)
        /\ Len(h \o e) = Len(h) + Len(e)
        /\ \A i \in 1 .. Len(h) + Len(e) :
            (h \o e)[i] = IF i <= Len(h) THEN h[i] ELSE e[i - Len(h)]
    <3>1. h \in Seq(StateCell) /\ e \in Seq(StateCell)
      BY <1>2, <1>3
    <3> QED
      BY <3>1, ConcatProperties
  <2>2. Len(h) = 1 /\ Len(e) = N
    BY <1>2, <1>3
  <2> QED
    BY <2>1, <2>2
<1>6. \A i \in 1 .. N : i + 1 \in 1 .. 1 + N /\ ~(i + 1 <= 1) /\ (i + 1) - 1 = i
  BY <1>1
<1>7. 1 \in 1 .. 1 + N
  BY <1>1
<1>8. (h \o e)[1] = HeaderOf(N, b)
  BY <1>2, <1>5, <1>7
<1>9. \A i \in 1 .. N : (h \o e)[i + 1] = EntryOf(Content[p][b][i], b)
  BY <1>4, <1>5, <1>6
<1>10. WholeFile(p, b) = h \o e
  BY DEF WholeFile, h, e, N
<1> QED
  BY <1>1, <1>5, <1>8, <1>9, <1>10

\* A file with a header and all the entries is the whole file.
LEMMA WholeFileIs ==
    ASSUME NEW p \in Path, NEW b \in Block, NEW f \in Seq(StateCell),
           Len(f) = Len(Content[p][b]) + 1,
           f[1] = HeaderOf(Len(Content[p][b]), b),
           \A i \in 1 .. Len(Content[p][b]) : f[i + 1] = EntryOf(Content[p][b][i], b)
    PROVE  f = WholeFile(p, b)
<1> DEFINE N == Len(Content[p][b])
<1>1. N \in Nat
  BY ContentType
<1>2. /\ WholeFile(p, b) \in Seq(StateCell)
      /\ Len(WholeFile(p, b)) = N + 1
      /\ WholeFile(p, b)[1] = HeaderOf(N, b)
      /\ \A i \in 1 .. N : WholeFile(p, b)[i + 1] = EntryOf(Content[p][b][i], b)
  BY WholeFileCells
<1>3. ASSUME NEW i \in 1 .. Len(f) PROVE f[i] = WholeFile(p, b)[i]
  <2>1. CASE i = 1
    BY <1>2, <2>1
  <2>2. CASE i # 1
    <3>1. i - 1 \in 1 .. N /\ (i - 1) + 1 = i
      BY <1>1, <2>2
    <3> QED
      BY <1>2, <3>1
  <2> QED
    BY <2>1, <2>2
<1> QED
  BY <1>2, <1>3, SeqEqual

\* An entry goes behind the others; the row of its stem is there or is added.
LEMMA RowAdded ==
    ASSUME NEW L \in Seq(Leaf), Grouped(L), NEW R \in Seq(Row),
           NEW n \in Nat, n < Len(L), RowsLead(R, L, n)
    PROVE  /\ WithRow(R, L[n + 1].stem, n) \in Seq(Row)
           /\ RowsLead(WithRow(R, L[n + 1].stem, n), L, n + 1)
<1> DEFINE s == L[n + 1].stem
           m == Len(R)
<1>1. m \in Nat /\ Len(L) \in Nat /\ n + 1 \in 1 .. Len(L)
  BY LenProperties
<1>2. s \in Stem
  <2>1. L[n + 1] \in Leaf
    BY <1>1, ElementOfSeq
  <2> QED
    BY <2>1 DEF Leaf
<1>3. \A j \in 1 .. m : R[j].offset \in Nat
  <2>1. \A j \in 1 .. m : R[j] \in Row
    BY ElementOfSeq
  <2> QED
    BY <2>1 DEF Row
<1>4. R # <<>> => m \in 1 .. m
  BY <1>1, EmptySeq
<1>5. \A i \in 1 .. n + 1 : i \in 1 .. n \/ i = n + 1
  OBVIOUS
<1>6. CASE R # <<>> /\ R[m].stem = s
  <2>1. WithRow(R, s, n) = R
    BY <1>6 DEF WithRow
  <2>2. ASSUME NEW j \in 1 .. m
        PROVE  /\ R[j].offset + 1 \in 1 .. n + 1
               /\ L[R[j].offset + 1].stem = R[j].stem
               /\ \A i \in 1 .. n + 1 : L[i].stem = R[j].stem => R[j].offset < i
    <3>1. /\ R[j].offset + 1 \in 1 .. n
          /\ L[R[j].offset + 1].stem = R[j].stem
          /\ \A i \in 1 .. n : L[i].stem = R[j].stem => R[j].offset < i
      BY DEF RowsLead
    <3>2. R[j].offset < n + 1
      BY <1>3, <3>1
    <3> QED
      BY <1>3, <1>5, <3>1, <3>2
  <2>3. \A i \in 1 .. n + 1 : \E j \in 1 .. m : R[j].stem = L[i].stem
    BY <1>4, <1>5, <1>6 DEF RowsLead
  <2> QED
    BY <1>6, <2>1, <2>2, <2>3 DEF RowsLead
<1>7. CASE ~(R # <<>> /\ R[m].stem = s)
  <2> DEFINE Q == Append(R, RowOf(s, n))
  <2>1. WithRow(R, s, n) = Q
    BY <1>7 DEF WithRow
  <2>2. /\ Q \in Seq(Row) /\ Len(Q) = m + 1
        /\ \A j \in 1 .. m : Q[j] = R[j]
        /\ Q[m + 1] = RowOf(s, n)
    BY <1>2, CellTypes, AppendProperties
  <2> HIDE DEF Q
  \* The stem is a new one: entries of one stem are next to each other.
  <2>3. ASSUME NEW i \in 1 .. n PROVE L[i].stem # s
    <3>1. n > 0 /\ n \in 1 .. Len(L) /\ i \in 1 .. Len(L)
      BY <1>1
    <3>2. L[n].stem # s
      BY <1>7, <3>1 DEF RowsLead
    <3>3. i < n => (L[i].stem = s => L[n].stem = s)
      BY <1>1, <3>1 DEF Grouped
    <3> QED
      BY <3>2, <3>3
  <2>4. ASSUME NEW j \in 1 .. m + 1
        PROVE  /\ Q[j].offset + 1 \in 1 .. n + 1
               /\ L[Q[j].offset + 1].stem = Q[j].stem
               /\ \A i \in 1 .. n + 1 : L[i].stem = Q[j].stem => Q[j].offset < i
    <3>1. CASE j = m + 1
      <4>1. Q[j].offset = n /\ Q[j].stem = s
        BY <2>2, <3>1 DEF RowOf
      <4> QED
        BY <1>1, <1>5, <2>3, <4>1
    <3>2. CASE j # m + 1
      <4>1. j \in 1 .. m /\ Q[j] = R[j]
        BY <1>1, <2>2, <3>2
      <4>2. /\ R[j].offset + 1 \in 1 .. n
            /\ L[R[j].offset + 1].stem = R[j].stem
            /\ \A i \in 1 .. n : L[i].stem = R[j].stem => R[j].offset < i
        BY <4>1 DEF RowsLead
      <4>3. R[j].offset < n + 1
        BY <1>3, <4>1, <4>2
      <4> QED
        BY <1>3, <1>5, <4>1, <4>2, <4>3
    <3> QED
      BY <3>1, <3>2
  <2>5. \A i \in 1 .. n + 1 : \E j \in 1 .. m + 1 : Q[j].stem = L[i].stem
    <3>1. \A j \in 1 .. m : j \in 1 .. m + 1
      BY <1>1
    <3>2. m + 1 \in 1 .. m + 1 /\ Q[m + 1].stem = s
      BY <1>1, <2>2 DEF RowOf
    <3>3. ASSUME NEW i \in 1 .. n PROVE \E j \in 1 .. m + 1 : Q[j].stem = L[i].stem
      <4>1. PICK j \in 1 .. m : R[j].stem = L[i].stem
        BY DEF RowsLead
      <4>2. j \in 1 .. m + 1 /\ Q[j].stem = L[i].stem
        BY <2>2, <3>1, <4>1
      <4> QED
        BY <4>2
    <3> QED
      BY <1>5, <3>2, <3>3
  <2>6. Q # <<>> /\ Q[Len(Q)].stem = L[n + 1].stem
    <3>1. Q # <<>>
      BY <1>1, <2>2, EmptySeq
    <3> QED
      BY <2>2, <3>1 DEF RowOf
  <2> QED
    BY <2>1, <2>2, <2>4, <2>5, <2>6 DEF RowsLead
<1> QED
  BY <1>6, <1>7

----------------------------------------------------------------------------
(* Steps.                                                                    *)

LEMMA FilesTypeInit == FilesInit => FilesTypeOK
<1> SUFFICES ASSUME FilesInit PROVE FilesTypeOK
  OBVIOUS
<1>1. \A S : <<>> \in Seq(S)
  BY EmptySeq
<1>2. at \in [Client -> At]
  BY DEF FilesInit, At
<1>3. (CHOOSE p \in Path : TRUE) \in Path /\ (CHOOSE b \in Block : TRUE) \in Block
  BY FilesAssumption
<1>4. path \in [Client -> Path] /\ block \in [Client -> Block]
  BY <1>3 DEF FilesInit
<1> QED
  BY <1>1, <1>2, <1>4 DEF FilesInit, FilesTypeOK

LEMMA FilesInvInit == FilesInit => FilesInv
BY DEF FilesInit, FilesInv, OwnFiles, ClientInv, HeaderHolds

SameClient(d) ==
    /\ at'[d] = at[d] /\ path'[d] = path[d] /\ block'[d] = block[d]
    /\ next'[d] = next[d] /\ offset'[d] = offset[d]
    /\ rows'[d] = rows[d] /\ missing'[d] = missing[d]
    /\ buf'[d] = buf[d] /\ pos'[d] = pos[d]

SameFiles(p) == state'[p] = state[p] /\ index'[p] = index[p]

LEMMA OtherKept ==
    ASSUME NEW d \in Client, ClientInv(d), SameClient(d),
           at[d] # "idle" => SameFiles(path[d])
    PROVE  ClientInv(d)'
<1>1. CASE at[d] = "idle"
  BY <1>1 DEF ClientInv, SameClient
<1>2. CASE at[d] # "idle"
  <2>1. /\ at'[d] = at[d] /\ path'[d] = path[d] /\ block'[d] = block[d]
        /\ next'[d] = next[d] /\ offset'[d] = offset[d]
        /\ rows'[d] = rows[d] /\ missing'[d] = missing[d]
        /\ buf'[d] = buf[d] /\ pos'[d] = pos[d]
        /\ state'[path'[d]] = state[path[d]] /\ index'[path'[d]] = index[path[d]]
    BY <1>2 DEF SameClient, SameFiles
  <2>2. Leaves(d)' = Leaves(d)
    BY <2>1 DEF Leaves
  <2>3. Writes(d)' = Writes(d) /\ Flushed(d)' = Flushed(d) /\ Headed(d)' = Headed(d)
    BY <2>1, <2>2 DEF Writes, Flushed, Headed
  <2> QED
    BY <2>1, <2>2, <2>3 DEF ClientInv
<1> QED
  BY <1>1, <1>2

\* A step of client c, which has path p, if any, to itself.
LEMMA StepKeeps ==
    ASSUME FilesInv, NEW c \in Client, NEW p \in Path,
           \A d \in Client \ {c} : SameClient(d),
           \A q \in Path \ {p} : SameFiles(q),
           \A d \in Client \ {c} : at[d] # "idle" => path[d] \in Path \ {p},
           path'[c] = p,
           ClientInv(c)', HeaderHolds(p)'
    PROVE  FilesInv'
<1>1. ASSUME NEW d \in Client PROVE ClientInv(d)'
  <2>1. CASE d = c
    BY <2>1
  <2>2. CASE d # c
    BY <2>2, OtherKept DEF FilesInv
  <2> QED
    BY <2>1, <2>2
<1>2. ASSUME NEW q \in Path PROVE HeaderHolds(q)'
  <2>1. CASE q = p
    BY <2>1
  <2>2. CASE q # p
    <3>1. state'[q] = state[q]
      BY <2>2 DEF SameFiles
    <3> QED
      BY <3>1 DEF FilesInv, HeaderHolds
  <2> QED
    BY <2>1, <2>2
<1>3. OwnFiles'
  BY DEF OwnFiles, FilesInv, SameClient
<1> QED
  BY <1>1, <1>2, <1>3 DEF FilesInv

\* The files of an export at work are its own.
LEMMA OwnPath ==
    ASSUME FilesTypeOK, FilesInv, NEW c \in Client, at[c] # "idle"
    PROVE  /\ path[c] \in Path
           /\ \A d \in Client \ {c} : at[d] # "idle" => path[d] \in Path \ {path[c]}
BY DEF FilesTypeOK, FilesInv, OwnFiles

\* The first cells of the buffer go into the state file.
LEMMA StateSpilled ==
    ASSUME FilesTypeOK, FilesInv, NEW c \in Client, at[c] = "entries",
           NEW n \in 0 .. Len(buf[c]), Spilled(c, n)
    PROVE  /\ Spills(StateCell, state[path[c]], buf[c], n, state'[path[c]],
                     SubSeq(buf[c], n + 1, Len(buf[c])))
           /\ state' = [state EXCEPT ![path[c]] = state'[path[c]]]
           /\ UNCHANGED index
<1> DEFINE f == state[path[c]]
           g == WriteAt(f, Len(f), SubSeq(buf[c], 1, n))
<1>1. /\ buf[c] \in Seq(StateCell) /\ pos[c] = Len(f)
      /\ f \in Seq(StateCell) /\ path[c] \in Path
  BY DEF FilesInv, ClientInv, Writes, FilesTypeOK, StateCell
<1>2. Spills(StateCell, f, buf[c], n, g, SubSeq(buf[c], n + 1, Len(buf[c])))
  BY <1>1, SpillMovesNothing
<1>3. state' = [state EXCEPT ![path[c]] = g] /\ index' = index
  BY <1>1 DEF Spilled
<1>4. state'[path[c]] = g
  BY <1>1, <1>3 DEF FilesTypeOK
<1> QED
  BY <1>2, <1>3, <1>4

\* And into the index.
LEMMA IndexSpilled ==
    ASSUME FilesTypeOK, FilesInv, NEW c \in Client, at[c] = "index",
           NEW n \in 0 .. Len(buf[c]), Spilled(c, n)
    PROVE  /\ Spills(IndexCell, index[path[c]], buf[c], n, index'[path[c]],
                     SubSeq(buf[c], n + 1, Len(buf[c])))
           /\ index' = [index EXCEPT ![path[c]] = index'[path[c]]]
           /\ UNCHANGED state
<1> DEFINE f == index[path[c]]
           g == WriteAt(f, Len(f), SubSeq(buf[c], 1, n))
<1>1. /\ buf[c] \in Seq(IndexCell) /\ pos[c] = Len(f)
      /\ f \in Seq(IndexCell) /\ path[c] \in Path
  BY DEF FilesInv, ClientInv, FilesTypeOK, IndexCell
<1>2. Spills(IndexCell, f, buf[c], n, g, SubSeq(buf[c], n + 1, Len(buf[c])))
  BY <1>1, SpillMovesNothing
<1>3. index' = [index EXCEPT ![path[c]] = g] /\ state' = state
  BY <1>1 DEF Spilled
<1>4. index'[path[c]] = g
  BY <1>1, <1>3 DEF FilesTypeOK
<1> QED
  BY <1>2, <1>3, <1>4

AnyCell == Header \cup Entry \cup Count \cup Row

LEMMA CellsAreCells ==
    /\ \A s \in Seq(StateCell) : s \in Seq(AnyCell)
    /\ \A s \in Seq(IndexCell) : s \in Seq(AnyCell)
    /\ \A s \in Seq(Row) : s \in Seq(IndexCell)
<1>1. ASSUME NEW A, NEW B, A \subseteq B, NEW s \in Seq(A) PROVE s \in Seq(B)
  <2>1. s \in [1 .. Len(s) -> A] /\ Len(s) \in Nat
    BY LenProperties
  <2>2. s \in [1 .. Len(s) -> B]
    BY <1>1, <2>1
  <2> QED
    BY <2>1, <2>2
<1>2. StateCell \subseteq AnyCell /\ IndexCell \subseteq AnyCell /\ Row \subseteq IndexCell
  BY DEF StateCell, IndexCell, AnyCell
<1> QED
  BY <1>1, <1>2

\* A cell e more in the buffer b of a file f makes it B.
Extends(S, f, b, e, B) ==
    /\ Len(f) + Len(b) \in Nat
    /\ B \in Seq(S)
    /\ Len(f) + Len(B) = Len(f) + Len(b) + 1
    /\ \A i \in 1 .. Len(f) + Len(b) : Joined(f, B, i) = Joined(f, b, i)
    /\ Joined(f, B, Len(f) + Len(b) + 1) = e

LEMMA JoinedAppend ==
    ASSUME NEW S, NEW f \in Seq(S), NEW b \in Seq(S), NEW e \in S
    PROVE  Extends(S, f, b, e, Append(b, e))
<1>1. Len(f) \in Nat /\ Len(b) \in Nat
  BY LenProperties
<1>2. /\ Append(b, e) \in Seq(S) /\ Len(Append(b, e)) = Len(b) + 1
      /\ \A i \in 1 .. Len(b) : Append(b, e)[i] = b[i]
      /\ Append(b, e)[Len(b) + 1] = e
  BY AppendProperties
<1>3. ASSUME NEW i \in 1 .. Len(f) + Len(b) PROVE Joined(f, Append(b, e), i) = Joined(f, b, i)
  <2>1. CASE i <= Len(f)
    BY <2>1 DEF Joined
  <2>2. CASE ~(i <= Len(f))
    <3>1. i - Len(f) \in 1 .. Len(b)
      BY <1>1, <2>2
    <3> QED
      BY <1>2, <2>2, <3>1 DEF Joined
  <2> QED
    BY <2>1, <2>2
<1>4. Joined(f, Append(b, e), Len(f) + Len(b) + 1) = e
  <2>1. ~(Len(f) + Len(b) + 1 <= Len(f)) /\ Len(f) + Len(b) + 1 - Len(f) = Len(b) + 1
    BY <1>1
  <2> QED
    BY <1>2, <2>1 DEF Joined
<1> QED
  BY <1>1, <1>2, <1>3, <1>4 DEF Extends

LEMMA JoinedEmpty ==
    ASSUME NEW S, NEW g \in Seq(S), NEW i \in 1 .. Len(g)
    PROVE  Joined(g, <<>>, i) = g[i]
<1>1. Len(g) \in Nat
  BY LenProperties
<1> QED
  BY <1>1 DEF Joined

\* When all of the buffer has been given away the file has every cell.
LEMMA FlushEmpties ==
    ASSUME NEW S, NEW f \in Seq(S), NEW b \in Seq(S), NEW g, NEW r,
           Spills(S, f, b, Len(b), g, r)
    PROVE  /\ g \in Seq(S) /\ Len(g) = Len(f) + Len(b)
           /\ \A i \in 1 .. Len(f) + Len(b) : Joined(g, <<>>, i) = Joined(f, b, i)
<1>1. Len(f) \in Nat /\ Len(b) \in Nat
  BY LenProperties
<1>2. /\ g \in Seq(S) /\ Len(g) = Len(f) + Len(b)
      /\ \A i \in 1 .. Len(f) + Len(b) : Joined(g, r, i) = Joined(f, b, i)
  BY DEF Spills
<1>3. ASSUME NEW i \in 1 .. Len(f) + Len(b) PROVE Joined(g, <<>>, i) = Joined(f, b, i)
  <2>1. i <= Len(g)
    BY <1>1, <1>2
  <2>2. Joined(g, r, i) = g[i] /\ Joined(g, <<>>, i) = g[i]
    BY <2>1 DEF Joined
  <2> QED
    BY <1>2, <2>2
<1> QED
  BY <1>2, <1>3

\* What the header says before it is rewritten.
LEMMA NothingAnnounced ==
    ASSUME NEW p \in Path, NEW b, state[p] # <<>> => state[p][1] = HeaderOf(0, b)
    PROVE  HeaderHolds(p)
BY DEF HeaderHolds, HeaderOf

LEMMA WithRowType ==
    ASSUME NEW R \in Seq(Row), NEW s \in Stem, NEW n \in Nat
    PROVE  WithRow(R, s, n) \in Seq(Row)
BY CellTypes, AppendProperties DEF WithRow

LEMMA CreateStateFileKeeps ==
    ASSUME FilesTypeOK, FilesInv, Exclusive, NEW c \in Client, NEW p \in Path, NEW b \in Block,
           CreateStateFile(c, p, b)
    PROVE  FilesTypeOK' /\ FilesInv'
<1>1. /\ at'[c] = "entries" /\ path'[c] = p /\ block'[c] = b /\ next'[c] = 1
      /\ offset'[c] = 0 /\ rows'[c] = <<>> /\ missing'[c] = FALSE
      /\ buf'[c] = <<HeaderOf(0, b)>> /\ pos'[c] = 0 /\ state'[p] = <<>>
  BY DEF FilesTypeOK, CreateStateFile
<1>2. \A d \in Client \ {c} : SameClient(d)
  BY DEF FilesTypeOK, CreateStateFile, SameClient
<1>3. \A q \in Path \ {p} : SameFiles(q)
  BY DEF FilesTypeOK, CreateStateFile, SameFiles
<1>4. /\ <<HeaderOf(0, b)>> \in Seq(StateCell)
      /\ Len(<<HeaderOf(0, b)>>) = 1 /\ <<HeaderOf(0, b)>>[1] = HeaderOf(0, b)
  <2>1. HeaderOf(0, b) \in StateCell
    BY CellTypes DEF StateCell
  <2> QED
    BY <2>1
<1>5. <<HeaderOf(0, b)>> \in Seq(Header \cup Entry \cup Count \cup Row)
  BY <1>4, CellsAreCells DEF AnyCell
<1>6. FilesTypeOK'
  <2>1. \A S : <<>> \in Seq(S)
    BY EmptySeq
  <2>2. at' \in [Client -> At]
    BY DEF FilesTypeOK, CreateStateFile, At
  <2>3. state' \in [Path -> Seq(Header \cup Entry)] /\ index' \in [Path -> Seq(Count \cup Row)]
    BY <2>1 DEF FilesTypeOK, CreateStateFile
  <2>4. rows' \in [Client -> Seq(Row)]
    BY <2>1 DEF FilesTypeOK, CreateStateFile
  <2>5. buf' \in [Client -> Seq(Header \cup Entry \cup Count \cup Row)]
    BY <1>5 DEF FilesTypeOK, CreateStateFile
  <2>6. path' \in [Client -> Path] /\ block' \in [Client -> Block]
    BY DEF FilesTypeOK, CreateStateFile
  <2>7. next' \in [Client -> Nat \ {0}] /\ offset' \in [Client -> Nat] /\ pos' \in [Client -> Nat]
    BY DEF FilesTypeOK, CreateStateFile
  <2>8. missing' \in [Client -> BOOLEAN] /\ calls' \in Nat
    BY DEF FilesTypeOK, CreateStateFile
  <2> QED
    BY <2>2, <2>3, <2>4, <2>5, <2>6, <2>7, <2>8 DEF FilesTypeOK
<1>7. ClientInv(c)'
  <2>1. Len(Leaves(c)') \in Nat
    BY <1>1, ContentType DEF Leaves
  <2>2. Len(<<>>) = 0
    BY EmptySeq
  <2>3. Joined(<<>>, <<HeaderOf(0, b)>>, 1) = HeaderOf(0, b)
    BY <1>4, <2>2 DEF Joined
  <2>4. HasEntries(<<>>, <<HeaderOf(0, b)>>, Leaves(c)', 0, b)
    BY <1>4, <2>2 DEF HasEntries
  <2>5. Writes(c)'
    BY <1>1, <1>4, <2>1, <2>2, <2>3, <2>4 DEF Writes
  <2>6. RowsLead(<<>>, Leaves(c)', 0)
    BY <2>2 DEF RowsLead
  <2> QED
    BY <1>1, <2>5, <2>6 DEF ClientInv
<1>8. HeaderHolds(p)'
  BY <1>1 DEF HeaderHolds
<1>9. \A d \in Client \ {c} : at[d] # "idle" => path[d] \in Path \ {p}
  BY DEF FilesTypeOK, CreateStateFile
<1>10. FilesInv'
  BY <1>1, <1>2, <1>3, <1>7, <1>8, <1>9, StepKeeps
<1> QED
  BY <1>6, <1>10

LEMMA WriteEntryKeeps ==
    ASSUME FilesTypeOK, FilesInv, NEW c \in Client, WriteEntry(c)
    PROVE  FilesTypeOK' /\ FilesInv'
<1> DEFINE p == path[c]
           f == state[p]
           L == Leaves(c)
           b == buf[c]
           l == L[next[c]]
           e == EntryOf(l, block[c])
           R == WithRow(rows[c], l.stem, offset[c])
<1>1. /\ p \in Path /\ block[c] \in Block /\ next[c] \in Nat \ {0} /\ offset[c] \in Nat
      /\ rows[c] \in Seq(Row) /\ f \in Seq(StateCell) /\ pos[c] \in Nat
      /\ missing[c] \in BOOLEAN /\ at[c] = "entries" /\ next[c] <= Len(L)
  BY DEF FilesTypeOK, WriteEntry, StateCell
<1>2. Writes(c) /\ (~missing[c] => RowsLead(rows[c], L, offset[c]))
  BY <1>1 DEF FilesInv, ClientInv
<1>3. L \in Seq(Leaf) /\ Len(L) \in Nat /\ Grouped(L)
  BY <1>1, ContentType DEF Leaves
<1>4. l \in Leaf /\ l.stem \in Stem
  <2>1. next[c] \in 1 .. Len(L)
    BY <1>1, <1>3
  <2>2. l \in Leaf
    BY <1>3, <2>1, ElementOfSeq
  <2> QED
    BY <2>2 DEF Leaf
<1>5. /\ at'[c] = "entries" /\ path'[c] = p /\ block'[c] = block[c] /\ next'[c] = next[c] + 1
      /\ offset'[c] = offset[c] + 1 /\ rows'[c] = R /\ missing'[c] = missing[c]
      /\ buf'[c] = Append(b, e) /\ pos'[c] = pos[c] /\ state' = state /\ index' = index
  BY <1>1 DEF FilesTypeOK, WriteEntry
<1>6. \A d \in Client \ {c} : SameClient(d)
  BY DEF FilesTypeOK, WriteEntry, SameClient
<1>7. \A q \in Path : SameFiles(q)
  BY <1>5 DEF SameFiles
<1>8. e \in StateCell /\ R \in Seq(Row)
  BY <1>1, <1>4, CellTypes, WithRowType DEF StateCell
<1>9. b \in Seq(StateCell)
  BY <1>2 DEF Writes
<1> DEFINE B == Append(b, e)
           m == Len(f) + Len(b)
<1>10. Extends(StateCell, f, b, e, B)
  BY <1>1, <1>8, <1>9, JoinedAppend
<1>11. /\ B \in Seq(StateCell) /\ Len(f) + Len(B) = m + 1 /\ m \in Nat
       /\ \A i \in 1 .. m : Joined(f, B, i) = Joined(f, b, i)
       /\ Joined(f, B, m + 1) = e
  BY <1>10 DEF Extends
<1>12. FilesTypeOK'
  <2>1. B \in Seq(Header \cup Entry \cup Count \cup Row)
    BY <1>11, CellsAreCells DEF AnyCell
  <2>2. buf' \in [Client -> Seq(Header \cup Entry \cup Count \cup Row)]
    BY <2>1 DEF FilesTypeOK, WriteEntry
  <2>3. rows' \in [Client -> Seq(Row)]
    BY <1>8 DEF FilesTypeOK, WriteEntry
  <2>4. next' \in [Client -> Nat \ {0}] /\ offset' \in [Client -> Nat]
    <3>1. next[c] + 1 \in Nat \ {0} /\ offset[c] + 1 \in Nat
      BY DEF FilesTypeOK
    <3>2. next' = [next EXCEPT ![c] = next[c] + 1] /\ offset' = [offset EXCEPT ![c] = offset[c] + 1]
      BY DEF WriteEntry
    <3> QED
      BY <3>1, <3>2 DEF FilesTypeOK
  <2>5. UNCHANGED <<state, index, at, path, block, missing, pos, calls>>
    BY DEF WriteEntry
  <2> QED
    BY <2>2, <2>3, <2>4, <2>5 DEF FilesTypeOK
<1> HIDE DEF B, R, m
<1>13. Leaves(c)' = L
  BY <1>5 DEF Leaves
<1>14. Writes(c)'
  <2>1. /\ pos[c] = Len(f) /\ m > 0 /\ Joined(f, b, 1) = HeaderOf(0, block[c])
    BY <1>2 DEF Writes, m
  <2>2. m + 1 > 0 /\ Joined(f, B, 1) = HeaderOf(0, block[c])
    BY <1>11, <2>1
  <2>3. ASSUME ~missing[c]
        PROVE  /\ offset[c] + 1 = (next[c] + 1) - 1 /\ offset[c] + 1 <= Len(L)
               /\ HasEntries(f, B, L, offset[c] + 1, block[c])
    <3>1. /\ offset[c] = next[c] - 1
          /\ HasEntries(f, b, L, offset[c], block[c])
      BY <1>2, <2>3 DEF Writes
    <3>2. /\ m = offset[c] + 1
          /\ \A i \in 1 .. offset[c] : Joined(f, b, i + 1) = EntryOf(L[i], block[c])
      BY <3>1 DEF HasEntries, m
    <3>3. offset[c] + 1 = next[c]
      BY <1>1, <3>1
    <3>4. ASSUME NEW i \in 1 .. offset[c] + 1
          PROVE  Joined(f, B, i + 1) = EntryOf(L[i], block[c])
      <4>1. CASE i = offset[c] + 1
        BY <1>11, <3>2, <3>3, <4>1
      <4>2. CASE i # offset[c] + 1
        <5>1. i \in 1 .. offset[c]
          BY <1>1, <4>2
        <5>2. i + 1 \in 1 .. m
          BY <1>1, <3>2, <5>1
        <5> QED
          BY <1>11, <3>2, <5>1, <5>2
      <4> QED
        BY <4>1, <4>2
    <3> QED
      <4>1. HasEntries(f, B, L, offset[c] + 1, block[c])
        BY <1>11, <3>2, <3>4 DEF HasEntries
      <4> QED
        BY <1>1, <1>3, <3>3, <4>1
  <2> QED
    BY <1>5, <1>11, <1>13, <2>1, <2>2, <2>3 DEF Writes, B
<1>15. ~missing[c] => RowsLead(R, L, offset[c] + 1)
  <2>1. SUFFICES ASSUME ~missing[c] PROVE RowsLead(R, L, offset[c] + 1)
    OBVIOUS
  <2>2. next[c] = offset[c] + 1 /\ offset[c] < Len(L)
    <3>1. offset[c] = next[c] - 1
      BY <1>2, <2>1 DEF Writes
    <3> QED
      BY <1>1, <1>3, <3>1
  <2>3. RowsLead(WithRow(rows[c], L[offset[c] + 1].stem, offset[c]), L, offset[c] + 1)
    BY <1>1, <1>2, <1>3, <2>1, <2>2, RowAdded
  <2> QED
    BY <2>2, <2>3 DEF R
<1>16. ClientInv(c)'
  BY <1>5, <1>13, <1>14, <1>15 DEF ClientInv
<1>17. HeaderHolds(p)'
  BY <1>1, <1>5 DEF FilesInv, HeaderHolds
<1>18. \A d \in Client \ {c} : at[d] # "idle" => path[d] \in Path \ {p}
  BY <1>1, OwnPath
<1>19. FilesInv'
  BY <1>1, <1>5, <1>6, <1>7, <1>16, <1>17, <1>18, StepKeeps
<1> QED
  BY <1>12, <1>19

LEMMA SkipLeafKeeps ==
    ASSUME FilesTypeOK, FilesInv, NEW c \in Client, SkipLeaf(c)
    PROVE  FilesTypeOK' /\ FilesInv'
<1>1. /\ at[c] = "entries" /\ at'[c] = "entries" /\ path'[c] = path[c] /\ block'[c] = block[c]
      /\ missing'[c] = TRUE /\ buf'[c] = buf[c] /\ pos'[c] = pos[c]
      /\ state' = state /\ index' = index
  BY DEF FilesTypeOK, SkipLeaf
<1>2. FilesTypeOK'
  <2>1. next' \in [Client -> Nat \ {0}] /\ missing' \in [Client -> BOOLEAN]
    BY DEF FilesTypeOK, SkipLeaf
  <2> QED
    BY <2>1 DEF FilesTypeOK, SkipLeaf
<1>3. \A d \in Client \ {c} : SameClient(d)
  BY DEF FilesTypeOK, SkipLeaf, SameClient
<1>4. \A q \in Path : SameFiles(q)
  BY <1>1 DEF SameFiles
<1>5. Writes(c)
  BY <1>1 DEF FilesInv, ClientInv
<1>6. Writes(c)'
  BY <1>1, <1>5 DEF Writes
<1>7. ClientInv(c)'
  BY <1>1, <1>6 DEF ClientInv
<1>8. /\ path[c] \in Path
      /\ \A d \in Client \ {c} : at[d] # "idle" => path[d] \in Path \ {path[c]}
  BY <1>1, OwnPath
<1>9. HeaderHolds(path[c])'
  BY <1>1, <1>8 DEF FilesInv, HeaderHolds
<1>10. FilesInv'
  BY <1>1, <1>3, <1>4, <1>7, <1>8, <1>9, StepKeeps
<1> QED
  BY <1>2, <1>10

\* Whatever reaches a file whose header says nothing yet.
LEMMA SpillAnnouncesNothing ==
    ASSUME FilesTypeOK, FilesInv, NEW c \in Client, at[c] = "entries",
           NEW n \in 0 .. Len(buf[c]), Spilled(c, n)
    PROVE  /\ state'[path[c]] # <<>> => state'[path[c]][1] = HeaderOf(0, block[c])
           /\ Joined(state'[path[c]], SubSeq(buf[c], n + 1, Len(buf[c])), 1) = HeaderOf(0, block[c])
<1> DEFINE f == state[path[c]]
           b == buf[c]
           g == state'[path[c]]
           r == SubSeq(buf[c], n + 1, Len(buf[c]))
<1>1. Spills(StateCell, f, b, n, g, r)
  BY StateSpilled
<1>2. /\ Len(f) + Len(b) > 0 /\ Joined(f, b, 1) = HeaderOf(0, block[c])
      /\ f \in Seq(StateCell) /\ b \in Seq(StateCell)
  BY DEF FilesInv, ClientInv, Writes, FilesTypeOK, StateCell
<1> HIDE DEF r, f, b
<1>3. 1 \in 1 .. Len(f) + Len(b)
  <2>1. Len(f) \in Nat /\ Len(b) \in Nat
    BY <1>2, LenProperties
  <2> QED
    BY <1>2, <2>1
<1>4. Joined(g, r, 1) = HeaderOf(0, block[c])
  BY <1>1, <1>2, <1>3 DEF Spills
<1>5. g # <<>> => g[1] = HeaderOf(0, block[c])
  <2>1. SUFFICES ASSUME g # <<>> PROVE g[1] = HeaderOf(0, block[c])
    OBVIOUS
  <2>2. g \in Seq(StateCell)
    BY <1>1 DEF Spills
  <2>3. 1 <= Len(g)
    BY <2>1, <2>2, EmptySeq, LenProperties
  <2> QED
    BY <1>4, <2>3 DEF Joined
<1> QED
  BY <1>4, <1>5 DEF r

\* Where a part of the buffer goes, files stay files, and other files as they are.
LEMMA SpilledTypes ==
    ASSUME FilesTypeOK, FilesInv, NEW c \in Client, NEW n \in 0 .. Len(buf[c]), Spilled(c, n)
    PROVE  /\ state' \in [Path -> Seq(Header \cup Entry)]
           /\ index' \in [Path -> Seq(Count \cup Row)]
           /\ \A q \in Path \ {path[c]} : SameFiles(q)
<1>1. CASE at[c] = "entries"
  <2>1. state'[path[c]] \in Seq(Header \cup Entry)
    BY <1>1, StateSpilled DEF Spills, StateCell
  <2>2. state' = [state EXCEPT ![path[c]] = state'[path[c]]] /\ index' = index
    BY <1>1, StateSpilled
  <2>3. \A q \in Path \ {path[c]} : SameFiles(q)
    BY <2>2 DEF SameFiles, FilesTypeOK
  <2> QED
    BY <2>1, <2>2, <2>3 DEF FilesTypeOK
<1>2. CASE at[c] = "index"
  <2>1. index'[path[c]] \in Seq(Count \cup Row)
    BY <1>2, IndexSpilled DEF Spills, IndexCell
  <2>2. index' = [index EXCEPT ![path[c]] = index'[path[c]]] /\ state' = state
    BY <1>2, IndexSpilled
  <2>3. \A q \in Path \ {path[c]} : SameFiles(q)
    BY <2>2 DEF SameFiles, FilesTypeOK
  <2> QED
    BY <2>1, <2>2, <2>3 DEF FilesTypeOK
<1>3. CASE at[c] \notin {"entries", "index"}
  <2>1. state' = state /\ index' = index
    BY <1>3 DEF Spilled
  <2> QED
    BY <2>1 DEF SameFiles, FilesTypeOK
<1> QED
  BY <1>1, <1>2, <1>3

LEMMA SpillKeeps ==
    ASSUME FilesTypeOK, FilesInv, NEW c \in Client, Spill(c)
    PROVE  FilesTypeOK' /\ FilesInv'
<1> DEFINE p == path[c]
           b == buf[c]
<1>1. PICK n \in 1 .. Len(b) :
        /\ Spilled(c, n)
        /\ buf' = [buf EXCEPT ![c] = SubSeq(@, n + 1, Len(@))]
        /\ pos' = [pos EXCEPT ![c] = @ + n]
  BY DEF Spill
<1>2. n \in 0 .. Len(b)
  BY <1>1
<1> DEFINE r == SubSeq(b, n + 1, Len(b))
<1>3. /\ at' = at /\ path' = path /\ block' = block /\ next' = next /\ offset' = offset
      /\ rows' = rows /\ missing' = missing /\ calls' = calls
      /\ buf'[c] = r /\ pos'[c] = pos[c] + n
      /\ p \in Path /\ at[c] \in {"entries", "index"} /\ at[c] # "idle"
  BY <1>1 DEF FilesTypeOK, Spill, work
<1>4. /\ state' \in [Path -> Seq(Header \cup Entry)]
      /\ index' \in [Path -> Seq(Count \cup Row)]
      /\ \A q \in Path \ {p} : SameFiles(q)
  BY <1>1, <1>2, SpilledTypes
<1>5. \A d \in Client \ {c} : SameClient(d)
  BY <1>1, <1>3 DEF FilesTypeOK, SameClient
<1>6. Leaves(c)' = Leaves(c)
  BY <1>3 DEF Leaves
<1>7. n \in Nat /\ pos[c] \in Nat
  BY <1>1 DEF FilesTypeOK
<1>8. \A d \in Client \ {c} : at[d] # "idle" => path[d] \in Path \ {p}
  BY <1>3, OwnPath
<1>9. r \in Seq(AnyCell) /\ ClientInv(c)' /\ HeaderHolds(p)'
  <2>1. CASE at[c] = "entries"
    <3> DEFINE f == state[p]
               g == state'[p]
    <3>1. Spills(StateCell, f, b, n, g, r)
      BY <1>1, <1>2, <2>1, StateSpilled
    <3>2. /\ g # <<>> => g[1] = HeaderOf(0, block[c])
          /\ Joined(g, r, 1) = HeaderOf(0, block[c])
      BY <1>1, <1>2, <2>1, SpillAnnouncesNothing
    <3>12. HeaderHolds(p)'
      BY <1>3, <3>2 DEF HeaderHolds, HeaderOf
    <3>3. Writes(c) /\ (~missing[c] => RowsLead(rows[c], Leaves(c), offset[c]))
      BY <2>1 DEF FilesInv, ClientInv
    <3>4. f \in Seq(StateCell) /\ b \in Seq(StateCell) /\ pos[c] = Len(f)
      BY <1>3, <3>3 DEF Writes, FilesTypeOK, StateCell
    <3> HIDE DEF f, g, r, b
    <3>5. /\ g \in Seq(StateCell) /\ r \in Seq(StateCell)
          /\ Len(g) = Len(f) + n /\ Len(r) = Len(b) - n
          /\ \A i \in 1 .. Len(f) + Len(b) : Joined(g, r, i) = Joined(f, b, i)
      BY <3>1 DEF Spills
    <3>6. Len(f) \in Nat /\ Len(b) \in Nat
      BY <3>4, LenProperties
    <3>7. Len(g) + Len(r) = Len(f) + Len(b)
      BY <1>7, <3>5, <3>6
    <3>8. ASSUME ~missing[c] PROVE HasEntries(g, r, Leaves(c), offset[c], block[c])
      <4>1. /\ Len(f) + Len(b) = offset[c] + 1
            /\ \A i \in 1 .. offset[c] : Joined(f, b, i + 1) = EntryOf(Leaves(c)[i], block[c])
        BY <3>3, <3>8 DEF Writes, HasEntries, f, b
      <4>2. offset[c] \in Nat
        BY DEF FilesTypeOK
      <4>3. \A i \in 1 .. offset[c] : i + 1 \in 1 .. Len(f) + Len(b)
        BY <4>1, <4>2
      <4> QED
        BY <3>5, <3>7, <4>1, <4>3 DEF HasEntries
    <3>9. Writes(c)'
      <4>1. Len(g) + Len(r) > 0
        BY <3>3, <3>7 DEF Writes, f, b
      <4>2. pos'[c] = Len(g)
        BY <1>3, <3>4, <3>5
      <4>3. ~missing[c] => offset[c] = next[c] - 1 /\ offset[c] <= Len(Leaves(c))
        BY <3>3 DEF Writes
      <4>4. buf'[c] = r /\ state'[path'[c]] = g
        BY <1>3 DEF r, g, b
      <4> QED
        BY <1>3, <1>6, <3>2, <3>5, <3>8, <4>1, <4>2, <4>3, <4>4 DEF Writes
    <3>10. ClientInv(c)'
      BY <1>3, <1>6, <2>1, <3>3, <3>9 DEF ClientInv
    <3>11. r \in Seq(AnyCell)
      BY <3>5, CellsAreCells
    <3> QED
      BY <3>10, <3>11, <3>12
  <2>2. CASE at[c] = "index"
    <3> DEFINE f == index[p]
               g == index'[p]
    <3>1. Spills(IndexCell, f, b, n, g, r) /\ state' = state
      BY <1>1, <1>2, <2>2, IndexSpilled
    <3>2. /\ b \in Seq(IndexCell) /\ pos[c] = Len(f) /\ IndexFrom(f, b, rows[c])
          /\ Headed(c) /\ ~missing[c] /\ offset[c] = Len(Leaves(c))
          /\ RowsLead(rows[c], Leaves(c), offset[c])
      BY <2>2 DEF FilesInv, ClientInv
    <3>3. f \in Seq(IndexCell) /\ rows[c] \in Seq(Row)
      BY <1>3 DEF FilesTypeOK, IndexCell
    <3> HIDE DEF f, g, r, b
    <3>4. /\ g \in Seq(IndexCell) /\ r \in Seq(IndexCell)
          /\ Len(g) = Len(f) + n /\ Len(r) = Len(b) - n
          /\ \A i \in 1 .. Len(f) + Len(b) : Joined(g, r, i) = Joined(f, b, i)
      BY <3>1 DEF Spills
    <3>5. Len(f) \in Nat /\ Len(b) \in Nat /\ Len(rows[c]) \in Nat
      BY <3>2, <3>3, LenProperties
    <3>6. Len(g) + Len(r) = Len(f) + Len(b)
      BY <1>7, <3>4, <3>5
    <3>7. IndexFrom(g, r, rows[c])
      <4>1. /\ Len(f) + Len(b) = Len(rows[c]) + 1
            /\ Joined(f, b, 1) = CountOf(Len(rows[c]))
            /\ \A j \in 1 .. Len(rows[c]) : Joined(f, b, j + 1) = rows[c][j]
        BY <3>2 DEF IndexFrom
      <4>2. /\ 1 \in 1 .. Len(f) + Len(b)
            /\ \A j \in 1 .. Len(rows[c]) : j + 1 \in 1 .. Len(f) + Len(b)
        BY <3>5, <4>1
      <4> QED
        BY <3>4, <3>6, <4>1, <4>2 DEF IndexFrom
    <3>8. Headed(c)' /\ HeaderHolds(p)'
      BY <1>3, <3>1, <3>2 DEF Headed, FilesInv, HeaderHolds
    <3>9. pos'[c] = Len(g) /\ buf'[c] = r /\ index'[path'[c]] = g
      BY <1>3, <3>2, <3>4 DEF r, g, b
    <3>10. ClientInv(c)'
      BY <1>3, <1>6, <2>2, <3>2, <3>4, <3>7, <3>8, <3>9 DEF ClientInv
    <3>11. r \in Seq(AnyCell)
      BY <3>4, CellsAreCells
    <3> QED
      BY <3>8, <3>10, <3>11
  <2> QED
    BY <1>3, <2>1, <2>2
<1>10. FilesTypeOK'
  <2>1. buf' \in [Client -> Seq(Header \cup Entry \cup Count \cup Row)]
    BY <1>1, <1>9 DEF FilesTypeOK, AnyCell
  <2>2. pos' \in [Client -> Nat]
    BY <1>1, <1>7 DEF FilesTypeOK
  <2> QED
    BY <1>3, <1>4, <2>1, <2>2 DEF FilesTypeOK
<1>11. FilesInv'
  BY <1>3, <1>4, <1>5, <1>8, <1>9, StepKeeps
<1> QED
  BY <1>10, <1>11

LEMMA FinishEntriesKeeps ==
    ASSUME FilesTypeOK, FilesInv, NEW c \in Client, FinishEntries(c)
    PROVE  FilesTypeOK' /\ FilesInv'
<1> DEFINE p == path[c]
           b == buf[c]
           f == state[p]
           g == state'[p]
<1>1. /\ at[c] = "entries" /\ next[c] > Len(Leaves(c)) /\ ~missing[c] /\ Flush(c)
      /\ at' = [at EXCEPT ![c] = "flushed"] /\ path' = path /\ block' = block /\ next' = next
      /\ offset' = offset /\ rows' = rows /\ missing' = missing /\ calls' = calls
  BY DEF FinishEntries, work
<1>2. /\ Writes(c) /\ RowsLead(rows[c], Leaves(c), offset[c])
  BY <1>1 DEF FilesInv, ClientInv
<1>3. /\ p \in Path /\ f \in Seq(StateCell) /\ b \in Seq(StateCell) /\ pos[c] \in Nat
      /\ next[c] \in Nat /\ offset[c] \in Nat /\ block[c] \in Block
  BY <1>2 DEF FilesTypeOK, StateCell, Writes
<1>4. Len(f) \in Nat /\ Len(b) \in Nat /\ Len(Leaves(c)) \in Nat
  BY <1>3, LenProperties, ContentType DEF Leaves
<1>5. /\ Spilled(c, Len(b)) /\ Len(b) \in 0 .. Len(b)
      /\ buf' = [buf EXCEPT ![c] = <<>>] /\ pos' = [pos EXCEPT ![c] = @ + Len(buf[c])]
  BY <1>1, <1>4 DEF Flush
<1>6. /\ state' \in [Path -> Seq(Header \cup Entry)]
      /\ index' \in [Path -> Seq(Count \cup Row)]
      /\ \A q \in Path \ {p} : SameFiles(q)
  BY <1>5, SpilledTypes
<1>7. /\ Spills(StateCell, f, b, Len(b), g, SubSeq(b, Len(b) + 1, Len(b)))
      /\ g # <<>> => g[1] = HeaderOf(0, block[c])
  BY <1>1, <1>5, StateSpilled, SpillAnnouncesNothing
<1>8. /\ g \in Seq(StateCell) /\ Len(g) = Len(f) + Len(b)
      /\ \A i \in 1 .. Len(f) + Len(b) : Joined(g, <<>>, i) = Joined(f, b, i)
  <2>1. \E r : Spills(StateCell, f, b, Len(b), g, r)
    BY <1>7
  <2> HIDE DEF f, g, b
  <2>2. f \in Seq(StateCell) /\ b \in Seq(StateCell)
    BY <1>3
  <2> QED
    BY <2>1, <2>2, FlushEmpties
<1>9. /\ at'[c] = "flushed" /\ buf'[c] = <<>> /\ pos'[c] = pos[c] + Len(b)
  BY <1>1, <1>5 DEF FilesTypeOK
<1>10. /\ Len(f) + Len(b) = offset[c] + 1
       /\ \A i \in 1 .. offset[c] : Joined(f, b, i + 1) = EntryOf(Leaves(c)[i], block[c])
       /\ offset[c] = next[c] - 1 /\ offset[c] <= Len(Leaves(c))
  BY <1>1, <1>2 DEF Writes, HasEntries
<1>11. \A d \in Client \ {c} : SameClient(d)
  BY <1>1, <1>5 DEF FilesTypeOK, SameClient
<1>12. Leaves(c)' = Leaves(c)
  BY <1>1 DEF Leaves
<1>13. FilesTypeOK'
  <2>1. buf' \in [Client -> Seq(Header \cup Entry \cup Count \cup Row)]
    BY <1>5, EmptySeq DEF FilesTypeOK
  <2>2. pos' \in [Client -> Nat]
    BY <1>3, <1>4, <1>5 DEF FilesTypeOK
  <2>3. at' \in [Client -> At]
    BY <1>1 DEF FilesTypeOK, At
  <2> QED
    BY <1>1, <1>6, <2>1, <2>2, <2>3 DEF FilesTypeOK
<1>14. state'[path'[c]] = g
  BY <1>1
<1>15. HeaderHolds(p)'
  BY <1>1, <1>7 DEF HeaderHolds, HeaderOf
<1> HIDE DEF f, g, b
<1>16. offset[c] = Len(Leaves(c))
  BY <1>1, <1>3, <1>4, <1>10
<1>17. HasEntries(g, <<>>, Leaves(c), offset[c], block[c])
  <2>1. Len(g) + Len(<<>>) = offset[c] + 1
    BY <1>3, <1>8, <1>10, EmptySeq
  <2>2. \A i \in 1 .. offset[c] : i + 1 \in 1 .. Len(f) + Len(b)
    BY <1>3, <1>10
  <2> QED
    BY <1>8, <1>10, <2>1, <2>2 DEF HasEntries
<1>18. Flushed(c)'
  <2>1. g # <<>>
    BY <1>3, <1>8, <1>10, EmptySeq
  <2>2. g[1] = HeaderOf(0, block[c])
    BY <1>7, <2>1 DEF g
  <2> QED
    BY <1>1, <1>12, <1>14, <1>17, <2>1, <2>2 DEF Flushed
<1>19. ClientInv(c)'
  BY <1>1, <1>2, <1>9, <1>12, <1>16, <1>18 DEF ClientInv
<1>20. \A d \in Client \ {c} : at[d] # "idle" => path[d] \in Path \ {p}
  BY <1>1, OwnPath
<1>21. FilesInv'
  BY <1>1, <1>3, <1>6, <1>11, <1>15, <1>19, <1>20, StepKeeps
<1> QED
  BY <1>13, <1>21

LEMMA RewriteHeaderKeeps ==
    ASSUME FilesTypeOK, FilesInv, NEW c \in Client, RewriteHeader(c)
    PROVE  FilesTypeOK' /\ FilesInv'
<1> DEFINE p == path[c]
           f == state[p]
           L == Leaves(c)
           h == HeaderOf(offset[c], block[c])
           g == [f EXCEPT ![1] = h]
<1>1. /\ at[c] = "flushed" /\ state' = [state EXCEPT ![p] = WriteAt(@, 0, <<h>>)]
      /\ at' = [at EXCEPT ![c] = IF p \in Indexed THEN "headed" ELSE "answered"]
      /\ index' = index /\ path' = path /\ block' = block /\ next' = next /\ offset' = offset
      /\ rows' = rows /\ missing' = missing /\ buf' = buf /\ pos' = pos /\ calls' = calls
  BY DEF RewriteHeader, work
<1>2. /\ Flushed(c) /\ RowsLead(rows[c], L, offset[c]) /\ buf[c] = <<>>
      /\ ~missing[c] /\ offset[c] = Len(L)
  BY <1>1 DEF FilesInv, ClientInv
<1>3. /\ p \in Path /\ f \in Seq(StateCell) /\ offset[c] \in Nat /\ block[c] \in Block
  BY DEF FilesTypeOK, StateCell
<1>4. h \in StateCell
  BY <1>3, CellTypes DEF StateCell
<1>5. f # <<>> /\ HasEntries(f, <<>>, L, offset[c], block[c])
  BY <1>2 DEF Flushed
<1>6. WriteAt(f, 0, <<h>>) = g
  BY <1>3, <1>4, <1>5, WriteAtStart
<1>7. state' = [state EXCEPT ![p] = g] /\ state'[p] = g
  BY <1>1, <1>3, <1>6 DEF FilesTypeOK
<1>8. Len(f) = offset[c] + 1
  <2>1. Len(f) \in Nat
    BY <1>3, LenProperties
  <2> QED
    BY <1>5, <2>1, EmptySeq DEF HasEntries
<1>9. /\ g \in Seq(StateCell) /\ Len(g) = Len(f) /\ g[1] = h
      /\ \A i \in 1 .. offset[c] : g[i + 1] = f[i + 1]
  <2>1. 1 \in 1 .. Len(f) /\ \A i \in 1 .. offset[c] : i + 1 \in 1 .. Len(f) /\ i + 1 # 1
    BY <1>3, <1>8
  <2>2. Len(f) \in Nat /\ DOMAIN f = 1 .. Len(f) /\ f \in [1 .. Len(f) -> StateCell]
    BY <1>3, LenProperties
  <2>3. g \in [1 .. Len(f) -> StateCell]
    BY <1>4, <2>2
  <2> QED
    BY <2>1, <2>2, <2>3
<1>10. \A i \in 1 .. offset[c] : g[i + 1] = EntryOf(L[i], block[c])
  <2>1. ASSUME NEW i \in 1 .. offset[c] PROVE f[i + 1] = EntryOf(L[i], block[c])
    <3>1. i + 1 <= Len(f)
      BY <1>3, <1>8
    <3> QED
      BY <1>5, <3>1 DEF HasEntries, Joined
  <2> QED
    BY <1>9, <2>1
<1>11. g = WholeFile(p, block[c])
  <2> HIDE DEF g
  <2>1. /\ L = Content[p][block[c]]
        /\ h = HeaderOf(Len(L), block[c])
    BY <1>2 DEF Leaves
  <2>2. /\ Len(g) = Len(L) + 1 /\ g[1] = HeaderOf(Len(L), block[c])
        /\ \A i \in 1 .. Len(L) : g[i + 1] = EntryOf(L[i], block[c])
    BY <1>2, <1>8, <1>9, <1>10, <2>1
  <2> HIDE DEF L
  <2>3. /\ g \in Seq(StateCell) /\ p \in Path /\ block[c] \in Block
    BY <1>3, <1>9
  <2> QED
    BY <2>1, <2>2, <2>3, WholeFileIs
<1> HIDE DEF g
<1>12. FilesTypeOK'
  <2>1. state' \in [Path -> Seq(Header \cup Entry)]
    BY <1>7, <1>9 DEF FilesTypeOK, StateCell
  <2>2. at' \in [Client -> At]
    BY <1>1 DEF FilesTypeOK, At
  <2> QED
    BY <1>1, <2>1, <2>2 DEF FilesTypeOK
<1>13. \A d \in Client \ {c} : SameClient(d)
  BY <1>1 DEF FilesTypeOK, SameClient
<1>14. \A q \in Path \ {p} : SameFiles(q)
  BY <1>1, <1>7 DEF FilesTypeOK, SameFiles
<1>15. Leaves(c)' = L
  BY <1>1 DEF Leaves
<1>16. Headed(c)'
  BY <1>1, <1>7, <1>11 DEF Headed
<1>17. at'[c] = IF p \in Indexed THEN "headed" ELSE "answered"
  BY <1>1 DEF FilesTypeOK
<1>18. ClientInv(c)'
  <2>1. CASE p \in Indexed
    BY <1>1, <1>2, <1>15, <1>16, <1>17, <2>1 DEF ClientInv
  <2>2. CASE p \notin Indexed
    BY <1>1, <1>2, <1>15, <1>16, <1>17, <2>2 DEF ClientInv
  <2> QED
    BY <2>1, <2>2
<1>19. HeaderHolds(p)'
  <2>1. state'[p][1].block = block[c]
    BY <1>7, <1>9 DEF HeaderOf
  <2> QED
    BY <1>1, <1>7, <1>11, <2>1 DEF HeaderHolds
<1>20. \A d \in Client \ {c} : at[d] # "idle" => path[d] \in Path \ {p}
  BY <1>1, OwnPath
<1>21. FilesInv'
  BY <1>1, <1>3, <1>13, <1>14, <1>18, <1>19, <1>20, StepKeeps
<1> QED
  BY <1>12, <1>21

LEMMA CreateIndexKeeps ==
    ASSUME FilesTypeOK, FilesInv, NEW c \in Client, CreateIndex(c)
    PROVE  FilesTypeOK' /\ FilesInv'
<1> DEFINE p == path[c]
           R == rows[c]
           k == <<CountOf(Len(R))>>
           b == k \o R
<1>1. /\ at[c] = "headed" /\ index' = [index EXCEPT ![p] = <<>>]
      /\ at' = [at EXCEPT ![c] = "index"] /\ buf' = [buf EXCEPT ![c] = b]
      /\ pos' = [pos EXCEPT ![c] = 0]
      /\ state' = state /\ path' = path /\ block' = block /\ next' = next /\ offset' = offset
      /\ rows' = rows /\ missing' = missing /\ calls' = calls
  BY DEF CreateIndex, Rewound, work
<1>2. /\ Headed(c) /\ RowsLead(R, Leaves(c), offset[c])
      /\ ~missing[c] /\ offset[c] = Len(Leaves(c))
  BY <1>1 DEF FilesInv, ClientInv
<1>3. p \in Path /\ R \in Seq(Row)
  BY DEF FilesTypeOK
<1> HIDE DEF R
<1>4. Len(R) \in Nat /\ R \in Seq(IndexCell)
  BY <1>3, LenProperties, CellsAreCells
<1>5. k \in Seq(IndexCell) /\ Len(k) = 1 /\ k[1] = CountOf(Len(R))
  <2>1. CountOf(Len(R)) \in IndexCell
    BY <1>4, CellTypes DEF IndexCell
  <2> QED
    BY <2>1
<1> HIDE DEF k
<1>6. /\ b \in Seq(IndexCell) /\ Len(b) = Len(k) + Len(R)
      /\ \A i \in 1 .. Len(k) + Len(R) : b[i] = IF i <= Len(k) THEN k[i] ELSE R[i - Len(k)]
  BY <1>4, <1>5, ConcatProperties
<1> HIDE DEF b
<1>7. IndexFrom(<<>>, b, R)
  <2>1. Len(<<>>) = 0
    BY EmptySeq
  <2>2. 1 \in 1 .. Len(k) + Len(R) /\ 1 <= Len(k)
    BY <1>4, <1>5
  <2>3. b[1] = CountOf(Len(R))
    BY <1>5, <1>6, <2>2
  <2>4. ASSUME NEW j \in 1 .. Len(R) PROVE b[j + 1] = R[j]
    <3>1. j + 1 \in 1 .. Len(k) + Len(R) /\ ~(j + 1 <= Len(k)) /\ j + 1 - Len(k) = j
      BY <1>4, <1>5
    <3> QED
      BY <1>6, <3>1
  <2>5. \A i \in 1 .. Len(R) + 1 : Joined(<<>>, b, i) = b[i]
    BY <2>1 DEF Joined
  <2>6. Joined(<<>>, b, 1) = CountOf(Len(R))
    BY <1>4, <2>3, <2>5
  <2>7. \A j \in 1 .. Len(R) : Joined(<<>>, b, j + 1) = R[j]
    BY <1>4, <2>4, <2>5
  <2>8. Len(<<>>) + Len(b) = Len(R) + 1
    BY <1>4, <1>5, <1>6, <2>1
  <2> QED
    BY <2>6, <2>7, <2>8 DEF IndexFrom
<1>8. /\ at'[c] = "index" /\ buf'[c] = b /\ pos'[c] = 0 /\ index'[path'[c]] = <<>>
      /\ rows'[c] = R
  BY <1>1, <1>3 DEF FilesTypeOK, R
<1>9. FilesTypeOK'
  <2>1. b \in Seq(Header \cup Entry \cup Count \cup Row)
    BY <1>6, CellsAreCells DEF AnyCell
  <2>2. buf' \in [Client -> Seq(Header \cup Entry \cup Count \cup Row)]
    BY <1>1, <2>1 DEF FilesTypeOK
  <2>3. index' \in [Path -> Seq(Count \cup Row)]
    BY <1>1, EmptySeq DEF FilesTypeOK
  <2>4. at' \in [Client -> At] /\ pos' \in [Client -> Nat]
    BY <1>1 DEF FilesTypeOK, At
  <2> QED
    BY <1>1, <2>2, <2>3, <2>4 DEF FilesTypeOK
<1>10. \A d \in Client \ {c} : SameClient(d)
  BY <1>1 DEF FilesTypeOK, SameClient
<1>11. \A q \in Path \ {p} : SameFiles(q)
  BY <1>1 DEF FilesTypeOK, SameFiles
<1>12. Leaves(c)' = Leaves(c) /\ Headed(c)'
  BY <1>1, <1>2 DEF Leaves, Headed
<1>13. ClientInv(c)'
  BY <1>1, <1>2, <1>6, <1>7, <1>8, <1>12, EmptySeq DEF ClientInv, R
<1>14. HeaderHolds(p)'
  BY <1>1, <1>3 DEF FilesInv, HeaderHolds
<1>15. \A d \in Client \ {c} : at[d] # "idle" => path[d] \in Path \ {p}
  BY <1>1, OwnPath
<1>16. FilesInv'
  BY <1>1, <1>3, <1>10, <1>11, <1>13, <1>14, <1>15, StepKeeps
<1> QED
  BY <1>9, <1>16

LEMMA FinishIndexKeeps ==
    ASSUME FilesTypeOK, FilesInv, NEW c \in Client, FinishIndex(c)
    PROVE  FilesTypeOK' /\ FilesInv'
<1> DEFINE p == path[c]
           b == buf[c]
           f == index[p]
           g == index'[p]
           R == rows[c]
<1>1. /\ at[c] = "index" /\ Flush(c)
      /\ at' = [at EXCEPT ![c] = "answered"] /\ path' = path /\ block' = block /\ next' = next
      /\ offset' = offset /\ rows' = rows /\ missing' = missing /\ calls' = calls
  BY DEF FinishIndex, work
<1>2. /\ Headed(c) /\ RowsLead(R, Leaves(c), offset[c])
      /\ ~missing[c] /\ offset[c] = Len(Leaves(c))
      /\ b \in Seq(IndexCell) /\ IndexFrom(f, b, R)
  BY <1>1 DEF FilesInv, ClientInv
<1>3. p \in Path /\ f \in Seq(IndexCell) /\ pos[c] \in Nat /\ R \in Seq(Row)
  BY DEF FilesTypeOK, IndexCell
<1>4. Len(f) \in Nat /\ Len(b) \in Nat /\ Len(R) \in Nat
  BY <1>2, <1>3, LenProperties
<1>5. /\ Spilled(c, Len(b)) /\ Len(b) \in 0 .. Len(b)
      /\ buf' = [buf EXCEPT ![c] = <<>>] /\ pos' = [pos EXCEPT ![c] = @ + Len(buf[c])]
  BY <1>1, <1>4 DEF Flush
<1>6. /\ state' \in [Path -> Seq(Header \cup Entry)]
      /\ index' \in [Path -> Seq(Count \cup Row)]
      /\ \A q \in Path \ {p} : SameFiles(q)
  BY <1>5, SpilledTypes
<1>7. /\ Spills(IndexCell, f, b, Len(b), g, SubSeq(b, Len(b) + 1, Len(b)))
      /\ state' = state
  BY <1>1, <1>5, IndexSpilled
<1>8. /\ g \in Seq(IndexCell) /\ Len(g) = Len(f) + Len(b)
      /\ \A i \in 1 .. Len(f) + Len(b) : Joined(g, <<>>, i) = Joined(f, b, i)
  <2>1. \E r : Spills(IndexCell, f, b, Len(b), g, r)
    BY <1>7
  <2> HIDE DEF f, g, b
  <2>2. f \in Seq(IndexCell) /\ b \in Seq(IndexCell)
    BY <1>2, <1>3
  <2> QED
    BY <2>1, <2>2, FlushEmpties
<1>9. at'[c] = "answered" /\ buf'[c] = <<>> /\ index'[path'[c]] = g /\ rows'[c] = R
  BY <1>1, <1>5 DEF FilesTypeOK
<1>10. \A d \in Client \ {c} : SameClient(d)
  BY <1>1, <1>5 DEF FilesTypeOK, SameClient
<1>11. Leaves(c)' = Leaves(c) /\ Headed(c)'
  BY <1>1, <1>2, <1>7 DEF Leaves, Headed
<1>12. FilesTypeOK'
  <2>1. buf' \in [Client -> Seq(Header \cup Entry \cup Count \cup Row)]
    BY <1>5, EmptySeq DEF FilesTypeOK
  <2>2. pos' \in [Client -> Nat]
    BY <1>3, <1>4, <1>5 DEF FilesTypeOK
  <2>3. at' \in [Client -> At]
    BY <1>1 DEF FilesTypeOK, At
  <2> QED
    BY <1>1, <1>6, <2>1, <2>2, <2>3 DEF FilesTypeOK
<1>13. HeaderHolds(p)'
  BY <1>1, <1>3, <1>7 DEF FilesInv, HeaderHolds
<1>14. \A d \in Client \ {c} : at[d] # "idle" => path[d] \in Path \ {p}
  BY <1>1, OwnPath
<1> HIDE DEF f, g, b, R
<1>15. IndexFrom(g, <<>>, R)
  <2>1. /\ Len(f) + Len(b) = Len(R) + 1
        /\ Joined(f, b, 1) = CountOf(Len(R))
        /\ \A j \in 1 .. Len(R) : Joined(f, b, j + 1) = R[j]
    BY <1>2 DEF IndexFrom
  <2>2. /\ 1 \in 1 .. Len(f) + Len(b)
        /\ \A j \in 1 .. Len(R) : j + 1 \in 1 .. Len(f) + Len(b)
    BY <1>4, <2>1
  <2>3. Len(g) + Len(<<>>) = Len(R) + 1
    BY <1>4, <1>8, <2>1, EmptySeq
  <2> QED
    BY <1>8, <2>1, <2>2, <2>3 DEF IndexFrom
<1>16. ClientInv(c)'
  BY <1>1, <1>2, <1>9, <1>11, <1>15 DEF ClientInv, R
<1>17. FilesInv'
  BY <1>1, <1>3, <1>6, <1>10, <1>13, <1>14, <1>16, StepKeeps
<1> QED
  BY <1>12, <1>17

LEMMA FailKeeps ==
    ASSUME FilesTypeOK, FilesInv, NEW c \in Client, Fail(c)
    PROVE  FilesTypeOK' /\ FilesInv'
<1> DEFINE p == path[c]
<1>1. /\ at[c] # "idle" /\ at' = [at EXCEPT ![c] = "idle"] /\ buf' = [buf EXCEPT ![c] = <<>>]
      /\ path' = path /\ block' = block /\ next' = next /\ offset' = offset
      /\ rows' = rows /\ missing' = missing /\ pos' = pos /\ calls' = calls
  BY DEF Fail, work
<1>2. PICK n \in 0 .. Len(buf[c]) : Spilled(c, n)
  BY DEF Fail
<1>3. p \in Path
  BY DEF FilesTypeOK
<1>4. /\ state' \in [Path -> Seq(Header \cup Entry)]
      /\ index' \in [Path -> Seq(Count \cup Row)]
      /\ \A q \in Path \ {p} : SameFiles(q)
  BY <1>2, SpilledTypes
<1>5. FilesTypeOK'
  <2>1. buf' \in [Client -> Seq(Header \cup Entry \cup Count \cup Row)]
    BY <1>1, EmptySeq DEF FilesTypeOK
  <2>2. at' \in [Client -> At]
    BY <1>1 DEF FilesTypeOK, At
  <2> QED
    BY <1>1, <1>4, <2>1, <2>2 DEF FilesTypeOK
<1>6. \A d \in Client \ {c} : SameClient(d)
  BY <1>1 DEF FilesTypeOK, SameClient
<1>7. ClientInv(c)'
  <2>1. at'[c] = "idle" /\ buf'[c] = <<>>
    BY <1>1 DEF FilesTypeOK
  <2> QED
    BY <2>1 DEF ClientInv
<1>8. HeaderHolds(p)'
  <2>1. CASE at[c] = "entries"
    <3>1. state'[p] # <<>> => state'[p][1] = HeaderOf(0, block[c])
      BY <1>2, <2>1, SpillAnnouncesNothing
    <3> QED
      BY <1>1, <3>1 DEF HeaderHolds, HeaderOf
  <2>2. CASE at[c] # "entries"
    <3>1. state' = state
      BY <1>2, <2>2 DEF Spilled
    <3> QED
      BY <1>1, <1>3, <3>1 DEF FilesInv, HeaderHolds
  <2> QED
    BY <2>1, <2>2
<1>9. \A d \in Client \ {c} : at[d] # "idle" => path[d] \in Path \ {p}
  BY <1>1, OwnPath
<1>10. FilesInv'
  BY <1>1, <1>3, <1>4, <1>6, <1>7, <1>8, <1>9, StepKeeps
<1> QED
  BY <1>5, <1>10

LEMMA DeliverKeeps ==
    ASSUME FilesTypeOK, FilesInv, NEW c \in Client, Deliver(c)
    PROVE  FilesTypeOK' /\ FilesInv'
<1> DEFINE p == path[c]
<1>1. /\ at[c] = "answered" /\ at' = [at EXCEPT ![c] = "idle"] /\ buf' = buf
      /\ path' = path /\ block' = block /\ next' = next /\ offset' = offset
      /\ rows' = rows /\ missing' = missing /\ pos' = pos /\ calls' = calls
      /\ state' = state /\ index' = index
  BY DEF Deliver, work
<1>2. at'[c] = "idle" /\ buf'[c] = <<>> /\ p \in Path
  BY <1>1 DEF FilesTypeOK, FilesInv, ClientInv
<1>3. FilesTypeOK'
  <2>1. at' \in [Client -> At]
    BY <1>1 DEF FilesTypeOK, At
  <2> QED
    BY <1>1, <2>1 DEF FilesTypeOK
<1>4. \A d \in Client \ {c} : SameClient(d)
  BY <1>1 DEF FilesTypeOK, SameClient
<1>5. \A q \in Path \ {p} : SameFiles(q)
  BY <1>1 DEF SameFiles
<1>6. ClientInv(c)'
  BY <1>2 DEF ClientInv
<1>7. HeaderHolds(p)'
  BY <1>1, <1>2 DEF FilesInv, HeaderHolds
<1>8. \A d \in Client \ {c} : at[d] # "idle" => path[d] \in Path \ {p}
  BY <1>1, OwnPath
<1>9. FilesInv'
  BY <1>1, <1>2, <1>4, <1>5, <1>6, <1>7, <1>8, StepKeeps
<1> QED
  BY <1>3, <1>9

LEMMA DieKeeps ==
    ASSUME FilesTypeOK, FilesInv, Die
    PROVE  FilesTypeOK' /\ FilesInv'
<1>1. FilesTypeOK'
  <2>1. at' \in [Client -> At] /\ buf' \in [Client -> Seq(Header \cup Entry \cup Count \cup Row)]
    BY EmptySeq DEF Die, At
  <2> QED
    BY <2>1 DEF FilesTypeOK, Die, work
<1>2. \A c \in Client : ClientInv(c)'
  BY DEF Die, ClientInv
<1>3. \A p \in Path : HeaderHolds(p)'
  BY DEF FilesInv, HeaderHolds, Die
<1>4. OwnFiles'
  BY DEF OwnFiles, Die
<1> QED
  BY <1>1, <1>2, <1>3, <1>4 DEF FilesInv

LEMMA FilesStep ==
    ASSUME FilesTypeOK, FilesInv, Exclusive, [FilesNext]_fileVars
    PROVE  FilesTypeOK' /\ FilesInv'
<1>1. CASE UNCHANGED fileVars
  <2>1. /\ state' = state /\ index' = index /\ at' = at /\ path' = path /\ block' = block
        /\ next' = next /\ offset' = offset /\ rows' = rows /\ missing' = missing
        /\ buf' = buf /\ pos' = pos /\ calls' = calls
    BY <1>1 DEF fileVars, work
  <2>2. FilesTypeOK'
    BY <2>1 DEF FilesTypeOK
  <2>3. \A c \in Client : SameClient(c) /\ \A p \in Path : SameFiles(p)
    BY <2>1 DEF SameClient, SameFiles
  <2>4. ASSUME NEW c \in Client PROVE ClientInv(c)'
    <3>1. path[c] \in Path
      BY DEF FilesTypeOK
    <3> QED
      BY <2>3, <3>1, OtherKept DEF FilesInv
  <2>5. \A p \in Path : HeaderHolds(p)'
    BY <2>1 DEF FilesInv, HeaderHolds
  <2>6. OwnFiles'
    BY <2>1 DEF FilesInv, OwnFiles
  <2> QED
    BY <2>2, <2>4, <2>5, <2>6 DEF FilesInv
<1>2. ASSUME NEW c \in Client, NEW p \in Path, NEW b \in Block, CreateStateFile(c, p, b)
      PROVE  FilesTypeOK' /\ FilesInv'
  BY <1>2, CreateStateFileKeeps
<1>3. ASSUME NEW c \in Client, WriteEntry(c) PROVE FilesTypeOK' /\ FilesInv'
  BY <1>3, WriteEntryKeeps
<1>4. ASSUME NEW c \in Client, SkipLeaf(c) PROVE FilesTypeOK' /\ FilesInv'
  BY <1>4, SkipLeafKeeps
<1>5. ASSUME NEW c \in Client, Spill(c) PROVE FilesTypeOK' /\ FilesInv'
  BY <1>5, SpillKeeps
<1>6. ASSUME NEW c \in Client, FinishEntries(c) PROVE FilesTypeOK' /\ FilesInv'
  BY <1>6, FinishEntriesKeeps
<1>7. ASSUME NEW c \in Client, RewriteHeader(c) PROVE FilesTypeOK' /\ FilesInv'
  BY <1>7, RewriteHeaderKeeps
<1>8. ASSUME NEW c \in Client, CreateIndex(c) PROVE FilesTypeOK' /\ FilesInv'
  BY <1>8, CreateIndexKeeps
<1>9. ASSUME NEW c \in Client, FinishIndex(c) PROVE FilesTypeOK' /\ FilesInv'
  BY <1>9, FinishIndexKeeps
<1>10. ASSUME NEW c \in Client, Fail(c) PROVE FilesTypeOK' /\ FilesInv'
  BY <1>10, FailKeeps
<1>11. ASSUME NEW c \in Client, Deliver(c) PROVE FilesTypeOK' /\ FilesInv'
  BY <1>11, DeliverKeeps
<1>12. CASE Die
  BY <1>12, DieKeeps
<1> QED
  BY <1>1, <1>2, <1>3, <1>4, <1>5, <1>6, <1>7, <1>8, <1>9, <1>10, <1>11, <1>12 DEF FilesNext

----------------------------------------------------------------------------
(* Theorems.                                                                 *)

LEMMA FilesInvariant == ASSUME Exclusive PROVE FilesSpec => [](FilesTypeOK /\ FilesInv)
<1>1. FilesInit => FilesTypeOK /\ FilesInv
  BY FilesTypeInit, FilesInvInit
<1>2. FilesTypeOK /\ FilesInv /\ [FilesNext]_fileVars => FilesTypeOK' /\ FilesInv'
  BY FilesStep
<1> QED
  BY <1>1, <1>2, PTL DEF FilesSpec

\* Whatever exports fail or are cut off, files are sequences of cells without a
\* hole: a writer's position is the end of its file, as no other export moves it.
THEOREM FilesTypeCorrect == ASSUME Exclusive PROVE FilesSpec => []FilesTypeOK
BY FilesInvariant, PTL

\* A header other than that of an export under way (count 0) announces exactly what
\* is in the file.
THEOREM HeadersHold == ASSUME Exclusive PROVE FilesSpec => []HeaderNeverLies
<1>1. FilesInv => HeaderNeverLies
  BY DEF FilesInv, HeaderHolds, HeaderNeverLies
<1> QED
  BY <1>1, FilesInvariant, PTL

\* The rows in the index of an answered export lead to the entries of its state file.
LEMMA RowsAreIndex ==
    ASSUME FilesTypeOK, FilesInv, NEW c \in Client, at[c] = "answered", path[c] \in Indexed
    PROVE  IndexLeads(path[c])
<1> DEFINE p == path[c]
           L == Leaves(c)
           f == state[p]
           X == index[p]
           R == rows[c]
           N == Len(L)
           EntriesOf(s) == {i \in 1 .. Len(f) - 1 : f[i + 1].leaf.stem = s}
<1>1. /\ p \in Path /\ block[c] \in Block /\ R \in Seq(Row) /\ X \in Seq(IndexCell)
  BY DEF FilesTypeOK, IndexCell
<1>2. /\ Headed(c) /\ RowsLead(R, L, offset[c]) /\ offset[c] = N
      /\ IndexFrom(X, <<>>, R)
  BY DEF FilesInv, ClientInv
<1>3. N \in Nat /\ Len(R) \in Nat /\ Len(X) \in Nat
  BY <1>1, ContentType, LenProperties DEF Leaves
<1>4. Len(f) = N + 1 /\ \A i \in 1 .. N : f[i + 1] = EntryOf(L[i], block[c])
  BY <1>1, <1>2, WholeFileCells DEF Headed, Leaves
<1> HIDE DEF X, f, R, L
<1>5. Len(X) = Len(R) + 1
  BY <1>2, <1>3, EmptySeq DEF IndexFrom
<1>6. X # <<>> /\ X[1] = CountOf(Len(R))
  <2>1. 1 <= Len(X)
    BY <1>3, <1>5
  <2> QED
    BY <1>2, <1>5, <2>1, EmptySeq DEF IndexFrom, Joined
<1>7. ASSUME NEW j \in 1 .. Len(R) PROVE X[j + 1] = R[j]
  <2>1. j + 1 <= Len(X)
    BY <1>3, <1>5
  <2> QED
    BY <1>2, <2>1 DEF IndexFrom, Joined
<1>8. \A i \in 1 .. N : f[i + 1].leaf.stem = L[i].stem
  <2>1. \A l, b : EntryOf(l, b).leaf = l
    BY DEF EntryOf
  <2>2. ASSUME NEW i \in 1 .. N PROVE f[i + 1].leaf.stem = L[i].stem
    BY <1>4, <2>1
  <2> QED
    BY <2>2
<1>9. \A s : EntriesOf(s) = {i \in 1 .. N : L[i].stem = s}
  BY <1>3, <1>4, <1>8
<1>10. ASSUME NEW j \in 2 .. Len(R) + 1
       PROVE  /\ X[j].offset + 1 \in EntriesOf(X[j].stem)
              /\ \A i \in EntriesOf(X[j].stem) : X[j].offset < i
  <2>1. j - 1 \in 1 .. Len(R) /\ (j - 1) + 1 = j
    BY <1>3
  <2>2. X[j] = R[j - 1]
    BY <1>7, <2>1
  <2>3. /\ X[j].offset + 1 \in 1 .. N
        /\ L[X[j].offset + 1].stem = X[j].stem
        /\ \A i \in 1 .. N : L[i].stem = X[j].stem => X[j].offset < i
    BY <1>2, <2>1, <2>2 DEF RowsLead
  <2> HIDE DEF EntriesOf
  <2>4. EntriesOf(X[j].stem) = {i \in 1 .. N : L[i].stem = X[j].stem}
    BY <1>9
  <2> QED
    BY <2>3, <2>4
<1>11. ASSUME NEW i \in 1 .. Len(f) - 1
       PROVE  \E j \in 2 .. Len(R) + 1 : X[j].stem = f[i + 1].leaf.stem
  <2>1. i \in 1 .. N
    BY <1>3, <1>4
  <2>2. PICK j \in 1 .. Len(R) : R[j].stem = L[i].stem
    BY <1>2, <2>1 DEF RowsLead
  <2>3. j + 1 \in 2 .. Len(R) + 1
    BY <1>3
  <2>4. X[j + 1].stem = f[i + 1].leaf.stem
    BY <1>7, <1>8, <2>1, <2>2
  <2> QED
    BY <2>3, <2>4
<1>12. Len(X) - 1 = Len(R)
  BY <1>3, <1>5
<1> QED
  BY <1>6, <1>10, <1>11, <1>12 DEF IndexLeads, X, f

\* An answered export has left the whole state file, and an index that leads to
\* the first entry of every stem in it.
THEOREM AnswersStand == ASSUME Exclusive PROVE FilesSpec => []AnswerStands
<1>1. ASSUME FilesTypeOK, FilesInv PROVE AnswerStands
  <2>1. ASSUME NEW c \in Client, at[c] = "answered"
        PROVE  /\ state[path[c]] = WholeFile(path[c], block[c])
               /\ path[c] \in Indexed => IndexLeads(path[c])
    <3>1. state[path[c]] = WholeFile(path[c], block[c])
      BY <1>1, <2>1 DEF FilesInv, ClientInv, Headed
    <3> QED
      BY <1>1, <2>1, <3>1, RowsAreIndex
  <2> QED
    BY <2>1 DEF AnswerStands
<1> QED
  BY <1>1, FilesInvariant, PTL
=============================================================================
