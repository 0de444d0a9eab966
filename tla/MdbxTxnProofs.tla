--------------------------- MODULE MdbxTxnProofs ----------------------------
(***************************************************************************)
(* Theorems of MdbxTxn for every value of its constants: any number of     *)
(* clients and calls, any records, and failures and deaths anywhere.       *)
(***************************************************************************)
EXTENDS MdbxTxn, TLAPS

----------------------------------------------------------------------------
(* Keys and records.                                                         *)

LEMMA KeyKinds ==
    /\ \A s \in Stem : /\ StemKey(s) \in Key /\ StemKey(s) \in StemKeys
                       /\ AddrKey(s) \in Key /\ AddrKey(s) \in AddrKeys
    /\ \A b \in Block : DeltaKey(b) \in Key /\ DeltaKey(b) \in DeltaKeys
    /\ HeadKey \in Key
    /\ \A k \in StemKeys : k \notin AddrKeys /\ k \notin DeltaKeys /\ k # HeadKey
    /\ \A k \in AddrKeys : k \notin StemKeys /\ k \notin DeltaKeys /\ k # HeadKey
    /\ \A k \in DeltaKeys : k \notin StemKeys /\ k \notin AddrKeys /\ k # HeadKey
    /\ HeadKey \notin StemKeys /\ HeadKey \notin AddrKeys /\ HeadKey \notin DeltaKeys
<1>1. \A s, t, b :
        /\ StemKey(s) # AddrKey(t) /\ StemKey(s) # DeltaKey(b) /\ AddrKey(s) # DeltaKey(b)
        /\ StemKey(s) # HeadKey /\ AddrKey(s) # HeadKey
  BY DEF StemKey, AddrKey, DeltaKey, HeadKey
<1>2. \A b \in Block : DeltaKey(b) # HeadKey
  BY DEF DeltaKey, HeadKey
<1>3. \A s \in Stem : StemKey(s) \in StemKeys /\ AddrKey(s) \in AddrKeys
  BY DEF StemKeys, AddrKeys
<1>4. \A b \in Block : DeltaKey(b) \in DeltaKeys
  BY DEF DeltaKeys
<1>5. StemKeys \subseteq Key /\ AddrKeys \subseteq Key /\ DeltaKeys \subseteq Key /\ HeadKey \in Key
  BY DEF Key
<1>6. \A k \in StemKeys : k \notin AddrKeys /\ k \notin DeltaKeys /\ k # HeadKey
  BY <1>1 DEF StemKeys, AddrKeys, DeltaKeys
<1>7. \A k \in AddrKeys : k \notin DeltaKeys /\ k # HeadKey
  BY <1>1 DEF AddrKeys, DeltaKeys
<1>8. \A k \in DeltaKeys : k # HeadKey
  BY <1>2 DEF DeltaKeys
<1> QED
  BY <1>3, <1>4, <1>5, <1>6, <1>7, <1>8

LEMMA KeyParts ==
    /\ \A s : StemKey(s)[2] = s /\ AddrKey(s)[2] = s
    /\ \A s, t : (StemKey(s) = StemKey(t) => s = t) /\ (AddrKey(s) = AddrKey(t) => s = t)
    /\ \A a, b : DeltaKey(a) = DeltaKey(b) => a = b
BY DEF StemKey, AddrKey, DeltaKey

LEMMA AbsentIs ==
    /\ \A s \in Stem : Absent(StemKey(s)) = NoNode /\ Absent(AddrKey(s)) = NoAddress
    /\ \A b \in Block : Absent(DeltaKey(b)) = EmptyPatch
    /\ Absent(HeadKey) = NoHead
BY KeyKinds DEF Absent

LEMMA CellIs ==
    /\ \A s \in Stem : /\ Cell(StemKey(s)) = Node \cup {NoNode}
                       /\ Cell(AddrKey(s)) = Address \cup {NoAddress}
    /\ \A b \in Block : Cell(DeltaKey(b)) = Patch
    /\ Cell(HeadKey) = HeadRecord \cup {NoHead}
BY KeyKinds DEF Cell

\* The record that a call puts under each key.
LEMMA NewRecordIs ==
    ASSUME NEW r
    PROVE  /\ \A s \in Stem : /\ NewRecord(r, StemKey(s)) = r.table[s]
                              /\ NewRecord(r, AddrKey(s)) = r.addrs[s]
           /\ \A b \in Block : NewRecord(r, DeltaKey(b)) =
                                   IF r.op = "saveDeltas" THEN r.patch ELSE EmptyPatch
           /\ NewRecord(r, HeadKey) = r.head
BY KeyKinds, KeyParts DEF NewRecord

LEMMA EmptyPatchIsPatch == EmptyPatch \in Patch
BY DEF EmptyPatch, Patch

LEMMA RecordsFit ==
    ASSUME NEW r \in Request, NEW k \in Key
    PROVE  NewRecord(r, k) \in Cell(k) /\ Absent(k) \in Cell(k)
<1>1. /\ r.table \in Table /\ r.addrs \in AddressTable /\ r.head \in HeadRecord \cup {NoHead}
      /\ r.patch \in Patch
  BY DEF Request
<1>2. CASE k \in StemKeys
  <2>1. PICK s \in Stem : k = StemKey(s)
    BY <1>2 DEF StemKeys
  <2>2. r.table[s] \in Node \cup {NoNode}
    BY <1>1 DEF Table
  <2> QED
    BY <2>1, <2>2, AbsentIs, CellIs, NewRecordIs
<1>3. CASE k \in AddrKeys
  <2>1. PICK s \in Stem : k = AddrKey(s)
    BY <1>3 DEF AddrKeys
  <2>2. r.addrs[s] \in Address \cup {NoAddress}
    BY <1>1 DEF AddressTable
  <2> QED
    BY <2>1, <2>2, AbsentIs, CellIs, NewRecordIs
<1>4. CASE k \in DeltaKeys
  <2>1. PICK b \in Block : k = DeltaKey(b)
    BY <1>4 DEF DeltaKeys
  <2> QED
    BY <1>1, <2>1, EmptyPatchIsPatch, AbsentIs, CellIs, NewRecordIs
<1>5. CASE k = HeadKey
  BY <1>1, <1>5, AbsentIs, CellIs, NewRecordIs
<1> QED
  BY <1>2, <1>3, <1>4, <1>5 DEF Key

LEMMA BlankIsRequest == Open \in Request
<1>1. (CHOOSE b \in Block : TRUE) \in Block
  BY MdbxAssumption
<1>2. EmptyTable \in Table /\ [s \in Stem |-> NoAddress] \in AddressTable
  BY DEF EmptyTable, Table, AddressTable
<1> QED
  BY <1>1, <1>2, EmptyPatchIsPatch DEF Open, Blank, Request, ReadOps, WriteOps

LEMMA EmptyIsDatabase == Database(Empty)
BY RecordsFit, BlankIsRequest DEF Database, Empty

LEMMA KeysOfCalls ==
    ASSUME NEW r \in Request, NEW f
    PROVE  WriteKeys(r, f) \subseteq Key /\ ReadKeys(r) \subseteq Key
<1>1. r.stems \subseteq Stem /\ r.block \in Block
  BY DEF Request
<1>2. KnownStems(r.addrs) \subseteq Stem
  BY DEF KnownStems
<1>3. \A S \in SUBSET Stem :
        {StemKey(s) : s \in S} \subseteq Key /\ {AddrKey(s) : s \in S} \subseteq Key
  BY KeyKinds
<1>4. \A B \in SUBSET Block : {DeltaKey(b) : b \in B} \subseteq Key
  BY KeyKinds
<1>5. WriteKeys(r, f) \subseteq Key
  BY <1>1, <1>2, <1>3, <1>4, KeyKinds DEF WriteKeys
<1>6. ReadKeys(r) \subseteq Key
  BY <1>1, <1>3, KeyKinds DEF ReadKeys
<1> QED
  BY <1>5, <1>6

\* Which records a call that writes goes through.
LEMMA WriteKeysAre ==
    ASSUME NEW r \in Request, NEW f
    PROVE  /\ \A s \in Stem :
                /\ StemKey(s) \in WriteKeys(r, f) <=> r.op = "updateStems" /\ r.table[s] # NoNode
                /\ AddrKey(s) \in WriteKeys(r, f)
                     <=> r.op \in {"saveAddress", "saveAddresses"} /\ r.addrs[s] # NoAddress
           /\ \A b \in Block :
                DeltaKey(b) \in WriteKeys(r, f)
                  <=> \/ r.op \in {"saveDeltas", "deleteDeltas"} /\ b = r.block
                      \/ r.op = "pruneDeltas" /\ b < r.block /\ f[DeltaKey(b)] # EmptyPatch
                      \/ r.op = "deleteAfter" /\ b > r.block /\ f[DeltaKey(b)] # EmptyPatch
           /\ HeadKey \in WriteKeys(r, f) <=> r.op = "saveHead"
<1> DEFINE W == WriteKeys(r, f)
<1>1. /\ r.block \in Block
      /\ r.op \in ReadOps \cup WriteOps
  BY DEF Request
<1>2. \A S \in SUBSET Stem : \A s \in Stem :
        /\ StemKey(s) \in {StemKey(t) : t \in S} <=> s \in S
        /\ AddrKey(s) \in {AddrKey(t) : t \in S} <=> s \in S
        /\ AddrKey(s) \notin {StemKey(t) : t \in S} /\ StemKey(s) \notin {AddrKey(t) : t \in S}
  BY KeyKinds, KeyParts DEF StemKeys, AddrKeys
<1>3. \A S \in SUBSET Stem : \A b \in Block :
        DeltaKey(b) \notin {StemKey(t) : t \in S} /\ DeltaKey(b) \notin {AddrKey(t) : t \in S}
  BY KeyKinds
<1>4. \A S \in SUBSET Stem :
        HeadKey \notin {StemKey(t) : t \in S} /\ HeadKey \notin {AddrKey(t) : t \in S}
  BY KeyKinds
<1>5. \A B \in SUBSET Block : \A s \in Stem :
        StemKey(s) \notin {DeltaKey(b) : b \in B} /\ AddrKey(s) \notin {DeltaKey(b) : b \in B}
  BY KeyKinds
<1>6. \A B \in SUBSET Block : \A b \in Block : DeltaKey(b) \in {DeltaKey(d) : d \in B} <=> b \in B
  BY KeyParts
<1>7. \A B \in SUBSET Block : HeadKey \notin {DeltaKey(d) : d \in B}
  BY KeyKinds
<1>8. CASE r.op = "updateStems"
  <2> DEFINE S == {s \in Stem : r.table[s] # NoNode}
  <2>1. W = {StemKey(s) : s \in S} /\ S \in SUBSET Stem
    BY <1>8 DEF WriteKeys
  <2> QED
    BY <1>2, <1>3, <1>4, <1>8, <2>1
<1>9. CASE r.op \in {"saveAddress", "saveAddresses"}
  <2> DEFINE S == KnownStems(r.addrs)
  <2>1. W = {AddrKey(s) : s \in S} /\ S \in SUBSET Stem
    BY <1>9 DEF WriteKeys, KnownStems
  <2>2. \A s \in Stem : s \in S <=> r.addrs[s] # NoAddress
    BY DEF KnownStems
  <2> QED
    BY <1>2, <1>3, <1>4, <1>9, <2>1, <2>2
<1>10. CASE r.op = "saveHead"
  <2>1. W = {HeadKey}
    BY <1>10 DEF WriteKeys
  <2> QED
    BY <1>10, <2>1, KeyKinds
<1>11. CASE r.op \in {"saveDeltas", "deleteDeltas"}
  <2>1. W = {DeltaKey(r.block)}
    BY <1>11 DEF WriteKeys
  <2> QED
    BY <1>1, <1>11, <2>1, KeyKinds, KeyParts
<1>12. CASE r.op = "pruneDeltas"
  <2> DEFINE B == {b \in Block : b < r.block /\ f[DeltaKey(b)] # EmptyPatch}
  <2>1. W = {DeltaKey(b) : b \in B} /\ B \in SUBSET Block
    BY <1>12 DEF WriteKeys
  <2> QED
    BY <1>5, <1>6, <1>7, <1>12, <2>1
<1>13. CASE r.op = "deleteAfter"
  <2> DEFINE B == {b \in Block : b > r.block /\ f[DeltaKey(b)] # EmptyPatch}
  <2>1. W = {DeltaKey(b) : b \in B} /\ B \in SUBSET Block
    BY <1>13 DEF WriteKeys
  <2> QED
    BY <1>5, <1>6, <1>7, <1>13, <2>1
<1>14. CASE r.op \notin {"updateStems", "saveAddress", "saveAddresses", "saveHead", "saveDeltas",
                         "deleteDeltas", "pruneDeltas", "deleteAfter"}
  <2>1. W = {}
    BY <1>14 DEF WriteKeys
  <2> QED
    BY <1>14, <2>1
<1> QED
  BY <1>8, <1>9, <1>10, <1>11, <1>12, <1>13, <1>14

\* Records that have all been put are the tables as Stores has them.
LEMMA PutIsWritten ==
    ASSUME NEW r \in Request, r.op = "saveDeltas" => r.patch # EmptyPatch, NEW f, NEW g,
           \A k \in Key : g[k] = IF k \in WriteKeys(r, f) THEN NewRecord(r, k) ELSE f[k]
    PROVE  TablesOf(g) = Written(TablesOf(f), r)
<1> DEFINE A == {s \in Stem : f[AddrKey(s)] # NoAddress}
           D == [b \in Block |-> f[DeltaKey(b)]]
           T == [s \in Stem |-> f[StemKey(s)]]
<1>1. /\ TablesOf(f) = [stems |-> T, addrs |-> A, head |-> f[HeadKey], deltas |-> D]
      /\ r.block \in Block
  BY DEF TablesOf, Request
<1>2. \A s \in Stem :
        g[StemKey(s)] = IF r.op = "updateStems" /\ r.table[s] # NoNode THEN r.table[s]
                                                                      ELSE f[StemKey(s)]
  BY KeyKinds, NewRecordIs, WriteKeysAre
<1>3. \A s \in Stem :
        g[AddrKey(s)] = IF r.op \in {"saveAddress", "saveAddresses"} /\ r.addrs[s] # NoAddress
                        THEN r.addrs[s] ELSE f[AddrKey(s)]
  BY KeyKinds, NewRecordIs, WriteKeysAre
<1>4. g[HeadKey] = IF r.op = "saveHead" THEN r.head ELSE f[HeadKey]
  BY KeyKinds, NewRecordIs, WriteKeysAre
<1>5. \A b \in Block :
        g[DeltaKey(b)] =
            IF \/ r.op \in {"saveDeltas", "deleteDeltas"} /\ b = r.block
               \/ r.op = "pruneDeltas" /\ b < r.block /\ f[DeltaKey(b)] # EmptyPatch
               \/ r.op = "deleteAfter" /\ b > r.block /\ f[DeltaKey(b)] # EmptyPatch
            THEN IF r.op = "saveDeltas" THEN r.patch ELSE EmptyPatch
            ELSE f[DeltaKey(b)]
  BY KeyKinds, NewRecordIs, WriteKeysAre
<1>6. [s \in Stem |-> g[StemKey(s)]]
        = IF r.op = "updateStems" THEN BatchUpdateStems(T, r.table) ELSE T
  <2>1. CASE r.op = "updateStems"
    BY <1>2, <2>1 DEF BatchUpdateStems, Overlaid
  <2>2. CASE r.op # "updateStems"
    BY <1>2, <2>2
  <2> QED
    BY <2>1, <2>2
<1>7. {s \in Stem : g[AddrKey(s)] # NoAddress}
        = IF r.op \in {"saveAddress", "saveAddresses"}
          THEN BatchSaveStemAddresses(A, KnownStems(r.addrs)) ELSE A
  <2>1. CASE r.op \in {"saveAddress", "saveAddresses"}
    BY <1>3, <2>1 DEF BatchSaveStemAddresses, KnownStems
  <2>2. CASE r.op \notin {"saveAddress", "saveAddresses"}
    BY <1>3, <2>2
  <2> QED
    BY <2>1, <2>2
<1>8. [b \in Block |-> g[DeltaKey(b)]]
        = CASE r.op = "saveDeltas"   -> SaveBlockDeltas(D, r.block, r.patch)
            [] r.op = "deleteDeltas" -> DeleteBlockDeltas(D, r.block)
            [] r.op = "pruneDeltas"  -> PruneDeltasBefore(D, r.block)
            [] r.op = "deleteAfter"  -> DeleteDeltasAfter(D, r.block)
            [] OTHER                 -> D
  <2>1. CASE r.op = "saveDeltas"
    <3>1. SaveBlockDeltas(D, r.block, r.patch) = [D EXCEPT ![r.block] = r.patch]
      BY <2>1 DEF SaveBlockDeltas
    <3>2. \A b \in Block : g[DeltaKey(b)] = IF b = r.block THEN r.patch ELSE D[b]
      BY <1>5, <2>1
    <3>3. [b \in Block |-> g[DeltaKey(b)]] = [D EXCEPT ![r.block] = r.patch]
      BY <1>1, <3>2
    <3> QED
      BY <2>1, <3>1, <3>3
  <2>2. CASE r.op = "deleteDeltas"
    <3>1. \A b \in Block : g[DeltaKey(b)] = IF b = r.block THEN EmptyPatch ELSE D[b]
      BY <1>5, <2>2
    <3>2. [b \in Block |-> g[DeltaKey(b)]] = [D EXCEPT ![r.block] = EmptyPatch]
      BY <1>1, <3>1
    <3> QED
      BY <2>2, <3>2 DEF DeleteBlockDeltas
  <2>3. CASE r.op = "pruneDeltas"
    <3>1. \A b \in Block : g[DeltaKey(b)] = IF b < r.block THEN EmptyPatch ELSE D[b]
      BY <1>5, <2>3
    <3>2. [b \in Block |-> g[DeltaKey(b)]]
            = [b \in DOMAIN D |-> IF b < r.block THEN EmptyPatch ELSE D[b]]
      BY <3>1
    <3> QED
      BY <2>3, <3>2 DEF PruneDeltasBefore
  <2>4. CASE r.op = "deleteAfter"
    <3>1. \A b \in Block : g[DeltaKey(b)] = IF b > r.block THEN EmptyPatch ELSE D[b]
      BY <1>5, <2>4
    <3>2. [b \in Block |-> g[DeltaKey(b)]]
            = [b \in DOMAIN D |-> IF b > r.block THEN EmptyPatch ELSE D[b]]
      BY <3>1
    <3> QED
      BY <2>4, <3>2 DEF DeleteDeltasAfter
  <2>5. CASE r.op \notin {"saveDeltas", "deleteDeltas", "pruneDeltas", "deleteAfter"}
    <3>1. \A b \in Block : g[DeltaKey(b)] = f[DeltaKey(b)]
      BY <1>5, <2>5
    <3>2. [b \in Block |-> g[DeltaKey(b)]] = D
      BY <3>1
    <3> QED
      BY <2>5, <3>2
  <2> QED
    BY <2>1, <2>2, <2>3, <2>4, <2>5
<1>9. TablesOf(g) = [stems |-> [s \in Stem |-> g[StemKey(s)]],
                     addrs |-> {s \in Stem : g[AddrKey(s)] # NoAddress},
                     head  |-> g[HeadKey],
                     deltas |-> [b \in Block |-> g[DeltaKey(b)]]]
  BY DEF TablesOf
<1> HIDE DEF A, D, T
<1>10. CASE r.op = "updateStems"
  <2> DEFINE U == BatchUpdateStems(T, r.table)
  <2>1. TablesOf(g) = [stems |-> U, addrs |-> A, head |-> f[HeadKey], deltas |-> D]
    BY <1>4, <1>6, <1>7, <1>8, <1>9, <1>10
  <2>2. Written(TablesOf(f), r) = [TablesOf(f) EXCEPT !.stems = U]
    BY <1>1, <1>10 DEF Written
  <2> HIDE DEF U
  <2> QED
    BY <1>1, <2>1, <2>2
<1>11. CASE r.op \in {"saveAddress", "saveAddresses"}
  <2> DEFINE B == BatchSaveStemAddresses(A, KnownStems(r.addrs))
  <2>1. TablesOf(g) = [stems |-> T, addrs |-> B, head |-> f[HeadKey], deltas |-> D]
    BY <1>4, <1>6, <1>7, <1>8, <1>9, <1>11
  <2>2. Written(TablesOf(f), r) = [TablesOf(f) EXCEPT !.addrs = B]
    BY <1>1, <1>11 DEF Written
  <2> HIDE DEF B
  <2> QED
    BY <1>1, <2>1, <2>2
<1>12. CASE r.op = "saveHead"
  <2>1. TablesOf(g) = [stems |-> T, addrs |-> A, head |-> r.head, deltas |-> D]
    BY <1>4, <1>6, <1>7, <1>8, <1>9, <1>12
  <2>2. Written(TablesOf(f), r) = [TablesOf(f) EXCEPT !.head = r.head]
    BY <1>12 DEF Written
  <2> QED
    BY <1>1, <2>1, <2>2
<1>13. CASE r.op \in {"saveDeltas", "deleteDeltas", "pruneDeltas", "deleteAfter"}
  <2> DEFINE E == [b \in Block |-> g[DeltaKey(b)]]
  <2>1. TablesOf(g) = [stems |-> T, addrs |-> A, head |-> f[HeadKey], deltas |-> E]
    BY <1>4, <1>6, <1>7, <1>9, <1>13
  <2>2. Written(TablesOf(f), r) = [TablesOf(f) EXCEPT !.deltas = E]
    <3>1. TablesOf(f).deltas = D
      BY <1>1
    <3>2. CASE r.op = "saveDeltas"
      BY <1>8, <3>1, <3>2 DEF Written
    <3>3. CASE r.op = "deleteDeltas"
      BY <1>8, <3>1, <3>3 DEF Written
    <3>4. CASE r.op = "pruneDeltas"
      BY <1>8, <3>1, <3>4 DEF Written
    <3>5. CASE r.op = "deleteAfter"
      BY <1>8, <3>1, <3>5 DEF Written
    <3> QED
      BY <1>13, <3>2, <3>3, <3>4, <3>5
  <2> HIDE DEF E
  <2> QED
    BY <1>1, <2>1, <2>2
<1>14. CASE r.op \notin {"updateStems", "saveAddress", "saveAddresses", "saveHead", "saveDeltas",
                         "deleteDeltas", "pruneDeltas", "deleteAfter"}
  BY <1>1, <1>4, <1>6, <1>7, <1>8, <1>9, <1>14 DEF Written
<1> QED
  BY <1>10, <1>11, <1>12, <1>13, <1>14

\* Records that have all been read are what the call was asked for.
LEMMA GetIsRead ==
    ASSUME NEW r \in Request, r.op \in ReadOps, NEW f, NEW g,
           \A k \in Key : g[k] = IF k \in ReadKeys(r) THEN f[k] ELSE Absent(k)
    PROVE  TablesOf(g) = Read(TablesOf(f), r)
<1>1. r.stems \in SUBSET Stem /\ r.block \in Block
  BY DEF Request
<1>2. \A s \in Stem :
        /\ StemKey(s) \in ReadKeys(r) <=> r.op = "loadStems" /\ s \in r.stems
        /\ AddrKey(s) \in ReadKeys(r) <=> r.op = "loadAddress" /\ s \in r.stems
  <2>1. CASE r.op = "loadStems"
    BY <1>1, <2>1, KeyKinds, KeyParts DEF ReadKeys
  <2>2. CASE r.op = "loadAddress"
    BY <1>1, <2>2, KeyKinds, KeyParts DEF ReadKeys
  <2>3. CASE r.op = "loadDeltas"
    BY <1>1, <2>3, KeyKinds DEF ReadKeys
  <2>4. CASE r.op = "loadHead"
    BY <2>4, KeyKinds DEF ReadKeys
  <2> QED
    BY <2>1, <2>2, <2>3, <2>4 DEF ReadOps
<1>3. /\ \A b \in Block : DeltaKey(b) \in ReadKeys(r) <=> r.op = "loadDeltas" /\ b = r.block
      /\ HeadKey \in ReadKeys(r) <=> r.op = "loadHead"
  <2>1. CASE r.op = "loadStems"
    BY <1>1, <2>1, KeyKinds DEF ReadKeys
  <2>2. CASE r.op = "loadAddress"
    BY <1>1, <2>2, KeyKinds DEF ReadKeys
  <2>3. CASE r.op = "loadDeltas"
    BY <1>1, <2>3, KeyKinds, KeyParts DEF ReadKeys
  <2>4. CASE r.op = "loadHead"
    BY <2>4, KeyKinds DEF ReadKeys
  <2> QED
    BY <2>1, <2>2, <2>3, <2>4 DEF ReadOps
<1>4. /\ TablesOf(f).stems = [s \in Stem |-> f[StemKey(s)]]
      /\ TablesOf(f).addrs = {s \in Stem : f[AddrKey(s)] # NoAddress}
      /\ TablesOf(f).head = f[HeadKey]
      /\ TablesOf(f).deltas = [b \in Block |-> f[DeltaKey(b)]]
  BY DEF TablesOf
<1>5. [s \in Stem |-> g[StemKey(s)]]
        = [s \in Stem |-> IF r.op = "loadStems" /\ s \in r.stems THEN TablesOf(f).stems[s]
                                                                 ELSE NoNode]
  BY <1>2, <1>4, KeyKinds, AbsentIs
<1>6. {s \in Stem : g[AddrKey(s)] # NoAddress}
        = IF r.op = "loadAddress" THEN TablesOf(f).addrs \cap r.stems ELSE {}
  <2>1. \A s \in Stem : g[AddrKey(s)] = IF r.op = "loadAddress" /\ s \in r.stems
                                        THEN f[AddrKey(s)] ELSE NoAddress
    BY <1>2, KeyKinds, AbsentIs
  <2> QED
    BY <1>4, <2>1
<1>7. g[HeadKey] = IF r.op = "loadHead" THEN TablesOf(f).head ELSE NoHead
  BY <1>3, <1>4, KeyKinds, AbsentIs
<1>8. [b \in Block |-> g[DeltaKey(b)]]
        = [b \in Block |-> IF r.op = "loadDeltas" /\ b = r.block THEN TablesOf(f).deltas[b]
                                                                 ELSE EmptyPatch]
  BY <1>3, <1>4, KeyKinds, AbsentIs
<1> QED
  BY <1>5, <1>6, <1>7, <1>8 DEF TablesOf, Read

LEMMA EmptyIsNoTables == TablesOf(Empty) = NoTables
<1>1. \A s \in Stem : Empty[StemKey(s)] = NoNode /\ Empty[AddrKey(s)] = NoAddress
  BY KeyKinds, AbsentIs DEF Empty
<1>2. Empty[HeadKey] = NoHead /\ \A b \in Block : Empty[DeltaKey(b)] = EmptyPatch
  BY KeyKinds, AbsentIs DEF Empty
<1>3. [s \in Stem |-> Empty[StemKey(s)]] = EmptyTable
  BY <1>1 DEF EmptyTable
<1>4. {s \in Stem : Empty[AddrKey(s)] # NoAddress} = {}
  BY <1>1
<1> QED
  BY <1>2, <1>3, <1>4 DEF TablesOf, NoTables

----------------------------------------------------------------------------
(* The invariant.                                                            *)

WriterInv(c) ==
    /\ todo[c] \subseteq WriteKeys(asked[c], disk)
    /\ \A k \in Key :
        work[k] = IF k \in WriteKeys(asked[c], disk) /\ k \notin todo[c]
                  THEN NewRecord(asked[c], k) ELSE disk[k]
    /\ \A k \in AddrKeys : disk[k] # NoAddress => work[k] = disk[k]

ReaderInv(c) ==
    /\ todo[c] \subseteq ReadKeys(asked[c])
    /\ \A k \in Key :
        seen[c][k] = IF k \in ReadKeys(asked[c]) /\ k \notin todo[c]
                     THEN snap[c][k] ELSE Absent(k)

\* What is true of a call at each of its places: whether it has the lock, whether its
\* transaction is live, and what it has put or read so far.
CallInv(c) ==
    /\ (writer = c) = (handle[c] = "live" /\ ~Reads(c))
    /\ asked[c] \in Asked \cup {Open}
    /\ at[c] = "idle" => asked[c] = Open
    /\ at[c] \in {"idle", "begin"} =>
        result[c] = "none" /\ handle[c] = "none" /\ seen[c] = Empty
    /\ at[c] = "items" => result[c] = "none" /\ handle[c] = "live"
    /\ at[c] # "drop" => ~committed[c]
    /\ at[c] = "drop" => handle[c] = IF committed[c] THEN "freed" ELSE "live"
    /\ at[c] \in {"drop", "done"} => result[c] # "none"
    /\ at[c] = "done" => handle[c] # "live"
    /\ at[c] = "items" /\ ~Reads(c) => WriterInv(c)
    /\ at[c] = "items" /\ Reads(c) => ReaderInv(c)

TxnInv ==
    /\ ~misuse
    /\ \A c \in Client : CallInv(c)

LEMMA AskedAreRequests ==
    /\ \A r \in Asked \cup {Open} : r \in Request /\ (r.op = "saveDeltas" => r.patch # EmptyPatch)
    /\ Open.op = "open" /\ Open.op \notin ReadOps
<1>1. Open.op = "open"
  BY DEF Open, Blank
<1> QED
  BY <1>1, MdbxAssumption, BlankIsRequest DEF ReadOps

----------------------------------------------------------------------------
(* Types.                                                                    *)

LEMMA TxnTypeInit == TxnInit => TxnTypeOK
<1> SUFFICES ASSUME TxnInit PROVE TxnTypeOK
  OBVIOUS
<1>1. Database(disk) /\ Database(work)
  BY EmptyIsDatabase DEF TxnInit
<1>2. \A c \in Client : Database(snap[c]) /\ Database(seen[c])
  BY EmptyIsDatabase DEF TxnInit
<1>3. asked \in [Client -> Request] /\ todo \in [Client -> SUBSET Key]
  BY BlankIsRequest DEF TxnInit
<1> QED
  BY <1>1, <1>2, <1>3 DEF TxnInit, TxnTypeOK

LEMMA TxnTypeStep ==
    ASSUME TxnTypeOK, [TxnNext]_mdbxVars
    PROVE  TxnTypeOK'
<1>1. CASE UNCHANGED mdbxVars
  BY <1>1 DEF mdbxVars, TxnTypeOK, Database
<1>2. ASSUME NEW c \in Client, Call(c) PROVE TxnTypeOK'
  <2>1. \A r \in Asked : r \in Request
    BY AskedAreRequests
  <2> QED
    BY <1>2, <2>1 DEF Call, TxnTypeOK, lockVars, Database
<1>3. ASSUME NEW c \in Client, EmptyBatch(c) PROVE TxnTypeOK'
  BY <1>3 DEF EmptyBatch, TxnTypeOK, lockVars, Database
<1>4. ASSUME NEW c \in Client, BeginRo(c) PROVE TxnTypeOK'
  <2>1. ReadKeys(asked[c]) \subseteq Key
    BY KeysOfCalls DEF TxnTypeOK
  <2>2. todo' \in [Client -> SUBSET Key]
    BY <1>4, <2>1 DEF BeginRo, TxnTypeOK
  <2>3. \A d \in Client : Database(snap'[d])
    BY <1>4 DEF BeginRo, TxnTypeOK, Database
  <2>4. Database(disk)' /\ Database(work)' /\ \A d \in Client : Database(seen'[d])
    BY <1>4 DEF BeginRo, TxnTypeOK, lockVars, Database
  <2> QED
    BY <1>4, <2>2, <2>3, <2>4 DEF BeginRo, TxnTypeOK, lockVars, Database
<1>5. ASSUME NEW c \in Client, BeginRw(c) PROVE TxnTypeOK'
  BY <1>5, KeysOfCalls DEF BeginRw, TxnTypeOK, Database
<1>6. ASSUME NEW c \in Client, BeginFails(c) PROVE TxnTypeOK'
  BY <1>6 DEF BeginFails, TxnTypeOK, lockVars, Database
<1>7. ASSUME NEW c \in Client, GetNext(c) PROVE TxnTypeOK'
  BY <1>7 DEF GetNext, Get, TxnTypeOK, lockVars, Database
<1>8. ASSUME NEW c \in Client, PutNext(c) PROVE TxnTypeOK'
  BY <1>8, RecordsFit DEF PutNext, TxnTypeOK, Database
<1>9. ASSUME NEW c \in Client, ItemFails(c) PROVE TxnTypeOK'
  BY <1>9 DEF ItemFails, TxnTypeOK, lockVars, Database
<1>10. ASSUME NEW c \in Client, AllRead(c) PROVE TxnTypeOK'
  BY <1>10 DEF AllRead, TxnTypeOK, lockVars, Database
<1>11. ASSUME NEW c \in Client, Commit(c) PROVE TxnTypeOK'
  BY <1>11, EmptyIsDatabase DEF Commit, SetCommitted, TxnTypeOK, Database
<1>12. ASSUME NEW c \in Client, Drop(c) PROVE TxnTypeOK'
  <2>1. /\ Database(work)'
        /\ writer' \in Client \cup {NoClient}
        /\ handle' \in [Client -> {"none", "live", "freed"}]
        /\ misuse' \in BOOLEAN
    <3>1. CASE committed[c]
      BY <1>12, <3>1 DEF Drop, AbortUnlessCommitted, TxnTypeOK, Database
    <3>2. CASE ~committed[c]
      <4>1. /\ misuse' = (misuse \/ handle[c] # "live")
            /\ handle' = [handle EXCEPT ![c] = "freed"]
            /\ writer' = IF writer = c THEN NoClient ELSE writer
            /\ work' = IF writer = c THEN Empty ELSE work
        BY <1>12, <3>2 DEF Drop, AbortUnlessCommitted
      <4>2. misuse' \in BOOLEAN /\ handle' \in [Client -> {"none", "live", "freed"}]
        BY <4>1 DEF TxnTypeOK
      <4>3. Database(work)' /\ writer' \in Client \cup {NoClient}
        BY <4>1, EmptyIsDatabase DEF TxnTypeOK, Database
      <4> QED
        BY <4>2, <4>3
    <3> QED
      BY <3>1, <3>2
  <2>2. \A d \in Client : Database(snap'[d])
    BY <1>12, EmptyIsDatabase DEF Drop, TxnTypeOK
  <2>3. /\ at' \in [Client -> {"idle", "begin", "items", "drop", "done"}]
        /\ todo' \in [Client -> SUBSET Key] /\ committed' \in [Client -> BOOLEAN]
        /\ Database(disk)' /\ \A d \in Client : Database(seen'[d])
    BY <1>12 DEF Drop, TxnTypeOK, Database
  <2> QED
    BY <1>12, <2>1, <2>2, <2>3 DEF Drop, TxnTypeOK, Database
<1>13. ASSUME NEW c \in Client, Return(c) PROVE TxnTypeOK'
  BY <1>13, EmptyIsDatabase, BlankIsRequest DEF Return, TxnTypeOK, lockVars, Database
<1>14. CASE Die
  BY <1>14, EmptyIsDatabase, BlankIsRequest DEF Die, TxnTypeOK, Database
<1> QED
  BY <1>1, <1>2, <1>3, <1>4, <1>5, <1>6, <1>7, <1>8, <1>9, <1>10, <1>11, <1>12, <1>13, <1>14
     DEF TxnNext, Step

----------------------------------------------------------------------------
(* Steps.                                                                    *)

SameCall(d) ==
    /\ asked'[d] = asked[d] /\ at'[d] = at[d] /\ todo'[d] = todo[d]
    /\ snap'[d] = snap[d] /\ seen'[d] = seen[d] /\ result'[d] = result[d]
    /\ handle'[d] = handle[d] /\ committed'[d] = committed[d]

\* A call that is not taking the step keeps what it has, as long as nobody takes the
\* lock from it, gives it the lock, or writes while it has the lock.
LEMMA OtherCallKept ==
    ASSUME NEW d \in Client, CallInv(d), SameCall(d),
           (writer' = d) = (writer = d), writer = d => disk' = disk /\ work' = work
    PROVE  CallInv(d)'
<1>1. /\ asked'[d] = asked[d] /\ at'[d] = at[d] /\ todo'[d] = todo[d]
      /\ snap'[d] = snap[d] /\ seen'[d] = seen[d] /\ result'[d] = result[d]
      /\ handle'[d] = handle[d] /\ committed'[d] = committed[d]
  BY DEF SameCall
<1>2. Reads(d)' = Reads(d)
  BY <1>1 DEF Reads
<1>3. at[d] = "items" /\ ~Reads(d) => WriterInv(d)'
  <2>1. SUFFICES ASSUME at[d] = "items", ~Reads(d) PROVE WriterInv(d)'
    OBVIOUS
  <2>2. writer = d /\ WriterInv(d)
    BY <2>1 DEF CallInv
  <2>3. disk' = disk /\ work' = work
    BY <2>2
  <2> QED
    BY <1>1, <2>2, <2>3 DEF WriterInv
<1>4. at[d] = "items" /\ Reads(d) => ReaderInv(d)'
  BY <1>1 DEF CallInv, ReaderInv
<1> QED
  BY <1>1, <1>2, <1>3, <1>4 DEF CallInv

\* A step of client c.
LEMMA CallStepKeeps ==
    ASSUME TxnInv, NEW c \in Client, ~misuse', CallInv(c)',
           \A d \in Client \ {c} : /\ SameCall(d)
                                   /\ (writer' = d) = (writer = d)
                                   /\ writer = d => disk' = disk /\ work' = work
    PROVE  TxnInv'
<1>1. ASSUME NEW d \in Client PROVE CallInv(d)'
  <2>1. CASE d = c
    BY <2>1
  <2>2. CASE d # c
    BY <2>2, OtherCallKept DEF TxnInv
  <2> QED
    BY <2>1, <2>2
<1> QED
  BY <1>1 DEF TxnInv

LEMMA TxnInvInit == TxnInit => TxnInv
<1> SUFFICES ASSUME TxnInit PROVE TxnInv
  OBVIOUS
<1>1. ASSUME NEW c \in Client PROVE CallInv(c)
  <2>1. writer # c
    BY TxnAssumption DEF TxnInit
  <2> QED
    BY <2>1 DEF TxnInit, CallInv
<1> QED
  BY <1>1 DEF TxnInit, TxnInv

LEMMA TxnInvStep ==
    ASSUME TxnTypeOK, TxnInv, [TxnNext]_mdbxVars
    PROVE  TxnInv'
<1> USE DEF lockVars
<1>1. CASE UNCHANGED mdbxVars
  <2>1. \A c \in Client : SameCall(c)
    BY <1>1 DEF mdbxVars, SameCall
  <2>2. writer' = writer /\ disk' = disk /\ work' = work /\ misuse' = misuse
    BY <1>1 DEF mdbxVars
  <2>3. \A c \in Client : CallInv(c)'
    BY <2>1, <2>2, OtherCallKept DEF TxnInv
  <2> QED
    BY <2>2, <2>3 DEF TxnInv
<1>2. ASSUME NEW c \in Client, Call(c) PROVE TxnInv'
  <2>1. PICK r \in Asked : asked' = [asked EXCEPT ![c] = r]
    BY <1>2 DEF Call
  <2>2. /\ asked'[c] = r /\ at'[c] = "begin" /\ result'[c] = "none" /\ handle'[c] = "none"
        /\ seen'[c] = Empty /\ ~committed'[c] /\ at[c] = "idle"
    BY <1>2, <2>1 DEF Call, TxnTypeOK, TxnInv, CallInv
  <2>3. writer' = writer /\ disk' = disk /\ work' = work /\ misuse' = misuse
    BY <1>2 DEF Call
  <2>4. writer # c
    BY <2>2 DEF TxnInv, CallInv
  <2>5. CallInv(c)'
    BY <2>2, <2>3, <2>4 DEF CallInv
  <2>6. \A d \in Client \ {c} : SameCall(d)
    BY <1>2, <2>1 DEF Call, TxnTypeOK, SameCall
  <2> QED
    BY <2>3, <2>5, <2>6, CallStepKeeps DEF TxnInv
<1>3. ASSUME NEW c \in Client, EmptyBatch(c) \/ BeginFails(c) PROVE TxnInv'
  <2>1. /\ asked' = asked /\ at'[c] = "done" /\ result'[c] \in {"ok", "error"}
        /\ handle' = handle /\ committed' = committed /\ at[c] = "begin"
        /\ writer' = writer /\ disk' = disk /\ work' = work /\ misuse' = misuse
    BY <1>3 DEF EmptyBatch, BeginFails, TxnTypeOK
  <2>2. handle[c] = "none" /\ ~committed[c] /\ writer # c
    BY <2>1 DEF TxnInv, CallInv
  <2>3. Reads(c)' = Reads(c) /\ asked[c] \in Asked \cup {Open}
    BY <2>1 DEF Reads, TxnInv, CallInv
  <2>4. CallInv(c)'
    BY <2>1, <2>2, <2>3 DEF CallInv
  <2>5. \A d \in Client \ {c} : SameCall(d)
    BY <1>3 DEF EmptyBatch, BeginFails, TxnTypeOK, SameCall
  <2> QED
    BY <2>1, <2>4, <2>5, CallStepKeeps DEF TxnInv
<1>4. ASSUME NEW c \in Client, BeginRo(c) PROVE TxnInv'
  <2>1. /\ asked' = asked /\ at'[c] = "items" /\ result' = result /\ seen' = seen
        /\ handle'[c] = "live" /\ committed' = committed /\ at[c] = "begin" /\ Reads(c)
        /\ todo'[c] = ReadKeys(asked[c]) /\ snap'[c] = disk
        /\ writer' = writer /\ disk' = disk /\ work' = work /\ misuse' = misuse
    BY <1>4 DEF BeginRo, TxnTypeOK
  <2>2. /\ ~committed[c] /\ writer # c /\ result[c] = "none" /\ seen[c] = Empty
        /\ asked[c] \in Asked \cup {Open}
    BY <2>1 DEF TxnInv, CallInv
  <2>3. Reads(c)'
    BY <2>1 DEF Reads
  <2>4. ReaderInv(c)'
    BY <2>1, <2>2 DEF ReaderInv, Empty
  <2>5. CallInv(c)'
    BY <2>1, <2>2, <2>3, <2>4 DEF CallInv
  <2>6. \A d \in Client \ {c} : SameCall(d)
    BY <1>4 DEF BeginRo, TxnTypeOK, SameCall
  <2> QED
    BY <2>1, <2>5, <2>6, CallStepKeeps DEF TxnInv
<1>5. ASSUME NEW c \in Client, BeginRw(c) PROVE TxnInv'
  <2>1. /\ asked' = asked /\ at'[c] = "items" /\ result' = result
        /\ handle'[c] = "live" /\ committed' = committed /\ at[c] = "begin" /\ ~Reads(c)
        /\ todo'[c] = WriteKeys(asked[c], disk) /\ writer = NoClient
        /\ writer' = c /\ disk' = disk /\ work' = disk /\ misuse' = misuse
    BY <1>5 DEF BeginRw, TxnTypeOK
  <2>2. ~committed[c] /\ result[c] = "none" /\ asked[c] \in Asked \cup {Open}
    BY <2>1 DEF TxnInv, CallInv
  <2>3. ~Reads(c)'
    BY <2>1 DEF Reads
  <2>4. WriterInv(c)'
    BY <2>1 DEF WriterInv
  <2>5. CallInv(c)'
    BY <2>1, <2>2, <2>3, <2>4 DEF CallInv
  <2>6. \A d \in Client \ {c} : SameCall(d) /\ writer' # d /\ writer # d
    BY <1>5, <2>1, TxnAssumption DEF BeginRw, TxnTypeOK, SameCall
  <2> QED
    BY <2>1, <2>5, <2>6, CallStepKeeps DEF TxnInv
<1>6. ASSUME NEW c \in Client, GetNext(c) PROVE TxnInv'
  <2>1. PICK k \in todo[c] : Get(c, k) /\ todo' = [todo EXCEPT ![c] = @ \ {k}]
    BY <1>6 DEF GetNext
  <2>2. /\ asked' = asked /\ at' = at /\ result' = result /\ at[c] = "items" /\ Reads(c)
        /\ handle' = handle /\ committed' = committed /\ snap' = snap
        /\ writer' = writer /\ disk' = disk /\ work' = work /\ misuse' = misuse
    BY <1>6 DEF GetNext
  <2>3. CallInv(c) /\ ReaderInv(c)
    BY <2>2 DEF TxnInv, CallInv
  <2>4. /\ todo'[c] = todo[c] \ {k}
        /\ \A l \in Key : seen'[c][l] = IF l = k THEN snap[c][k] ELSE seen[c][l]
    <3>1. DOMAIN seen[c] = Key /\ DOMAIN seen = Client
      BY DEF TxnTypeOK, Database
    <3> QED
      BY <2>1, <3>1 DEF Get, TxnTypeOK
  <2>5. Reads(c)' = Reads(c)
    BY <2>2 DEF Reads
  <2>6. ReaderInv(c)'
    BY <2>2, <2>3, <2>4 DEF ReaderInv
  <2>7. CallInv(c)'
    BY <2>2, <2>3, <2>5, <2>6 DEF CallInv
  <2>8. \A d \in Client \ {c} : SameCall(d)
    BY <2>1, <2>2 DEF Get, TxnTypeOK, SameCall
  <2> QED
    BY <2>2, <2>7, <2>8, CallStepKeeps DEF TxnInv
<1>7. ASSUME NEW c \in Client, PutNext(c) PROVE TxnInv'
  <2>1. PICK k \in todo[c] :
            /\ ~Refused(asked[c], k, work)
            /\ work' = [work EXCEPT ![k] = NewRecord(asked[c], k)]
            /\ todo' = [todo EXCEPT ![c] = @ \ {k}]
    BY <1>7 DEF PutNext
  <2>2. /\ asked' = asked /\ at' = at /\ result' = result /\ at[c] = "items" /\ ~Reads(c)
        /\ handle' = handle /\ committed' = committed /\ snap' = snap /\ seen' = seen
        /\ writer' = writer /\ disk' = disk /\ misuse' = misuse
    BY <1>7 DEF PutNext
  <2>3. CallInv(c) /\ WriterInv(c) /\ writer = c
    BY <2>2 DEF TxnInv, CallInv
  <2>4. /\ todo'[c] = todo[c] \ {k}
        /\ \A l \in Key : work'[l] = IF l = k THEN NewRecord(asked[c], k) ELSE work[l]
    BY <2>1 DEF TxnTypeOK, Database
  <2>5. Reads(c)' = Reads(c)
    BY <2>2 DEF Reads
  <2>6. WriterInv(c)'
    <3>1. \A l \in Key :
            work'[l] = IF l \in WriteKeys(asked[c], disk) /\ l \notin todo'[c]
                       THEN NewRecord(asked[c], l) ELSE disk[l]
      BY <2>1, <2>3, <2>4 DEF WriterInv
    <3>2. ASSUME NEW l \in AddrKeys, disk[l] # NoAddress PROVE work'[l] = disk[l]
      <4>1. l \in Key /\ work[l] = disk[l]
        BY <2>3, <3>2 DEF WriterInv, Key
      <4>2. l = k => NewRecord(asked[c], k) = disk[l]
        BY <2>1, <3>2, <4>1 DEF Refused
      <4> QED
        BY <2>4, <4>1, <4>2
    <3> QED
      BY <2>2, <2>3, <2>4, <3>1, <3>2 DEF WriterInv
  <2>7. CallInv(c)'
    BY <2>2, <2>3, <2>5, <2>6 DEF CallInv
  <2>8. \A d \in Client \ {c} : SameCall(d) /\ writer # d
    BY <2>1, <2>2, <2>3 DEF TxnTypeOK, SameCall
  <2> QED
    BY <2>2, <2>7, <2>8, CallStepKeeps DEF TxnInv
<1>8. ASSUME NEW c \in Client, ItemFails(c) \/ AllRead(c) PROVE TxnInv'
  <2>1. /\ asked' = asked /\ at'[c] = "drop" /\ result'[c] \in {"ok", "error"}
        /\ handle' = handle /\ committed' = committed /\ at[c] = "items"
        /\ writer' = writer /\ disk' = disk /\ work' = work /\ misuse' = misuse
    BY <1>8 DEF ItemFails, AllRead, TxnTypeOK
  <2>2. /\ handle[c] = "live" /\ ~committed[c] /\ (writer = c) = ~Reads(c)
        /\ asked[c] \in Asked \cup {Open}
    BY <2>1 DEF TxnInv, CallInv
  <2>3. Reads(c)' = Reads(c)
    BY <2>1 DEF Reads
  <2>4. CallInv(c)'
    BY <2>1, <2>2, <2>3 DEF CallInv
  <2>5. \A d \in Client \ {c} : SameCall(d)
    BY <1>8 DEF ItemFails, AllRead, TxnTypeOK, SameCall
  <2> QED
    BY <2>1, <2>4, <2>5, CallStepKeeps DEF TxnInv
<1>9. ASSUME NEW c \in Client, Commit(c) PROVE TxnInv'
  <2>1. PICK ok \in BOOLEAN :
            /\ disk' = IF ok THEN work ELSE disk
            /\ result' = [result EXCEPT ![c] = IF ok THEN "ok" ELSE "error"]
            /\ SetCommitted(c, ok)
    BY <1>9 DEF Commit
  <2>2. /\ asked' = asked /\ at'[c] = "drop" /\ result'[c] \in {"ok", "error"}
        /\ handle'[c] = "freed" /\ committed'[c] /\ at[c] = "items" /\ ~Reads(c)
        /\ writer' = NoClient /\ misuse' = (misuse \/ handle[c] # "live")
    BY <1>9, <2>1 DEF Commit, SetCommitted, TxnTypeOK
  <2>3. handle[c] = "live" /\ writer = c /\ asked[c] \in Asked \cup {Open}
    BY <2>2 DEF TxnInv, CallInv
  <2>4. Reads(c)' = Reads(c)
    BY <2>2 DEF Reads
  <2>5. CallInv(c)'
    BY <2>2, <2>3, <2>4, TxnAssumption DEF CallInv
  <2>6. \A d \in Client \ {c} : SameCall(d) /\ writer # d /\ writer' # d
    BY <1>9, <2>1, <2>2, <2>3, TxnAssumption DEF Commit, SetCommitted, TxnTypeOK, SameCall
  <2>7. ~misuse'
    BY <2>2, <2>3 DEF TxnInv
  <2> QED
    BY <2>5, <2>6, <2>7, CallStepKeeps
<1>10. ASSUME NEW c \in Client, Drop(c) PROVE TxnInv'
  <2>1. /\ asked' = asked /\ at'[c] = "done" /\ result' = result /\ at[c] = "drop"
        /\ ~committed'[c] /\ disk' = disk
    BY <1>10 DEF Drop, TxnTypeOK
  <2>2. /\ handle[c] = IF committed[c] THEN "freed" ELSE "live"
        /\ (writer = c) = (handle[c] = "live" /\ ~Reads(c))
        /\ result[c] # "none" /\ asked[c] \in Asked \cup {Open}
    BY <2>1 DEF TxnInv, CallInv
  <2>3. Reads(c)' = Reads(c)
    BY <2>1 DEF Reads
  <2>4. /\ ~misuse' /\ handle'[c] = "freed" /\ writer' # c
        /\ \A d \in Client \ {c} : /\ handle'[d] = handle[d] /\ (writer' = d) = (writer = d)
                                   /\ writer = d => work' = work
    <3>1. CASE committed[c]
      <4>1. UNCHANGED <<writer, work, handle, misuse>>
        BY <1>10, <3>1 DEF Drop, AbortUnlessCommitted
      <4> QED
        BY <2>2, <3>1, <4>1 DEF TxnInv
    <3>2. CASE ~committed[c]
      <4>1. /\ misuse' = (misuse \/ handle[c] # "live")
            /\ handle' = [handle EXCEPT ![c] = "freed"]
            /\ writer' = IF writer = c THEN NoClient ELSE writer
            /\ work' = IF writer = c THEN Empty ELSE work
        BY <1>10, <3>2 DEF Drop, AbortUnlessCommitted
      <4>2. ~misuse'
        BY <2>2, <3>2, <4>1 DEF TxnInv
      <4>3. handle'[c] = "freed" /\ \A d \in Client \ {c} : handle'[d] = handle[d]
        BY <4>1 DEF TxnTypeOK
      <4>4. /\ writer' # c
            /\ \A d \in Client \ {c} : /\ (writer' = d) = (writer = d)
                                       /\ writer = d => work' = work
        BY <4>1, TxnAssumption
      <4> QED
        BY <4>2, <4>3, <4>4
    <3> QED
      BY <3>1, <3>2
  <2>5. CallInv(c)'
    BY <2>1, <2>2, <2>3, <2>4 DEF CallInv
  <2>6. \A d \in Client \ {c} : SameCall(d)
    BY <1>10, <2>1, <2>4 DEF Drop, TxnTypeOK, SameCall
  <2> QED
    BY <2>1, <2>4, <2>5, <2>6, CallStepKeeps
<1>11. ASSUME NEW c \in Client, Return(c) PROVE TxnInv'
  <2>1. /\ asked'[c] = Open /\ at'[c] = "idle" /\ result'[c] = "none" /\ at[c] = "done"
        /\ handle'[c] = "none" /\ seen'[c] = Empty /\ committed' = committed
        /\ writer' = writer /\ disk' = disk /\ work' = work /\ misuse' = misuse
    BY <1>11 DEF Return, TxnTypeOK
  <2>2. ~committed[c] /\ writer # c
    BY <2>1 DEF TxnInv, CallInv
  <2>3. CallInv(c)'
    BY <2>1, <2>2 DEF CallInv
  <2>4. \A d \in Client \ {c} : SameCall(d)
    BY <1>11 DEF Return, TxnTypeOK, SameCall
  <2> QED
    BY <2>1, <2>3, <2>4, CallStepKeeps DEF TxnInv
<1>12. CASE Die
  <2>1. \A c \in Client : /\ asked'[c] = Open /\ at'[c] = "idle" /\ result'[c] = "none"
                          /\ handle'[c] = "none" /\ seen'[c] = Empty /\ ~committed'[c]
                          /\ writer' # c
    BY <1>12, TxnAssumption DEF Die
  <2>2. ~misuse'
    BY <1>12 DEF Die, TxnInv
  <2> QED
    BY <2>1, <2>2 DEF TxnInv, CallInv
<1> QED
  BY <1>1, <1>2, <1>3, <1>4, <1>5, <1>6, <1>7, <1>8, <1>9, <1>10, <1>11, <1>12 DEF TxnNext, Step

----------------------------------------------------------------------------
(* The refinement.                                                           *)

AbsDb      == TablesOf(disk)
AbsView    == [c \in Client |-> View(c)]
AbsOutcome == [c \in Client |-> Outcome(c)]
absVars    == <<AbsDb, asked, AbsView, AbsOutcome>>

\* A step of client c changes what is said of c and of nobody else.
LEMMA AbsOfOthers ==
    ASSUME NEW c \in Client, \A d \in Client \ {c} : SameCall(d)
    PROVE  /\ AbsView' = [AbsView EXCEPT ![c] = View(c)']
           /\ AbsOutcome' = [AbsOutcome EXCEPT ![c] = Outcome(c)']
<1>1. ASSUME NEW d \in Client \ {c} PROVE View(d)' = View(d) /\ Outcome(d)' = Outcome(d)
  <2>1. SameCall(d)
    OBVIOUS
  <2> QED
    BY <2>1 DEF SameCall, View, Outcome, Reads
<1> QED
  BY <1>1 DEF AbsView, AbsOutcome

\* A step of client c that says nothing new of it.
LEMMA AbsStutters ==
    ASSUME NEW c \in Client, \A d \in Client \ {c} : SameCall(d),
           View(c)' = View(c), Outcome(c)' = Outcome(c), disk' = disk, asked' = asked
    PROVE  UNCHANGED absVars
<1>1. AbsView' = [AbsView EXCEPT ![c] = View(c)] /\ AbsOutcome' = [AbsOutcome EXCEPT ![c] = Outcome(c)]
  BY AbsOfOthers
<1>2. AbsView' = AbsView /\ AbsOutcome' = AbsOutcome
  BY <1>1 DEF AbsView, AbsOutcome
<1> QED
  BY <1>2 DEF absVars, AbsDb

\* AtomicMdbx has the calls of MdbxCalls too.
LEMMA SameCalls ==
    /\ Atomic!WriteOps = WriteOps /\ Atomic!ReadOps = ReadOps
    /\ Atomic!NoTables = NoTables /\ Atomic!Open = Open
    /\ \A db, r : Atomic!Written(db, r) = Written(db, r) /\ Atomic!Read(db, r) = Read(db, r)
<1>1. Atomic!WriteOps = WriteOps /\ Atomic!ReadOps = ReadOps
  BY DEF Atomic!WriteOps, Atomic!ReadOps, WriteOps, ReadOps
<1>2. Atomic!EmptyTable = EmptyTable /\ Atomic!EmptyPatch = EmptyPatch
  BY DEF Atomic!EmptyTable, Atomic!EmptyPatch, EmptyTable, EmptyPatch
<1>3. Atomic!Open = Open
  BY <1>2 DEF Atomic!Open, Atomic!Blank, Open, Blank
<1>4. Atomic!NoTables = NoTables
  BY <1>2 DEF Atomic!NoTables, NoTables
<1>5. \A x, y : /\ Atomic!BatchUpdateStems(x, y) = BatchUpdateStems(x, y)
               /\ Atomic!BatchSaveStemAddresses(x, y) = BatchSaveStemAddresses(x, y)
               /\ Atomic!DeleteBlockDeltas(x, y) = DeleteBlockDeltas(x, y)
               /\ Atomic!PruneDeltasBefore(x, y) = PruneDeltasBefore(x, y)
               /\ Atomic!DeleteDeltasAfter(x, y) = DeleteDeltasAfter(x, y)
               /\ Atomic!KnownStems(x) = KnownStems(x)
  BY <1>2 DEF Atomic!BatchUpdateStems, BatchUpdateStems, Atomic!Overlaid, Overlaid,
              Atomic!BatchSaveStemAddresses, BatchSaveStemAddresses,
              Atomic!DeleteBlockDeltas, DeleteBlockDeltas,
              Atomic!PruneDeltasBefore, PruneDeltasBefore,
              Atomic!DeleteDeltasAfter, DeleteDeltasAfter, Atomic!KnownStems, KnownStems
<1>6. \A x, y, z : Atomic!SaveBlockDeltas(x, y, z) = SaveBlockDeltas(x, y, z)
  BY <1>2 DEF Atomic!SaveBlockDeltas, SaveBlockDeltas
<1>7. ASSUME NEW db, NEW r
      PROVE  Atomic!Written(db, r) = Written(db, r) /\ Atomic!Read(db, r) = Read(db, r)
  <2>1. Atomic!Written(db, r) = Written(db, r)
    BY <1>5, <1>6 DEF Atomic!Written, Written
  <2>2. Atomic!Read(db, r) = Read(db, r)
    BY <1>2 DEF Atomic!Read, Read
  <2> QED
    BY <2>1, <2>2
<1> QED
  BY <1>1, <1>3, <1>4, <1>7

LEMMA AtomicInit == TxnInit => Atomic!Init
<1> SUFFICES ASSUME TxnInit PROVE Atomic!Init
  OBVIOUS
<1>1. ASSUME NEW c \in Client PROVE View(c) = NoTables /\ Outcome(c) = "idle"
  BY AskedAreRequests DEF TxnInit, View, Outcome, Reads
<1>2. TablesOf(disk) = NoTables
  BY EmptyIsNoTables DEF TxnInit
<1>3. AbsView = [c \in Client |-> NoTables] /\ AbsOutcome = [c \in Client |-> "idle"]
  BY <1>1 DEF AbsView, AbsOutcome
<1> QED
  BY <1>2, <1>3, SameCalls DEF TxnInit, Atomic!Init, AbsView, AbsOutcome

LEMMA AtomicStep ==
    ASSUME TxnTypeOK, TxnInv, TxnTypeOK', TxnInv', [TxnNext]_mdbxVars
    PROVE  Atomic!Next \/ UNCHANGED absVars
<1> USE DEF lockVars
<1>1. CASE UNCHANGED mdbxVars
  <2>1. \A c \in Client : View(c)' = View(c) /\ Outcome(c)' = Outcome(c)
    BY <1>1 DEF mdbxVars, View, Outcome, Reads
  <2> QED
    BY <1>1, <2>1 DEF mdbxVars, absVars, AbsDb, AbsView, AbsOutcome
<1>2. ASSUME NEW c \in Client, Call(c) PROVE Atomic!Call(c)
  <2>1. PICK r \in Asked : asked' = [asked EXCEPT ![c] = r]
    BY <1>2 DEF Call
  <2>2. /\ at[c] = "idle" /\ at'[c] = "begin" /\ result' = result /\ seen' = seen /\ disk' = disk
    BY <1>2 DEF Call, TxnTypeOK
  <2>3. result[c] = "none" /\ seen[c] = Empty /\ asked[c] = Open
    BY <2>2 DEF TxnInv, CallInv
  <2>4. Outcome(c) = "idle" /\ Outcome(c)' = "called"
    BY <2>2, <2>3 DEF Outcome
  <2>5. View(c) = NoTables /\ View(c)' = NoTables
    BY <2>2, <2>3, AskedAreRequests, EmptyIsNoTables DEF View, Reads
  <2>6. \A d \in Client \ {c} : SameCall(d)
    BY <1>2, <2>1 DEF Call, TxnTypeOK, SameCall
  <2>7. /\ AbsView' = [AbsView EXCEPT ![c] = NoTables]
        /\ AbsOutcome' = [AbsOutcome EXCEPT ![c] = "called"]
    BY <2>4, <2>5, <2>6, AbsOfOthers
  <2>8. AbsView' = AbsView /\ AbsOutcome[c] = "idle"
    BY <2>4, <2>5, <2>7 DEF AbsView, AbsOutcome
  <2> QED
    BY <2>1, <2>2, <2>7, <2>8 DEF Atomic!Call, AbsView, AbsOutcome
<1>3. ASSUME NEW c \in Client, EmptyBatch(c) PROVE Atomic!Write(c)
  <2>1. /\ at[c] = "begin" /\ asked[c].op \in {"updateStems", "saveAddresses"}
        /\ WriteKeys(asked[c], disk) = {} /\ result'[c] = "ok" /\ at'[c] = "done"
        /\ asked' = asked /\ disk' = disk
    BY <1>3 DEF EmptyBatch, TxnTypeOK
  <2>2. result[c] = "none" /\ ~Reads(c) /\ asked[c].op \in WriteOps
    BY <2>1 DEF TxnInv, CallInv, Reads, ReadOps, WriteOps
  <2>3. Outcome(c) = "called" /\ Outcome(c)' = "ok"
    BY <2>1, <2>2 DEF Outcome
  <2>4. View(c) = NoTables /\ View(c)' = NoTables
    BY <2>1, <2>2 DEF View, Reads
  <2>5. \A d \in Client \ {c} : SameCall(d)
    BY <1>3 DEF EmptyBatch, TxnTypeOK, SameCall
  <2>6. TablesOf(disk) = Written(TablesOf(disk), asked[c])
    <3>1. asked[c] \in Request /\ (asked[c].op = "saveDeltas" => asked[c].patch # EmptyPatch)
      BY <2>1 DEF TxnTypeOK
    <3> QED
      BY <2>1, <3>1, PutIsWritten
  <2>7. /\ AbsView' = [AbsView EXCEPT ![c] = NoTables]
        /\ AbsOutcome' = [AbsOutcome EXCEPT ![c] = "ok"]
    BY <2>3, <2>4, <2>5, AbsOfOthers
  <2>8. AbsView' = AbsView /\ AbsOutcome[c] = "called"
    BY <2>3, <2>4, <2>7 DEF AbsView, AbsOutcome
  <2> QED
    BY <2>1, <2>2, <2>6, <2>7, <2>8, SameCalls DEF Atomic!Write, AbsView, AbsOutcome
<1>4. ASSUME NEW c \in Client, BeginRo(c) PROVE Atomic!Look(c)
  <2>1. /\ asked' = asked /\ at'[c] = "items" /\ result' = result /\ at[c] = "begin"
        /\ Reads(c) /\ snap'[c] = disk /\ disk' = disk
    BY <1>4 DEF BeginRo, TxnTypeOK
  <2>2. result[c] = "none" /\ asked[c].op \in ReadOps
    BY <2>1 DEF TxnInv, CallInv, Reads
  <2>3. Outcome(c) = "called" /\ Outcome(c)' = "looked"
    BY <2>1, <2>2 DEF Outcome, Reads
  <2>4. View(c)' = Read(TablesOf(disk), asked[c])
    BY <2>1, <2>2 DEF View, Reads
  <2>5. \A d \in Client \ {c} : SameCall(d)
    BY <1>4 DEF BeginRo, TxnTypeOK, SameCall
  <2>6. /\ AbsView' = [AbsView EXCEPT ![c] = Read(TablesOf(disk), asked[c])]
        /\ AbsOutcome' = [AbsOutcome EXCEPT ![c] = "looked"]
    BY <2>3, <2>4, <2>5, AbsOfOthers
  <2>7. AbsOutcome[c] = "called"
    BY <2>3 DEF AbsOutcome
  <2> QED
    BY <2>1, <2>2, <2>6, <2>7, SameCalls DEF Atomic!Look, AbsView, AbsOutcome
<1>5. ASSUME NEW c \in Client, BeginRw(c) PROVE UNCHANGED absVars
  <2>1. /\ asked' = asked /\ at'[c] = "items" /\ result' = result /\ at[c] = "begin"
        /\ ~Reads(c) /\ disk' = disk
    BY <1>5 DEF BeginRw, TxnTypeOK
  <2>2. result[c] = "none"
    BY <2>1 DEF TxnInv, CallInv
  <2>3. Outcome(c)' = Outcome(c) /\ View(c)' = View(c)
    BY <2>1, <2>2 DEF Outcome, View, Reads
  <2>4. \A d \in Client \ {c} : SameCall(d)
    BY <1>5 DEF BeginRw, TxnTypeOK, SameCall
  <2> QED
    BY <2>1, <2>3, <2>4, AbsStutters
<1>6. ASSUME NEW c \in Client, BeginFails(c) \/ ItemFails(c) PROVE Atomic!Fail(c)
  <2>1. /\ asked' = asked /\ at'[c] \in {"done", "drop"} /\ result'[c] = "error"
        /\ at[c] \in {"begin", "items"} /\ disk' = disk
    BY <1>6 DEF BeginFails, ItemFails, TxnTypeOK
  <2>2. result[c] = "none"
    BY <2>1 DEF TxnInv, CallInv
  <2>3. Outcome(c) \in {"called", "looked"} /\ Outcome(c)' = "error"
    BY <2>1, <2>2 DEF Outcome
  <2>4. View(c)' = NoTables
    BY <2>1 DEF View
  <2>5. \A d \in Client \ {c} : SameCall(d)
    BY <1>6 DEF BeginFails, ItemFails, TxnTypeOK, SameCall
  <2>6. /\ AbsView' = [AbsView EXCEPT ![c] = NoTables]
        /\ AbsOutcome' = [AbsOutcome EXCEPT ![c] = "error"]
    BY <2>3, <2>4, <2>5, AbsOfOthers
  <2>7. AbsOutcome[c] \in {"called", "looked"}
    BY <2>3 DEF AbsOutcome
  <2> QED
    BY <2>1, <2>6, <2>7, SameCalls DEF Atomic!Fail, AbsView, AbsOutcome
<1>7. ASSUME NEW c \in Client, GetNext(c) \/ PutNext(c) PROVE UNCHANGED absVars
  <2>1. /\ asked' = asked /\ at' = at /\ result' = result /\ at[c] = "items" /\ snap' = snap
        /\ disk' = disk
    BY <1>7 DEF GetNext, PutNext
  <2>2. Outcome(c)' = Outcome(c) /\ View(c)' = View(c)
    BY <2>1 DEF Outcome, View, Reads
  <2>3. \A d \in Client \ {c} : SameCall(d)
    BY <1>7 DEF GetNext, Get, PutNext, TxnTypeOK, SameCall
  <2> QED
    BY <2>1, <2>2, <2>3, AbsStutters
<1>8. ASSUME NEW c \in Client, AllRead(c) PROVE Atomic!Found(c)
  <2>1. /\ asked' = asked /\ at'[c] = "drop" /\ result'[c] = "ok" /\ seen' = seen
        /\ at[c] = "items" /\ Reads(c) /\ todo[c] = {} /\ disk' = disk
    BY <1>8 DEF AllRead, TxnTypeOK
  <2>2. result[c] = "none" /\ ReaderInv(c) /\ asked[c] \in Request
    BY <2>1 DEF TxnInv, CallInv, TxnTypeOK
  <2>3. Outcome(c) = "looked" /\ Outcome(c)' = "ok"
    BY <2>1, <2>2 DEF Outcome
  <2>4. TablesOf(seen[c]) = Read(TablesOf(snap[c]), asked[c])
    <3>1. \A k \in Key : seen[c][k] = IF k \in ReadKeys(asked[c]) THEN snap[c][k] ELSE Absent(k)
      BY <2>1, <2>2 DEF ReaderInv
    <3>2. asked[c].op \in ReadOps
      BY <2>1 DEF Reads
    <3> QED
      BY <2>2, <3>1, <3>2, GetIsRead
  <2>5. View(c)' = View(c)
    <3>1. View(c) = Read(TablesOf(snap[c]), asked[c])
      BY <2>1, <2>2 DEF View
    <3>2. View(c)' = TablesOf(seen[c])
      BY <2>1 DEF View, Reads
    <3> QED
      BY <2>4, <3>1, <3>2
  <2>6. \A d \in Client \ {c} : SameCall(d)
    BY <1>8 DEF AllRead, TxnTypeOK, SameCall
  <2>7. /\ AbsView' = [AbsView EXCEPT ![c] = View(c)]
        /\ AbsOutcome' = [AbsOutcome EXCEPT ![c] = "ok"]
    BY <2>3, <2>5, <2>6, AbsOfOthers
  <2>8. AbsView' = AbsView /\ AbsOutcome[c] = "looked"
    BY <2>3, <2>7 DEF AbsView, AbsOutcome
  <2> QED
    BY <2>1, <2>7, <2>8 DEF Atomic!Found, AbsView, AbsOutcome
<1>9. ASSUME NEW c \in Client, Commit(c) PROVE Atomic!Write(c) \/ Atomic!Fail(c)
  <2>1. PICK ok \in BOOLEAN :
            /\ disk' = IF ok THEN work ELSE disk
            /\ result' = [result EXCEPT ![c] = IF ok THEN "ok" ELSE "error"]
            /\ SetCommitted(c, ok)
    BY <1>9 DEF Commit
  <2>2. /\ asked' = asked /\ at'[c] = "drop" /\ at[c] = "items" /\ ~Reads(c) /\ todo[c] = {}
        /\ result'[c] = IF ok THEN "ok" ELSE "error"
    BY <1>9, <2>1 DEF Commit, TxnTypeOK
  <2>3. result[c] = "none" /\ WriterInv(c) /\ asked[c] \in Request
    BY <2>2 DEF TxnInv, CallInv, TxnTypeOK
  <2>4. asked[c].op \in WriteOps /\ (asked[c].op = "saveDeltas" => asked[c].patch # EmptyPatch)
    <3>1. asked[c].op \in ReadOps \cup WriteOps
      BY <2>3 DEF Request
    <3>2. asked[c] \in Asked \cup {Open}
      BY DEF TxnInv, CallInv
    <3> QED
      BY <2>2, <3>1, <3>2, AskedAreRequests DEF Reads
  <2>5. \A d \in Client \ {c} : SameCall(d)
    BY <1>9, <2>1 DEF Commit, SetCommitted, TxnTypeOK, SameCall
  <2>6. Outcome(c) = "called" /\ Outcome(c)' = IF ok THEN "ok" ELSE "error"
    BY <2>2, <2>3 DEF Outcome
  <2>7. View(c) = NoTables /\ View(c)' = NoTables
    BY <2>2 DEF View, Reads
  <2>8. /\ AbsView' = [AbsView EXCEPT ![c] = NoTables]
        /\ AbsOutcome' = [AbsOutcome EXCEPT ![c] = IF ok THEN "ok" ELSE "error"]
    BY <2>5, <2>6, <2>7, AbsOfOthers
  <2>9. AbsView' = AbsView /\ AbsOutcome[c] = "called"
    BY <2>6, <2>7, <2>8 DEF AbsView, AbsOutcome
  <2>10. CASE ok
    <3>1. TablesOf(disk)' = Written(TablesOf(disk), asked[c])
      <4>1. disk' = work
        BY <2>1, <2>10
      <4>2. \A k \in Key : work[k] = IF k \in WriteKeys(asked[c], disk)
                                     THEN NewRecord(asked[c], k) ELSE disk[k]
        BY <2>2, <2>3 DEF WriterInv
      <4>3. TablesOf(work) = Written(TablesOf(disk), asked[c])
        BY <2>3, <2>4, <4>2, PutIsWritten
      <4> QED
        BY <4>1, <4>3
    <3> QED
      BY <2>2, <2>4, <2>8, <2>9, <2>10, <3>1, SameCalls DEF Atomic!Write, AbsView, AbsOutcome
  <2>11. CASE ~ok
    <3>1. TablesOf(disk)' = TablesOf(disk)
      BY <2>1, <2>11
    <3> QED
      BY <2>2, <2>8, <2>9, <2>11, <3>1, SameCalls DEF Atomic!Fail, AbsView, AbsOutcome
  <2> QED
    BY <2>10, <2>11
<1>10. ASSUME NEW c \in Client, Drop(c) PROVE UNCHANGED absVars
  <2>1. /\ asked' = asked /\ at'[c] = "done" /\ result' = result /\ at[c] = "drop"
        /\ disk' = disk /\ seen' = seen
    BY <1>10 DEF Drop, TxnTypeOK
  <2>2. result[c] # "none"
    BY <2>1 DEF TxnInv, CallInv
  <2>3. Outcome(c)' = Outcome(c) /\ View(c)' = View(c)
    BY <2>1, <2>2 DEF Outcome, View, Reads
  <2>4. \A d \in Client \ {c} : SameCall(d)
    <3>1. \A d \in Client \ {c} : handle'[d] = handle[d]
      BY <1>10 DEF Drop, AbortUnlessCommitted, TxnTypeOK
    <3> QED
      BY <1>10, <2>1, <3>1 DEF Drop, TxnTypeOK, SameCall
  <2> QED
    BY <2>1, <2>3, <2>4, AbsStutters
<1>11. ASSUME NEW c \in Client, Return(c) PROVE Atomic!Return(c)
  <2>1. /\ asked' = [asked EXCEPT ![c] = Open] /\ at'[c] = "idle" /\ result'[c] = "none"
        /\ at[c] = "done" /\ asked'[c] = Open /\ disk' = disk
    BY <1>11 DEF Return, TxnTypeOK
  <2>2. result[c] \in {"ok", "error"}
    BY <2>1 DEF TxnInv, CallInv, TxnTypeOK
  <2>3. Outcome(c) \in {"ok", "error"} /\ Outcome(c)' = "idle"
    BY <2>1, <2>2 DEF Outcome
  <2>4. View(c)' = NoTables
    BY <2>1, AskedAreRequests DEF View, Reads
  <2>5. \A d \in Client \ {c} : SameCall(d)
    BY <1>11 DEF Return, TxnTypeOK, SameCall
  <2>6. /\ AbsView' = [AbsView EXCEPT ![c] = NoTables]
        /\ AbsOutcome' = [AbsOutcome EXCEPT ![c] = "idle"]
    BY <2>3, <2>4, <2>5, AbsOfOthers
  <2>7. AbsOutcome[c] \in {"ok", "error"}
    BY <2>3 DEF AbsOutcome
  <2> QED
    BY <2>1, <2>6, <2>7, SameCalls DEF Atomic!Return, AbsView, AbsOutcome
<1>12. CASE Die
  <2>1. ASSUME NEW c \in Client PROVE View(c)' = NoTables /\ Outcome(c)' = "idle"
    BY <1>12, AskedAreRequests DEF Die, View, Outcome, Reads
  <2>2. AbsView' = [c \in Client |-> NoTables] /\ AbsOutcome' = [c \in Client |-> "idle"]
    BY <2>1 DEF AbsView, AbsOutcome
  <2>3. Atomic!Die
    BY <1>12, <2>2, SameCalls DEF Die, Atomic!Die, AbsView, AbsOutcome
  <2> QED
    BY <2>3 DEF Atomic!Next
<1> QED
  BY <1>1, <1>2, <1>3, <1>4, <1>5, <1>6, <1>7, <1>8, <1>9, <1>10, <1>11, <1>12
     DEF TxnNext, Step, Atomic!Next

----------------------------------------------------------------------------
(* Theorems.                                                                 *)

LEMMA TxnInvariant == TxnSpec => [](TxnTypeOK /\ TxnInv)
<1>1. TxnInit => TxnTypeOK /\ TxnInv
  BY TxnTypeInit, TxnInvInit
<1>2. TxnTypeOK /\ TxnInv /\ [TxnNext]_mdbxVars => TxnTypeOK' /\ TxnInv'
  BY TxnTypeStep, TxnInvStep
<1> QED
  BY <1>1, <1>2, PTL DEF TxnSpec

\* Records stay in the table of their key, for any calls at the same time.
THEOREM TxnTypeCorrect == TxnSpec => []TxnTypeOK
BY TxnInvariant, PTL

\* A transaction is used until it is committed or aborted and not after, and the lock
\* goes with it: no early return of a call leaves the lock taken.
THEOREM TransactionsSound == TxnSpec => []HandlesSound
<1>1. TxnInv => HandlesSound
  BY DEF TxnInv, CallInv, HandlesSound
<1> QED
  BY <1>1, TxnInvariant, PTL

\* An address on record is never replaced by another, by any number of concurrent
\* saves of the same stem under different addresses.
THEOREM AddressesNeverChange == TxnSpec => AddressesStay
<1>1. ASSUME TxnTypeOK, TxnInv, [TxnNext]_mdbxVars
      PROVE  [\A k \in AddrKeys : disk[k] # NoAddress => disk'[k] = disk[k]]_mdbxVars
  <2>1. disk' = disk \/ \E c \in Client : Commit(c)
    BY <1>1 DEF TxnNext, Step, mdbxVars, lockVars, Call, EmptyBatch, BeginRo, BeginRw, BeginFails,
                GetNext, PutNext, ItemFails, AllRead, Drop, Return, Die
  <2>2. ASSUME NEW c \in Client, Commit(c), NEW k \in AddrKeys, disk[k] # NoAddress
        PROVE  disk'[k] = disk[k]
    <3>1. at[c] = "items" /\ ~Reads(c) /\ (disk' = work \/ disk' = disk)
      BY <2>2 DEF Commit
    <3>2. WriterInv(c)
      BY <1>1, <3>1 DEF TxnInv, CallInv
    <3> QED
      BY <2>2, <3>1, <3>2 DEF WriterInv
  <2> QED
    BY <2>1, <2>2
<1> QED
  BY <1>1, TxnInvariant, PTL DEF TxnSpec, AddressesStay

\* Every call of UbtDatabase, as a transaction that goes key by key and may fail at any
\* of them, implements the call that UbtExEx takes it for: one step, or none.
THEOREM CallsKeepPromise == TxnSpec => CallsAreAtomic
<1>1. TxnTypeOK /\ TxnInv /\ (TxnTypeOK /\ TxnInv)' /\ [TxnNext]_mdbxVars
        => [Atomic!Next]_<<TablesOf(disk), asked, [c \in Client |-> View(c)],
                           [c \in Client |-> Outcome(c)]>>
  BY AtomicStep DEF absVars, AbsDb, AbsView, AbsOutcome
<1> QED
  BY <1>1, AtomicInit, TxnInvariant, PTL DEF TxnSpec, CallsAreAtomic, Atomic!Spec
=============================================================================
