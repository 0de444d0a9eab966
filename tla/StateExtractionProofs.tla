----------------------- MODULE StateExtractionProofs -----------------------
(***************************************************************************)
(* Theorems of StateExtraction, for any accounts, codes, slots and number  *)
(* of blocks: the pipeline is a case of the loops of BlockDeltas, writes   *)
(* every leaf at most once per block, and keeps the leaves of the accounts *)
(* that exist.                                                             *)
(***************************************************************************)
EXTENDS StateExtraction, BlockDeltasProofs, FiniteSetTheorems

----------------------------------------------------------------------------
(* No two things of the state share a leaf.                                  *)

LEMMA TreeKeyInjective ==
    ASSUME NEW a, NEW b, NEW y, NEW z, NEW p \in Nat, NEW q \in Nat,
           TreeKey(a, y, p) = TreeKey(b, z, q)
    PROVE  a = b /\ y = z /\ p = q
<1>1. /\ <<a, y, p \div 256>> = <<b, z, q \div 256>>
      /\ p % 256 = q % 256
  BY DEF TreeKey
<1>2. a = b /\ y = z /\ p \div 256 = q \div 256
  BY <1>1
<1>3. ASSUME NEW n \in Nat PROVE n = 256 * (n \div 256) + (n % 256)
  BY Z3
<1> QED
  BY <1>1, <1>2, <1>3

LEMMA KeysDiffer ==
    ASSUME NEW a \in Account, NEW b \in Account
    PROVE  /\ BasicDataKey(a) # CodeHashKey(b)
           /\ \A n \in Nat \ {0} : CodeChunkKey(b, n) \notin {BasicDataKey(a), CodeHashKey(a)}
           /\ \A y \in Slot : StorageSlotKey(b, y) \notin {BasicDataKey(a), CodeHashKey(a)}
           /\ \A n \in Nat \ {0}, y \in Slot : CodeChunkKey(a, n) # StorageSlotKey(b, y)
           /\ a # b => /\ BasicDataKey(a) # BasicDataKey(b)
                       /\ CodeHashKey(a) # CodeHashKey(b)
           /\ \A m, n \in Nat \ {0} :
                CodeChunkKey(a, m) = CodeChunkKey(b, n) => a = b /\ m = n
           /\ \A x, y \in Slot :
                StorageSlotKey(a, x) = StorageSlotKey(b, y) => a = b /\ x = y
<1>1. \A p, q \in Nat :
        /\ TreeKey(a, "account", p) = TreeKey(b, "account", q) => a = b /\ p = q
        /\ TreeKey(a, "slots", p) = TreeKey(b, "slots", q) => a = b /\ p = q
        /\ TreeKey(a, "account", p) # TreeKey(b, "slots", q)
        /\ TreeKey(a, "slots", p) # TreeKey(b, "account", q)
  <2>1. "account" # "slots"
    OBVIOUS
  <2> QED
    BY <2>1, TreeKeyInjective
<1>2. \A y \in Slot : y \in Nat /\ 64 + y \in Nat
  BY ExtractionAssumption
<1>3. \A n \in Nat \ {0} : 127 + n \in Nat /\ 127 + n > 127
  OBVIOUS
<1>4. BasicDataKey(a) # CodeHashKey(b)
  BY <1>1 DEF BasicDataKey, CodeHashKey
<1>5. a # b => BasicDataKey(a) # BasicDataKey(b) /\ CodeHashKey(a) # CodeHashKey(b)
  BY <1>1 DEF BasicDataKey, CodeHashKey
<1>6. ASSUME NEW n \in Nat \ {0}
      PROVE  /\ CodeChunkKey(b, n) \notin {BasicDataKey(a), CodeHashKey(a)}
             /\ \A m \in Nat \ {0} :
                  CodeChunkKey(a, m) = CodeChunkKey(b, n) => a = b /\ m = n
  BY <1>1, <1>3 DEF BasicDataKey, CodeHashKey, CodeChunkKey
<1>7. ASSUME NEW y \in Slot
      PROVE  /\ StorageSlotKey(b, y) \notin {BasicDataKey(a), CodeHashKey(a)}
             /\ \A n \in Nat \ {0} : CodeChunkKey(a, n) # StorageSlotKey(b, y)
  BY <1>1, <1>2, <1>3 DEF BasicDataKey, CodeHashKey, CodeChunkKey, StorageSlotKey
<1>8. ASSUME NEW x \in Slot, NEW y \in Slot, StorageSlotKey(a, x) = StorageSlotKey(b, y)
      PROVE  a = b /\ x = y
  BY <1>1, <1>2, <1>8 DEF StorageSlotKey
<1> QED
  BY <1>4, <1>5, <1>6, <1>7, <1>8

----------------------------------------------------------------------------
(* Lists of entries: what they list, and that no leaf comes twice.           *)

LeafOf(e) == <<e.stem, e.subindex>>
Lists(es, e) == \E k \in 1 .. Len(es) : es[k] = e
NoLeafTwice(es) ==
    \A j, k \in 1 .. Len(es) : LeafOf(es[j]) = LeafOf(es[k]) => j = k

LEMMA EntryFacts ==
    ASSUME NEW key \in Stem \X SubIndex, NEW v \in Leaf
    PROVE  Entry(key, v) \in PendingEntry /\ LeafOf(Entry(key, v)) = key
BY DEF Entry, PendingEntry, LeafOf

LEMMA OneEntry ==
    ASSUME NEW e \in PendingEntry
    PROVE  /\ <<e>> \in Seq(PendingEntry) /\ NoLeafTwice(<<e>>)
           /\ \A d : Lists(<<e>>, d) <=> d = e
BY DEF NoLeafTwice, Lists

LEMMA NoEntries ==
    /\ <<>> \in Seq(PendingEntry) /\ NoLeafTwice(<<>>)
    /\ \A d : ~Lists(<<>>, d)
BY DEF NoLeafTwice, Lists

LEMMA ConcatLists ==
    ASSUME NEW s \in Seq(PendingEntry), NEW t \in Seq(PendingEntry)
    PROVE  /\ s \o t \in Seq(PendingEntry)
           /\ \A e : Lists(s \o t, e) <=> Lists(s, e) \/ Lists(t, e)
           /\ /\ NoLeafTwice(s) /\ NoLeafTwice(t)
              /\ \A d, e : Lists(s, d) /\ Lists(t, e) => LeafOf(d) # LeafOf(e)
              => NoLeafTwice(s \o t)
<1> DEFINE c == s \o t
<1>1. /\ c \in Seq(PendingEntry) /\ Len(c) = Len(s) + Len(t)
      /\ Len(s) \in Nat /\ Len(t) \in Nat
      /\ \A k \in 1 .. Len(s) + Len(t) : c[k] = IF k <= Len(s) THEN s[k] ELSE t[k - Len(s)]
  BY ConcatProperties, LenProperties
<1> HIDE DEF c
<1>2. ASSUME NEW k \in 1 .. Len(c)
      PROVE  \/ k \in 1 .. Len(s) /\ c[k] = s[k]
             \/ k - Len(s) \in 1 .. Len(t) /\ c[k] = t[k - Len(s)] /\ k > Len(s)
  BY <1>1
<1>3. ASSUME NEW e PROVE Lists(c, e) <=> Lists(s, e) \/ Lists(t, e)
  <2>1. ASSUME NEW k \in 1 .. Len(s) PROVE k \in 1 .. Len(c) /\ c[k] = s[k]
    BY <1>1
  <2>2. ASSUME NEW k \in 1 .. Len(t)
        PROVE  Len(s) + k \in 1 .. Len(c) /\ c[Len(s) + k] = t[k]
    <3>1. Len(s) + k \in 1 .. Len(s) + Len(t) /\ (Len(s) + k) - Len(s) = k
          /\ ~(Len(s) + k <= Len(s))
      BY <1>1
    <3> QED
      BY <1>1, <3>1
  <2> QED
    BY <1>2, <2>1, <2>2 DEF Lists
<1>4. ASSUME NoLeafTwice(s), NoLeafTwice(t),
             \A d, e : Lists(s, d) /\ Lists(t, e) => LeafOf(d) # LeafOf(e),
             NEW j \in 1 .. Len(c), NEW k \in 1 .. Len(c), LeafOf(c[j]) = LeafOf(c[k])
      PROVE  j = k
  <2>1. CASE j \in 1 .. Len(s) /\ k \in 1 .. Len(s)
    BY <1>1, <1>4, <2>1 DEF NoLeafTwice
  <2>2. CASE j > Len(s) /\ k > Len(s)
    <3>1. /\ j - Len(s) \in 1 .. Len(t) /\ c[j] = t[j - Len(s)]
          /\ k - Len(s) \in 1 .. Len(t) /\ c[k] = t[k - Len(s)]
      BY <1>1, <2>2
    <3>2. j - Len(s) = k - Len(s)
      BY <1>4, <3>1 DEF NoLeafTwice
    <3> QED
      BY <1>1, <3>2
  <2>3. ASSUME NEW h \in 1 .. Len(c), NEW l \in 1 .. Len(c),
               h \in 1 .. Len(s), l > Len(s)
        PROVE  LeafOf(c[h]) # LeafOf(c[l])
    <3>1. Lists(s, c[h])
      BY <1>1, <2>3 DEF Lists
    <3>2. l - Len(s) \in 1 .. Len(t) /\ c[l] = t[l - Len(s)]
      BY <1>1, <2>3
    <3>3. Lists(t, c[l])
      BY <3>2 DEF Lists
    <3> QED
      BY <1>4, <3>1, <3>3
  <2> QED
    BY <1>1, <1>2, <1>4, <2>1, <2>2, <2>3
<1> QED
  BY <1>1, <1>3, <1>4 DEF NoLeafTwice, c

----------------------------------------------------------------------------
(* What the node may do to an account in a block.                            *)

LEMMA NobodyType ==
    ASSUME NEW d \in BOOLEAN PROVE Nobody(d) \in AccountState
BY ExtractionAssumption DEF Nobody, AccountState

\* A block that leaves an account there leaves the slots that its bundle does not
\* list, and one whose code is not loaded leaves the code too.
LEMMA ChangeFacts ==
    ASSUME NEW x \in AccountState, NEW change \in Changes(x)
    PROVE  /\ change.loaded \in BOOLEAN /\ change.written \in SUBSET Slot
           /\ change.info = NoInfo => change.written = {}
           /\ change.info # NoInfo =>
                /\ change.info \in AccountState /\ change.info.alive
                /\ change.info.destroyed = x.destroyed
                /\ ~change.loaded => change.info.code = x.code
                /\ \A n \in Slot \ change.written : change.info.slots[n] = x.slots[n]
<1>1. CASE change \in Paid(x)
  <2>1. PICK b \in Balance :
            change = BundleAccount([x EXCEPT !.alive = TRUE, !.balance = b], FALSE, {})
    BY <1>1 DEF Paid
  <2>2. [x EXCEPT !.alive = TRUE, !.balance = b] \in AccountState
    BY DEF AccountState
  <2> QED
    BY <2>1, <2>2, LeavesAssumption DEF BundleAccount, AccountState
<1>2. CASE change \in Ran(x)
  <2>1. PICK c \in NextCodes(x), w \in [Slot -> SlotValue \cup {Zero}] :
            change = RunTo(x, c, w)
    BY <1>2 DEF Ran
  <2>2. c \in Code \cup {NoCode}
    BY ExtractionAssumption DEF NextCodes, AccountState
  <2>3. [x EXCEPT !.alive = TRUE, !.code = c, !.slots = w] \in AccountState
    BY <2>2 DEF AccountState
  <2> QED
    BY <2>1, <2>3, LeavesAssumption DEF RunTo, BundleAccount, AccountState
<1>3. CASE change \in Destroyed(x)
  <2>1. change = BundleAccount(NoInfo, FALSE, {})
    BY <1>3 DEF Destroyed
  <2> QED
    BY <2>1 DEF BundleAccount
<1> QED
  BY <1>1, <1>2, <1>3 DEF Changes

LEMMA AccountAfterType ==
    ASSUME NEW x \in AccountState, NEW change \in Changes(x)
    PROVE  AccountAfter(change) \in AccountState
BY ChangeFacts, NobodyType DEF AccountAfter

----------------------------------------------------------------------------
(* The entries of a block.                                                   *)

IsBasicEntry(a, change, e) == change.info # NoInfo /\ e = BasicEntry(a, change)
IsHashEntry(a, change, e) ==
    /\ change.info # NoInfo /\ change.info.code # NoCode
    /\ e = Entry(CodeHashKey(a), CodeHash(change.info.code))
IsChunkEntry(a, change, e) ==
    /\ change.info # NoInfo /\ change.info.code # NoCode /\ change.loaded
    /\ \E n \in 1 .. ChunkCount[change.info.code] :
        e = Entry(CodeChunkKey(a, n), CodeChunk(change.info.code, n))
IsSlotEntry(a, change, e) ==
    \E n \in change.written : e = Entry(StorageSlotKey(a, n), change.info.slots[n])

\* The entries of each kind, and the leaf they are for.
LEMMA KindFacts ==
    ASSUME NEW a \in Account, NEW x \in AccountState, NEW change \in Changes(x), NEW e
    PROVE  /\ IsBasicEntry(a, change, e) =>
                e \in PendingEntry /\ LeafOf(e) = BasicDataKey(a)
           /\ IsHashEntry(a, change, e) =>
                e \in PendingEntry /\ LeafOf(e) = CodeHashKey(a)
           /\ IsChunkEntry(a, change, e) =>
                e \in PendingEntry /\ \E n \in Nat \ {0} : LeafOf(e) = CodeChunkKey(a, n)
           /\ IsSlotEntry(a, change, e) =>
                e \in PendingEntry /\ \E n \in Slot : LeafOf(e) = StorageSlotKey(a, n)
<1> DEFINE info == change.info
<1>1. /\ change.written \subseteq Slot /\ change.loaded \in BOOLEAN
      /\ info = NoInfo => change.written = {}
      /\ info # NoInfo => info \in AccountState
  BY ChangeFacts
<1>2. info # NoInfo => /\ info.balance \in Nat /\ info.balance \in Balance
                       /\ info.code \in Code \cup {NoCode}
                       /\ info.slots \in [Slot -> Leaf]
  BY <1>1, ExtractionAssumption DEF AccountState, Leaf
<1>3. ASSUME IsBasicEntry(a, change, e)
      PROVE  e \in PendingEntry /\ LeafOf(e) = BasicDataKey(a)
  <2>1. BalanceToU128(info.balance) \in 0 .. MaxU128
    BY <1>2, <1>3, ExtractionAssumption DEF BalanceToU128, IsBasicEntry
  <2>2. BasicData(BalanceToU128(info.balance),
                  IF change.loaded THEN SizeOf(info.code) ELSE 0) \in Leaf
    BY <1>2, <1>3, <2>1, LeavesAssumption DEF IsBasicEntry
  <2>3. BasicDataKey(a) \in Stem \X SubIndex
    BY LeavesAssumption
  <2> QED
    BY <1>3, <2>2, <2>3, EntryFacts DEF IsBasicEntry, BasicEntry
<1>4. ASSUME IsHashEntry(a, change, e)
      PROVE  e \in PendingEntry /\ LeafOf(e) = CodeHashKey(a)
  <2>1. CodeHashKey(a) \in Stem \X SubIndex /\ CodeHash(info.code) \in Leaf
    BY <1>2, <1>4, LeavesAssumption DEF IsHashEntry
  <2> QED
    BY <1>4, <2>1, EntryFacts DEF IsHashEntry
<1>5. ASSUME IsChunkEntry(a, change, e)
      PROVE  e \in PendingEntry /\ \E n \in Nat \ {0} : LeafOf(e) = CodeChunkKey(a, n)
  <2>1. info.code \in Code /\ ChunkCount[info.code] \in Nat
    BY <1>2, <1>5, ExtractionAssumption DEF IsChunkEntry
  <2>2. PICK n \in 1 .. ChunkCount[info.code] :
            e = Entry(CodeChunkKey(a, n), CodeChunk(info.code, n))
    BY <1>5 DEF IsChunkEntry
  <2>3. CodeChunkKey(a, n) \in Stem \X SubIndex /\ CodeChunk(info.code, n) \in Leaf
    BY <2>1, LeavesAssumption
  <2> QED
    BY <2>1, <2>2, <2>3, EntryFacts
<1>6. ASSUME IsSlotEntry(a, change, e)
      PROVE  e \in PendingEntry /\ \E n \in Slot : LeafOf(e) = StorageSlotKey(a, n)
  <2>1. PICK n \in change.written : e = Entry(StorageSlotKey(a, n), info.slots[n])
    BY <1>6 DEF IsSlotEntry
  <2>2. n \in Slot /\ StorageSlotKey(a, n) \in Stem \X SubIndex /\ info.slots[n] \in Leaf
    BY <1>1, <1>2, LeavesAssumption
  <2> QED
    BY <2>1, <2>2, EntryFacts
<1> QED
  BY <1>3, <1>4, <1>5, <1>6

\* The chunks of a code that came along, one entry each.
LEMMA ChunkEntriesFacts ==
    ASSUME NEW a \in Account, NEW x \in AccountState, NEW change \in Changes(x),
           change.info # NoInfo, change.info.code # NoCode
    PROVE  /\ ChunkEntries(a, change) \in Seq(PendingEntry)
           /\ NoLeafTwice(ChunkEntries(a, change))
           /\ \A e : Lists(ChunkEntries(a, change), e) <=> IsChunkEntry(a, change, e)
<1> DEFINE c == change.info.code
           es == ChunkEntries(a, change)
           E(n) == Entry(CodeChunkKey(a, n), CodeChunk(c, n))
<1>1. change.info \in AccountState /\ change.loaded \in BOOLEAN
  BY ChangeFacts
<1>2. c \in Code /\ ChunkCount[c] \in Nat /\ SizeOf(c) = ChunkCount[c]
  BY <1>1, ExtractionAssumption DEF AccountState, SizeOf
<1>3. CASE ~change.loaded
  BY <1>3, NoEntries DEF ChunkEntries, IsChunkEntry
<1>4. CASE change.loaded
  <2>1. es = [n \in 1 .. ChunkCount[c] |-> E(n)]
    BY <1>2, <1>4 DEF ChunkEntries
  <2>2. ASSUME NEW n \in 1 .. ChunkCount[c]
        PROVE  E(n) \in PendingEntry /\ LeafOf(E(n)) = CodeChunkKey(a, n) /\ n \in Nat \ {0}
    <3>1. CodeChunkKey(a, n) \in Stem \X SubIndex /\ CodeChunk(c, n) \in Leaf
      BY <1>2, LeavesAssumption
    <3> QED
      BY <1>2, <3>1, EntryFacts
  <2> HIDE DEF E
  <2>3. es \in Seq(PendingEntry) /\ Len(es) = ChunkCount[c]
        /\ \A n \in 1 .. ChunkCount[c] : es[n] = E(n)
    BY <1>2, <2>1, <2>2
  <2>4. NoLeafTwice(es)
    <3>1. SUFFICES ASSUME NEW j \in 1 .. ChunkCount[c], NEW k \in 1 .. ChunkCount[c],
                          LeafOf(E(j)) = LeafOf(E(k))
                   PROVE  j = k
      BY <2>3 DEF NoLeafTwice
    <3>2. TreeKey(a, "account", 127 + j) = TreeKey(a, "account", 127 + k)
      BY <2>2, <3>1 DEF CodeChunkKey
    <3>3. 127 + j \in Nat /\ 127 + k \in Nat
      BY <2>2
    <3>4. 127 + j = 127 + k
      BY <3>2, <3>3, TreeKeyInjective
    <3> QED
      BY <2>2, <3>4
  <2>5. ASSUME NEW e PROVE Lists(es, e) <=> IsChunkEntry(a, change, e)
    BY <1>4, <2>3 DEF Lists, IsChunkEntry, E
  <2> QED
    BY <2>3, <2>4, <2>5
<1> QED
  BY <1>1, <1>3, <1>4

\* The slots of the bundle, one entry each, in any order.
LEMMA SlotEntriesFacts ==
    ASSUME NEW a \in Account, NEW x \in AccountState, NEW change \in Changes(x),
           NEW order \in Orders(change.written)
    PROVE  /\ SlotEntries(a, change, order) \in Seq(PendingEntry)
           /\ NoLeafTwice(SlotEntries(a, change, order))
           /\ \A e : Lists(SlotEntries(a, change, order), e) <=> IsSlotEntry(a, change, e)
<1> DEFINE W == change.written
           N == Cardinality(W)
           es == SlotEntries(a, change, order)
           E(n) == Entry(StorageSlotKey(a, n), change.info.slots[n])
<1>1. W \subseteq Slot /\ N \in Nat
  <2>1. W \subseteq Slot
    BY ChangeFacts
  <2>2. IsFiniteSet(W)
    BY <2>1, ExtractionAssumption, FS_Subset
  <2> QED
    BY <2>1, <2>2, FS_CardinalityType
<1>2. /\ order \in [1 .. N -> W]
      /\ \A n \in W : \E k \in 1 .. N : \A j \in 1 .. N : order[j] = n <=> j = k
  <2> HIDE DEF N, W
  <2>1. /\ order \in [1 .. N -> W]
        /\ \A n \in W : \E k \in DOMAIN order : \A j \in DOMAIN order : order[j] = n <=> j = k
    BY DEF Orders, N, W
  <2>2. DOMAIN order = 1 .. N
    BY <2>1
  <2> QED
    BY <2>1, <2>2
<1>3. ASSUME NEW n \in W
      PROVE  E(n) \in PendingEntry /\ LeafOf(E(n)) = StorageSlotKey(a, n)
  <2>1. IsSlotEntry(a, change, E(n))
    BY DEF IsSlotEntry
  <2>2. StorageSlotKey(a, n) \in Stem \X SubIndex
    BY <1>1, LeavesAssumption
  <2> QED
    BY <2>1, <2>2, KindFacts DEF LeafOf, Entry
<1>4. Len(order) = N
  BY <1>1, <1>2
<1> HIDE DEF N, W
<1>5. es = [k \in 1 .. N |-> E(order[k])]
  BY <1>4 DEF SlotEntries
<1> HIDE DEF E, es
<1>6. /\ es \in Seq(PendingEntry) /\ Len(es) = N
      /\ \A k \in 1 .. N : es[k] = E(order[k]) /\ order[k] \in W
  BY <1>1, <1>2, <1>3, <1>5
<1>7. NoLeafTwice(es)
  <2>1. SUFFICES ASSUME NEW j \in 1 .. N, NEW k \in 1 .. N,
                        LeafOf(E(order[j])) = LeafOf(E(order[k]))
                 PROVE  j = k
    BY <1>6 DEF NoLeafTwice
  <2>2. StorageSlotKey(a, order[j]) = StorageSlotKey(a, order[k])
    BY <1>3, <1>6, <2>1
  <2>3. order[j] = order[k]
    BY <1>1, <1>6, <2>2, KeysDiffer
  <2> QED
    BY <1>2, <1>6, <2>3
<1>8. ASSUME NEW e PROVE Lists(es, e) <=> IsSlotEntry(a, change, e)
  <2>1. Lists(es, e) <=> \E k \in 1 .. N : e = E(order[k])
    BY <1>6 DEF Lists
  <2>2. (\E k \in 1 .. N : e = E(order[k])) <=> \E n \in W : e = E(n)
    BY <1>2, <1>6
  <2> QED
    BY <2>1, <2>2 DEF IsSlotEntry, E, W
<1> QED
  BY <1>6, <1>7, <1>8 DEF es

IsEntryOf(a, change, e) ==
    \/ IsBasicEntry(a, change, e) \/ IsHashEntry(a, change, e)
    \/ IsChunkEntry(a, change, e) \/ IsSlotEntry(a, change, e)

\* process_chain has an entry for every leaf that the bundle says changed, and none
\* of them for the same leaf.
LEMMA ExtractedFacts ==
    ASSUME NEW a \in Account, NEW x \in AccountState, NEW change \in Changes(x),
           NEW order \in Orders(change.written)
    PROVE  /\ ExtractedEntries(a, change, order) \in Seq(PendingEntry)
           /\ NoLeafTwice(ExtractedEntries(a, change, order))
           /\ \A e : Lists(ExtractedEntries(a, change, order), e)
                      <=> IsEntryOf(a, change, e)
<1> DEFINE basic == <<BasicEntry(a, change)>>
           hash == <<Entry(CodeHashKey(a), CodeHash(change.info.code))>>
           chunks == ChunkEntries(a, change)
           code == CodeEntries(a, change)
           info == InfoEntries(a, change)
           slots == SlotEntries(a, change, order)
<1>1. ASSUME NEW d, NEW e
      PROVE  /\ IsHashEntry(a, change, d) /\ IsChunkEntry(a, change, e)
                => LeafOf(d) # LeafOf(e)
             /\ IsBasicEntry(a, change, d)
                /\ (IsHashEntry(a, change, e) \/ IsChunkEntry(a, change, e))
                => LeafOf(d) # LeafOf(e)
             /\ (\/ IsBasicEntry(a, change, d) \/ IsHashEntry(a, change, d)
                 \/ IsChunkEntry(a, change, d)) /\ IsSlotEntry(a, change, e)
                => LeafOf(d) # LeafOf(e)
  BY KindFacts, KeysDiffer
<1>2. ASSUME change.info # NoInfo
      PROVE  /\ code \in Seq(PendingEntry) /\ NoLeafTwice(code)
             /\ \A e : Lists(code, e) <=> \/ IsHashEntry(a, change, e)
                                         \/ IsChunkEntry(a, change, e)
  <2>1. CASE change.info.code = NoCode
    BY <2>1, NoEntries DEF CodeEntries, IsHashEntry, IsChunkEntry
  <2>2. CASE change.info.code # NoCode
    <3>1. /\ hash \in Seq(PendingEntry) /\ NoLeafTwice(hash)
          /\ \A e : Lists(hash, e) <=> IsHashEntry(a, change, e)
      <4> DEFINE h == Entry(CodeHashKey(a), CodeHash(change.info.code))
      <4>1. \A e : IsHashEntry(a, change, e) <=> e = h
        BY <1>2, <2>2 DEF IsHashEntry
      <4>2. h \in PendingEntry
        BY <4>1, KindFacts
      <4> QED
        BY <4>1, <4>2, OneEntry
    <3>2. /\ chunks \in Seq(PendingEntry) /\ NoLeafTwice(chunks)
          /\ \A e : Lists(chunks, e) <=> IsChunkEntry(a, change, e)
      BY <1>2, <2>2, ChunkEntriesFacts
    <3>3. code = hash \o chunks
      BY <2>2 DEF CodeEntries
    <3> HIDE DEF hash, chunks, code
    <3> QED
      BY <1>1, <3>1, <3>2, <3>3, ConcatLists
  <2> QED
    BY <2>1, <2>2
<1>3. /\ info \in Seq(PendingEntry) /\ NoLeafTwice(info)
      /\ \A e : Lists(info, e) <=> \/ IsBasicEntry(a, change, e) \/ IsHashEntry(a, change, e)
                                  \/ IsChunkEntry(a, change, e)
  <2>1. CASE change.info = NoInfo
    BY <2>1, NoEntries DEF InfoEntries, IsBasicEntry, IsHashEntry, IsChunkEntry
  <2>2. CASE change.info # NoInfo
    <3>1. /\ basic \in Seq(PendingEntry) /\ NoLeafTwice(basic)
          /\ \A e : Lists(basic, e) <=> IsBasicEntry(a, change, e)
      <4>1. \A e : IsBasicEntry(a, change, e) <=> e = BasicEntry(a, change)
        BY <2>2 DEF IsBasicEntry
      <4>2. BasicEntry(a, change) \in PendingEntry
        BY <4>1, KindFacts
      <4> QED
        BY <4>1, <4>2, OneEntry
    <3>2. info = basic \o code
      BY <2>2 DEF InfoEntries
    <3> HIDE DEF basic, code, info
    <3> QED
      BY <1>1, <1>2, <2>2, <3>1, <3>2, ConcatLists
  <2> QED
    BY <2>1, <2>2
<1>4. /\ slots \in Seq(PendingEntry) /\ NoLeafTwice(slots)
      /\ \A e : Lists(slots, e) <=> IsSlotEntry(a, change, e)
  BY SlotEntriesFacts
<1>5. ExtractedEntries(a, change, order) = info \o slots
  BY DEF ExtractedEntries
<1> HIDE DEF info, slots
<1> QED
  BY <1>1, <1>3, <1>4, <1>5, ConcatLists DEF IsEntryOf

----------------------------------------------------------------------------
(* The pipeline is a case of the loops of BlockDeltas.                       *)

\* An account that does not exist has no code.
World == {w \in [Account -> AccountState] :
            \A a \in Account : ~w[a].alive => w[a].code = NoCode}

\* There are accounts to go back to for every state of the tree to go back to.
WorldInv ==
    /\ world \in World /\ worlds \in Seq(World)
    /\ Len(worlds) = Len(before) - (IF phase = "revert" THEN 1 ELSE 0)

LEMMA WorldAfter ==
    ASSUME NEW w \in World, NEW a \in Account, NEW change \in Changes(w[a])
    PROVE  [w EXCEPT ![a] = AccountAfter(change)] \in World
<1>1. w[a] \in AccountState
  BY DEF World
<1>2. AccountAfter(change) \in AccountState
  BY <1>1, AccountAfterType
<1>3. ~AccountAfter(change).alive => AccountAfter(change).code = NoCode
  BY <1>1, ChangeFacts DEF AccountAfter, Nobody
<1> QED
  BY <1>2, <1>3 DEF World

\* The entries of a block that makes the accounts v of w.
IsBlock(es, w, v) ==
    \E a \in Account : \E change \in Changes(w[a]) : \E order \in Orders(change.written) :
        /\ es = ExtractedEntries(a, change, order)
        /\ v = [w EXCEPT ![a] = AccountAfter(change)]

LEMMA BlockFacts ==
    ASSUME NEW w \in World, NEW v, NEW es, IsBlock(es, w, v)
    PROVE  v \in World /\ es \in Seq(PendingEntry) /\ NoLeafTwice(es)
<1>1. PICK a \in Account : \E change \in Changes(w[a]) : \E order \in Orders(change.written) :
        es = ExtractedEntries(a, change, order) /\ v = [w EXCEPT ![a] = AccountAfter(change)]
  BY DEF IsBlock
<1>2. PICK change \in Changes(w[a]) : \E order \in Orders(change.written) :
        es = ExtractedEntries(a, change, order) /\ v = [w EXCEPT ![a] = AccountAfter(change)]
  BY <1>1
<1>3. w[a] \in AccountState
  BY DEF World
<1>4. PICK order \in Orders(change.written) : es = ExtractedEntries(a, change, order)
  BY <1>2
<1>5. es \in Seq(PendingEntry) /\ NoLeafTwice(es)
  BY <1>3, <1>4, ExtractedFacts
<1>6. v \in World
  BY <1>2, WorldAfter
<1> QED
  BY <1>5, <1>6

LEMMA CommittedBlock ==
    ASSUME ChainCommitted
    PROVE  \E es : /\ BeginCommit(es) /\ IsBlock(es, world, world')
                   /\ worlds' = Append(worlds, world)
BY DEF ChainCommitted, IsBlock

LEMMA PipelineInitWorld == PipelineInit => WorldInv
<1>1. [a \in Account |-> Nobody(FALSE)] \in World
  BY NobodyType DEF World, Nobody
<1> QED
  BY <1>1 DEF PipelineInit, LoopInit, WorldInv

LEMMA PipelineIsLoopStep ==
    ASSUME WorldInv, [PipelineNext]_pipelineVars PROVE [LoopNext]_loopVars
<1>1. CASE ChainCommitted
  <2>1. PICK es : BeginCommit(es) /\ IsBlock(es, world, world')
    BY <1>1, CommittedBlock
  <2> QED
    BY <2>1, BlockFacts DEF WorldInv, LoopNext
<1>2. CASE ChainReverted \/ OldestForgotten
  BY <1>2 DEF ChainReverted, OldestForgotten, LoopNext, LoopStep
<1>3. CASE CommitEntry \/ EndCommit \/ Flush \/ RevertDelta \/ EndRevert
  BY <1>3 DEF LoopNext, LoopStep
<1>4. CASE UNCHANGED pipelineVars
  BY <1>4 DEF pipelineVars
<1> QED
  BY <1>1, <1>2, <1>3, <1>4 DEF PipelineNext

LEMMA WorldInvStep ==
    ASSUME LoopTypeOK, Counted, WorldInv, [PipelineNext]_pipelineVars PROVE WorldInv'
<1>t. /\ before \in Seq(State) /\ Len(before) \in Nat /\ saved \in Seq(Seq(DeltaRecord))
      /\ world \in World /\ worlds \in Seq(World) /\ Len(worlds) \in Nat
  BY LenProperties DEF LoopTypeOK, WorldInv
<1>1. CASE ChainCommitted
  <2>1. PICK es : /\ BeginCommit(es) /\ IsBlock(es, world, world')
                  /\ worlds' = Append(worlds, world)
    BY <1>1, CommittedBlock
  <2>2. phase = "idle" /\ phase' = "commit" /\ before' = Append(before, Shown)
    BY <2>1 DEF BeginCommit
  <2>3. Len(before') = Len(before) + 1
    BY <1>t, <2>2, ShownType, AppendFacts
  <2>4. worlds' \in Seq(World) /\ Len(worlds') = Len(worlds) + 1
    BY <1>t, <2>1, AppendFacts
  <2>5. world' \in World
    BY <1>t, <2>1, BlockFacts
  <2> QED
    BY <1>t, <2>2, <2>3, <2>4, <2>5 DEF WorldInv
<1>2. CASE ChainReverted
  <2>1. /\ phase = "idle" /\ phase' = "revert" /\ before' = before /\ before # <<>>
        /\ world' = LastOf(worlds) /\ worlds' = FrontOf(worlds)
    BY <1>2, BeforeNotEmpty DEF ChainReverted, BeginRevert
  <2>2. worlds # <<>>
    BY <1>t, <2>1, EmptySeq DEF WorldInv
  <2>3. world' \in World /\ worlds' \in Seq(World) /\ Len(worlds') = Len(worlds) - 1
    BY <1>t, <2>1, <2>2, FrontFacts
  <2> QED
    BY <1>t, <2>1, <2>3 DEF WorldInv
<1>3. CASE OldestForgotten
  <2>1. /\ phase = "idle" /\ phase' = phase /\ before' = Tail(before) /\ before # <<>>
        /\ world' = world /\ worlds' = Tail(worlds)
    BY <1>3, BeforeNotEmpty DEF OldestForgotten, Forget
  <2>2. worlds # <<>>
    BY <1>t, <2>1, EmptySeq DEF WorldInv
  <2>3. worlds' \in Seq(World) /\ Len(worlds') = Len(worlds) - 1
    BY <1>t, <2>1, <2>2, TailFacts
  <2>4. Len(before') = Len(before) - 1
    BY <1>t, <2>1, TailFacts
  <2> QED
    BY <1>t, <2>1, <2>3, <2>4 DEF WorldInv
<1>4. CASE EndRevert /\ UNCHANGED <<world, worlds>>
  <2>1. /\ phase = "revert" /\ phase' = "idle" /\ before' = FrontOf(before) /\ before # <<>>
    BY <1>4, BeforeNotEmpty DEF EndRevert
  <2>2. Len(before') = Len(before) - 1
    BY <1>t, <2>1, FrontFacts
  <2> QED
    BY <1>t, <1>4, <2>1, <2>2 DEF WorldInv
<1>5. CASE (CommitEntry \/ EndCommit \/ Flush \/ RevertDelta) /\ UNCHANGED <<world, worlds>>
  BY <1>5 DEF CommitEntry, EndCommit, Flush, RevertDelta, WorldInv
<1>6. CASE UNCHANGED pipelineVars
  BY <1>6 DEF pipelineVars, loopVars, WorldInv
<1> QED
  BY <1>1, <1>2, <1>3, <1>4, <1>5, <1>6 DEF PipelineNext

\* From bundles to leaves and back, every step is one of the loops of BlockDeltas:
\* what is proved of those for any entries holds of the entries of process_chain.
THEOREM PipelineIsLoop == PipelineSpec => LoopSpec
<1>1. PipelineInit => LoopInit /\ LoopTypeOK /\ Counted /\ WorldInv
  BY LoopInitType, LoopInitCounted, PipelineInitWorld DEF PipelineInit
<1>2. LoopTypeOK /\ Counted /\ WorldInv /\ [PipelineNext]_pipelineVars
        => [LoopNext]_loopVars /\ LoopTypeOK' /\ Counted' /\ WorldInv'
  BY PipelineIsLoopStep, LoopStepType, WorldInvStep
<1> QED
  BY <1>1, <1>2, PTL DEF PipelineSpec, LoopSpec

\* So a block of bundles is applied at once and undone exactly, and its loop leaves
\* the value of the last entry in every leaf.
THEOREM PipelineKeepsPromise ==
    PipelineSpec => KeepsPromise /\ []LastWriteWins /\ []LoopTypeOK
BY PipelineIsLoop, LoopsKeepPromise, LastWriteWinsAlways, LoopTypeCorrect, PTL

----------------------------------------------------------------------------
(* The lists that are saved.                                                 *)

\* The list has one delta for a leaf that differs, with its value in A, and none
\* for any other leaf.
DeltasAre(ds, A, B) ==
    \A s \in Stem, i \in SubIndex :
        IF B[s][i] = A[s][i]
        THEN \A k \in 1 .. Len(ds) : ~IsFor(ds[k], s, i)
        ELSE \E k \in 1 .. Len(ds) :
                ds[k].old = A[s][i] /\ \A j \in 1 .. Len(ds) : IsFor(ds[j], s, i) <=> j = k

LEMMA DeltasAreUndo ==
    ASSUME NEW ds, NEW A \in State, NEW B \in State, DeltasAre(ds, A, B)
    PROVE  UndoPatch(ds) = Undo(A, B)
<1> DEFINE here(s, i) == {k \in 1 .. Len(ds) : IsFor(ds[k], s, i)}
           first(s, i) == CHOOSE k \in here(s, i) : \A j \in here(s, i) : k <= j
<1>1. ASSUME NEW s \in Stem, NEW i \in SubIndex
      PROVE  (IF here(s, i) = {} THEN NoWrite ELSE ds[first(s, i)].old) = Undo(A, B)[s][i]
  <2>1. A[s][i] \in Leaf /\ B[s][i] \in Leaf
    BY DEF State, Node
  <2>2. Undo(A, B)[s][i] = IF B[s][i] = A[s][i] THEN NoWrite ELSE A[s][i]
    BY <2>1, TreeAssumption DEF Undo
  <2>3. CASE B[s][i] = A[s][i]
    <3>1. here(s, i) = {}
      BY <2>3 DEF DeltasAre
    <3> QED
      BY <2>2, <2>3, <3>1
  <2>4. CASE B[s][i] # A[s][i]
    <3>1. PICK k \in 1 .. Len(ds) :
                ds[k].old = A[s][i] /\ \A j \in 1 .. Len(ds) : IsFor(ds[j], s, i) <=> j = k
      BY <2>4 DEF DeltasAre
    <3>2. here(s, i) = {k} /\ k <= k
      BY <3>1
    <3>3. first(s, i) = k
      BY <3>2
    <3> QED
      BY <2>2, <2>4, <3>1, <3>2, <3>3
  <2> QED
    BY <2>3, <2>4
<1>2. UndoPatch(ds) = [s \in Stem |-> [i \in SubIndex |->
            IF here(s, i) = {} THEN NoWrite ELSE ds[first(s, i)].old]]
  BY DEF UndoPatch
<1>3. Undo(A, B) = [s \in Stem |-> [i \in SubIndex |-> Undo(A, B)[s][i]]]
  BY DEF Undo
<1> HIDE DEF here, first
<1>4. [s \in Stem |-> [i \in SubIndex |->
            IF here(s, i) = {} THEN NoWrite ELSE ds[first(s, i)].old]]
        = [s \in Stem |-> [i \in SubIndex |-> Undo(A, B)[s][i]]]
  BY <1>1
<1> QED
  BY <1>2, <1>3, <1>4

LEMMA NoDeltas == ASSUME NEW A PROVE DeltasAre(<<>>, A, A)
BY DEF DeltasAre

SavedExact == \A k \in 1 .. Len(saved) : DeltasAre(saved[k], before[k], After(k))
ListExact ==
    phase = "commit" => NoLeafTwice(entries) /\ DeltasAre(deltas, LastOf(before), Shown)

LEMMA SavedExactGives ==
    ASSUME LoopTypeOK, Counted, SavedExact PROVE SavedIsUndo
<1>1. SUFFICES ASSUME phase = "idle", NEW k \in 1 .. Len(saved)
               PROVE  before[k] \in State /\ After(k) \in State
  BY DeltasAreUndo DEF SavedExact, SavedIsUndo
<1>2. /\ before \in Seq(State) /\ Len(before) = Len(saved) /\ Len(saved) \in Nat
      /\ Shown \in State
  BY <1>1, ShownType, LenProperties DEF LoopTypeOK, Counted
<1>3. k \in 1 .. Len(before) /\ (k < Len(before) => k + 1 \in 1 .. Len(before))
  BY <1>1, <1>2
<1> QED
  BY <1>2, <1>3, ElementOfSeq DEF After

\* An entry is written whose leaf is still as it was before the block.
LEMMA RecordExact ==
    ASSUME LoopTypeOK, WrittenSoFar, ListExact, CommitEntry
    PROVE  DeltasAre(deltas', LastOf(before), Shown')
<1> DEFINE e == entries[pos]
           A == LastOf(before)
           r == [stem |-> e.stem, subindex |-> e.subindex,
                 old |-> Shown[e.stem][e.subindex]]
<1>1. /\ e \in PendingEntry /\ e.stem \in Stem /\ e.subindex \in SubIndex
      /\ e.value \in Leaf
  BY EntryType DEF CommitEntry, PendingEntry
<1>2. \A t \in Stem, j \in SubIndex :
          Shown'[t][j] = IF t = e.stem /\ j = e.subindex THEN e.value ELSE Shown[t][j]
  BY <1>1, SetValueShown DEF CommitEntry
<1>3. /\ phase = "commit" /\ deltas' = WithDelta(e) /\ pos \in 1 .. Len(entries)
      /\ DeltasAre(deltas, A, Shown) /\ NoLeafTwice(entries)
  BY DEF CommitEntry, ListExact, LoopTypeOK
<1>4. Shown[e.stem][e.subindex] = A[e.stem][e.subindex]
  <2>1. ASSUME NEW k \in 1 .. pos - 1 PROVE ~IsFor(entries[k], e.stem, e.subindex)
    <3>1. k \in 1 .. Len(entries) /\ k # pos
      BY <1>3, LenProperties DEF LoopTypeOK
    <3> QED
      BY <1>3, <3>1 DEF NoLeafTwice, LeafOf, IsFor
  <2> QED
    BY <1>1, <1>3, <2>1 DEF WrittenSoFar
<1>5. CASE A[e.stem][e.subindex] = e.value
  <2>1. deltas' = deltas
    BY <1>3, <1>4, <1>5 DEF WithDelta
  <2>2. \A s \in Stem, i \in SubIndex : Shown'[s][i] = Shown[s][i]
    BY <1>2, <1>4, <1>5
  <2> QED
    BY <1>3, <2>1, <2>2 DEF DeltasAre
<1>6. CASE A[e.stem][e.subindex] # e.value
  <2>1. deltas' = Append(deltas, r)
    BY <1>3, <1>4, <1>6 DEF WithDelta
  <2>2. r \in DeltaRecord /\ deltas \in Seq(DeltaRecord)
    BY <1>1, ShownType DEF DeltaRecord, State, Node, LoopTypeOK
  <2> DEFINE n == Len(deltas)
  <2>3. /\ n \in Nat /\ Len(deltas') = n + 1 /\ deltas'[n + 1] = r
        /\ \A k \in 1 .. n : deltas'[k] = deltas[k]
    BY <2>1, <2>2, AppendFacts, LenProperties
  <2> HIDE DEF n
  <2>4. \A k \in 1 .. n + 1 : k \in 1 .. n \/ k = n + 1
    BY <2>3
  <2>5. ASSUME NEW s \in Stem, NEW i \in SubIndex, s = e.stem /\ i = e.subindex
        PROVE  /\ Shown'[s][i] # A[s][i] /\ n + 1 \in 1 .. n + 1
               /\ deltas'[n + 1].old = A[s][i]
               /\ \A j \in 1 .. n + 1 : IsFor(deltas'[j], s, i) <=> j = n + 1
    <3>1. Shown'[s][i] # A[s][i] /\ Shown[s][i] = A[s][i] /\ r.old = A[s][i]
          /\ IsFor(r, s, i)
      BY <1>2, <1>4, <1>6, <2>5 DEF IsFor
    <3>2. \A k \in 1 .. n : ~IsFor(deltas[k], s, i)
      BY <1>3, <3>1 DEF DeltasAre, n
    <3>3. n + 1 \in 1 .. n + 1 /\ n + 1 \notin 1 .. n
      BY <2>3
    <3> QED
      BY <2>3, <2>4, <3>1, <3>2, <3>3
  <2>6. ASSUME NEW s \in Stem, NEW i \in SubIndex, ~(s = e.stem /\ i = e.subindex)
        PROVE  IF Shown'[s][i] = A[s][i]
               THEN \A k \in 1 .. n + 1 : ~IsFor(deltas'[k], s, i)
               ELSE \E k \in 1 .. n + 1 :
                      /\ deltas'[k].old = A[s][i]
                      /\ \A j \in 1 .. n + 1 : IsFor(deltas'[j], s, i) <=> j = k
    <3>1. Shown'[s][i] = Shown[s][i] /\ ~IsFor(deltas'[n + 1], s, i)
      BY <1>2, <2>3, <2>6 DEF IsFor
    <3>2. CASE Shown[s][i] = A[s][i]
      <4>1. \A k \in 1 .. n : ~IsFor(deltas[k], s, i)
        BY <1>3, <3>2 DEF DeltasAre, n
      <4> QED
        BY <2>3, <2>4, <3>1, <3>2, <4>1
    <3>3. CASE Shown[s][i] # A[s][i]
      <4>1. PICK k \in 1 .. n :
                deltas[k].old = A[s][i] /\ \A j \in 1 .. n : IsFor(deltas[j], s, i) <=> j = k
        BY <1>3, <3>3 DEF DeltasAre, n
      <4>2. k \in 1 .. n + 1 /\ k # n + 1
        BY <2>3
      <4> QED
        BY <2>3, <2>4, <3>1, <3>3, <4>1, <4>2
    <3> QED
      BY <3>2, <3>3
  <2> QED
    BY <2>3, <2>5, <2>6 DEF DeltasAre
<1> QED
  BY <1>5, <1>6

LEMMA SavedExactStep ==
    ASSUME LoopInv, WrittenSoFar, WorldInv, SavedExact, ListExact,
           [PipelineNext]_pipelineVars
    PROVE  SavedExact' /\ ListExact'
<1>1. SavedExact'
  <2>1. ASSUME NEW k \in 1 .. Len(saved')
        PROVE  DeltasAre(saved'[k], before'[k], After(k)')
    <3>1. CASE \E m \in 1 .. Len(saved) :
                 saved'[k] = saved[m] /\ before'[k] = before[m] /\ After(k)' = After(m)
      BY <3>1 DEF SavedExact
    <3>2. CASE /\ EndCommit
               /\ saved'[k] = deltas /\ before'[k] = LastOf(before) /\ After(k)' = Shown
      BY <3>2 DEF EndCommit, ListExact
    <3> QED
      BY <3>1, <3>2, SavedComesFrom, PipelineIsLoopStep
  <2> QED
    BY <2>1 DEF SavedExact
<1>2. CASE ChainCommitted
  <2>1. PICK es : BeginCommit(es) /\ IsBlock(es, world, world')
    BY <1>2, CommittedBlock
  <2>2. NoLeafTwice(entries')
    BY <2>1, BlockFacts DEF BeginCommit, WorldInv
  <2>3. deltas' = <<>> /\ Shown' = Shown /\ LastOf(before') = Shown
    BY <2>1, ShownType, AppendFacts
       DEF BeginCommit, LoopInv, LoopTypeOK, ListLeadsBack, Shown
  <2> QED
    BY <1>1, <2>2, <2>3, NoDeltas DEF ListExact
<1>3. CASE CommitEntry
  <2>1. DeltasAre(deltas', LastOf(before), Shown')
    BY <1>3, RecordExact DEF LoopInv
  <2>2. entries' = entries /\ before' = before /\ phase = "commit"
    BY <1>3 DEF CommitEntry
  <2> QED
    BY <1>1, <2>1, <2>2 DEF ListExact
<1>4. CASE \/ EndCommit \/ Flush \/ RevertDelta \/ EndRevert
           \/ ChainReverted \/ OldestForgotten
  BY <1>1, <1>4 DEF EndCommit, Flush, RevertDelta, EndRevert, ChainReverted, BeginRevert,
                    OldestForgotten, Forget, ListExact
<1>5. CASE UNCHANGED pipelineVars
  <2>1. Shown' = Shown /\ LastOf(before') = LastOf(before)
    BY <1>5 DEF pipelineVars, loopVars, Shown, LastOf
  <2> QED
    BY <1>1, <1>5, <2>1 DEF pipelineVars, loopVars, ListExact
<1> QED
  BY <1>2, <1>3, <1>4, <1>5 DEF PipelineNext

PipelineInv == LoopInv /\ WrittenSoFar /\ WorldInv /\ SavedExact /\ ListExact

LEMMA PipelineInvInit == PipelineInit => PipelineInv
<1>1. PipelineInit => LoopInit /\ LoopInv /\ WorldInv
  BY LoopInvInit, PipelineInitWorld DEF PipelineInit
<1>2. LoopInit => WrittenSoFar /\ SavedExact /\ ListExact
  BY DEF LoopInit, WrittenSoFar, SavedExact, ListExact
<1> QED
  BY <1>1, <1>2 DEF PipelineInv

LEMMA PipelineInvStep ==
    ASSUME PipelineInv, [PipelineNext]_pipelineVars PROVE PipelineInv'
<1>1. [LoopNext]_loopVars /\ LoopTypeOK /\ Counted
  BY PipelineIsLoopStep DEF PipelineInv, LoopInv
<1> QED
  BY <1>1, LoopInvStep, WrittenSoFarStep, WorldInvStep, SavedExactStep DEF PipelineInv

\* One delta for every leaf that a block changed, with its value before the block,
\* in every list that is kept: what UbtExEx takes an undo record for.
THEOREM SavedAlwaysUndo == PipelineSpec => []SavedIsUndo
<1>1. PipelineInv => SavedIsUndo
  BY SavedExactGives DEF PipelineInv, LoopInv
<1>2. PipelineInv /\ [PipelineNext]_pipelineVars => PipelineInv'
  BY PipelineInvStep
<1> QED
  BY PipelineInvInit, <1>1, <1>2, PTL DEF PipelineSpec

----------------------------------------------------------------------------
(* The leaves of the accounts that exist.                                    *)

At(S, key) == S[key[1]][key[2]]

AccountShown(S, a, x) ==
    /\ x.alive => \E size \in {0, SizeOf(x.code)} :
                    At(S, BasicDataKey(a)) = BasicData(BalanceToU128(x.balance), size)
    /\ x.alive /\ x.code # NoCode =>
        /\ At(S, CodeHashKey(a)) = CodeHash(x.code)
        /\ \A n \in 1 .. ChunkCount[x.code] : At(S, CodeChunkKey(a, n)) = CodeChunk(x.code, n)
    /\ ~x.destroyed => \A n \in Slot : At(S, StorageSlotKey(a, n)) = x.slots[n]

WorldShown(S, w) == \A a \in Account : AccountShown(S, a, w[a])

\* The entries were written, and nothing else.
Wrote(es, S, T) ==
    /\ \A e : Lists(es, e) => At(T, LeafOf(e)) = e.value
    /\ \A key \in Stem \X SubIndex :
        (\A e : Lists(es, e) => LeafOf(e) # key) => At(T, key) = At(S, key)

\* The keys of an account that has this code.
LEMMA KeysInTree ==
    ASSUME NEW a \in Account
    PROVE  /\ BasicDataKey(a) \in Stem \X SubIndex /\ CodeHashKey(a) \in Stem \X SubIndex
           /\ \A c \in Code : \A n \in 1 .. ChunkCount[c] :
                CodeChunkKey(a, n) \in Stem \X SubIndex /\ n \in Nat \ {0}
           /\ \A n \in Slot : StorageSlotKey(a, n) \in Stem \X SubIndex
BY LeavesAssumption, ExtractionAssumption

\* A block on one account writes no leaf of another.
LEMMA OthersUntouched ==
    ASSUME NEW a \in Account, NEW b \in Account, a # b, NEW x \in AccountState,
           NEW change \in Changes(x), NEW e, IsEntryOf(a, change, e)
    PROVE  /\ LeafOf(e) # BasicDataKey(b) /\ LeafOf(e) # CodeHashKey(b)
           /\ \A n \in Nat \ {0} : LeafOf(e) # CodeChunkKey(b, n)
           /\ \A n \in Slot : LeafOf(e) # StorageSlotKey(b, n)
<1>1. \/ LeafOf(e) = BasicDataKey(a) \/ LeafOf(e) = CodeHashKey(a)
      \/ \E n \in Nat \ {0} : LeafOf(e) = CodeChunkKey(a, n)
      \/ \E n \in Slot : LeafOf(e) = StorageSlotKey(a, n)
  BY KindFacts DEF IsEntryOf
<1> QED
  BY <1>1, KeysDiffer

\* What a block writes makes the tree show the account as it is after the block.
LEMMA ChangeShown ==
    ASSUME NEW a \in Account, NEW x \in AccountState, ~x.alive => x.code = NoCode,
           NEW change \in Changes(x), NEW S, NEW T, NEW es,
           \A e : Lists(es, e) <=> IsEntryOf(a, change, e),
           Wrote(es, S, T), AccountShown(S, a, x)
    PROVE  AccountShown(T, a, AccountAfter(change))
<1> DEFINE info == change.info
           code == change.info.code
<1>1. CASE info = NoInfo
  BY <1>1 DEF AccountAfter, Nobody, AccountShown
<1>2. CASE info # NoInfo
  <2>1. /\ info \in AccountState /\ info.alive /\ info.destroyed = x.destroyed
        /\ change.loaded \in BOOLEAN /\ change.written \subseteq Slot
        /\ ~change.loaded => code = x.code
        /\ \A n \in Slot \ change.written : info.slots[n] = x.slots[n]
    BY <1>2, ChangeFacts
  <2>2. \A e : IsEntryOf(a, change, e) => At(T, LeafOf(e)) = e.value
    BY DEF Wrote
  <2>3. \A key \in Stem \X SubIndex :
          (\A e : IsEntryOf(a, change, e) => LeafOf(e) # key) => At(T, key) = At(S, key)
    BY DEF Wrote
  <2>4. \E size \in {0, SizeOf(code)} :
            At(T, BasicDataKey(a)) = BasicData(BalanceToU128(info.balance), size)
    <3>1. IsBasicEntry(a, change, BasicEntry(a, change))
      BY <1>2 DEF IsBasicEntry
    <3>2. At(T, BasicDataKey(a)) = BasicEntry(a, change).value
      BY <2>2, <3>1, KindFacts DEF IsEntryOf
    <3>3. BasicEntry(a, change).value =
            BasicData(BalanceToU128(info.balance), IF change.loaded THEN SizeOf(code) ELSE 0)
      BY DEF BasicEntry, Entry
    <3> QED
      BY <3>2, <3>3
  <2>5. code # NoCode => At(T, CodeHashKey(a)) = CodeHash(code)
    <3>1. SUFFICES ASSUME code # NoCode PROVE At(T, CodeHashKey(a)) = CodeHash(code)
      OBVIOUS
    <3> DEFINE h == Entry(CodeHashKey(a), CodeHash(code))
    <3>2. IsHashEntry(a, change, h) /\ h.value = CodeHash(code)
      BY <1>2, <3>1 DEF IsHashEntry, Entry
    <3> QED
      BY <2>2, <3>2, KindFacts DEF IsEntryOf
  <2>6. ASSUME code # NoCode, NEW n \in 1 .. ChunkCount[code]
        PROVE  At(T, CodeChunkKey(a, n)) = CodeChunk(code, n)
    <3>0. code \in Code /\ n \in Nat \ {0} /\ CodeChunkKey(a, n) \in Stem \X SubIndex
          /\ CodeChunk(code, n) \in Leaf
      BY <2>1, <2>6, KeysInTree, LeavesAssumption DEF AccountState
    <3>1. CASE change.loaded
      <4> DEFINE h == Entry(CodeChunkKey(a, n), CodeChunk(code, n))
      <4>1. IsChunkEntry(a, change, h)
        BY <1>2, <2>6, <3>1 DEF IsChunkEntry
      <4>2. LeafOf(h) = CodeChunkKey(a, n) /\ h.value = CodeChunk(code, n)
        BY <3>0, EntryFacts DEF Entry
      <4> QED
        BY <2>2, <4>1, <4>2 DEF IsEntryOf
    <3>2. CASE ~change.loaded
      <4>1. x.code = code /\ x.alive
        BY <2>1, <2>6, <3>2
      <4>2. At(S, CodeChunkKey(a, n)) = CodeChunk(code, n)
        BY <2>6, <4>1 DEF AccountShown
      <4>3. ASSUME NEW e, IsEntryOf(a, change, e) PROVE LeafOf(e) # CodeChunkKey(a, n)
        <5>1. ~IsChunkEntry(a, change, e)
          BY <3>2 DEF IsChunkEntry
        <5>2. \/ LeafOf(e) = BasicDataKey(a) \/ LeafOf(e) = CodeHashKey(a)
              \/ \E m \in Slot : LeafOf(e) = StorageSlotKey(a, m)
          BY <4>3, <5>1, KindFacts DEF IsEntryOf
        <5> QED
          BY <3>0, <5>2, KeysDiffer
      <4> QED
        BY <2>3, <3>0, <4>2, <4>3
    <3> QED
      BY <2>1, <3>1, <3>2
  <2>7. ASSUME ~info.destroyed, NEW n \in Slot
        PROVE  At(T, StorageSlotKey(a, n)) = info.slots[n]
    <3>0. StorageSlotKey(a, n) \in Stem \X SubIndex
      BY KeysInTree
    <3>1. CASE n \in change.written
      <4> DEFINE h == Entry(StorageSlotKey(a, n), info.slots[n])
      <4>1. IsSlotEntry(a, change, h)
        BY <3>1 DEF IsSlotEntry
      <4>2. LeafOf(h) = StorageSlotKey(a, n) /\ h.value = info.slots[n]
        BY <3>0 DEF Entry, LeafOf
      <4> QED
        BY <2>2, <4>1, <4>2 DEF IsEntryOf
    <3>2. CASE n \notin change.written
      <4>1. At(S, StorageSlotKey(a, n)) = info.slots[n]
        BY <2>1, <2>7, <3>2 DEF AccountShown
      <4>2. ASSUME NEW e, IsEntryOf(a, change, e) PROVE LeafOf(e) # StorageSlotKey(a, n)
        <5>1. CASE IsSlotEntry(a, change, e)
          <6>1. PICK m \in change.written : e = Entry(StorageSlotKey(a, m), info.slots[m])
            BY <5>1 DEF IsSlotEntry
          <6>2. m \in Slot /\ m # n /\ StorageSlotKey(a, m) \in Stem \X SubIndex
            BY <2>1, <3>2, KeysInTree
          <6>3. LeafOf(e) = StorageSlotKey(a, m)
            BY <6>1, <6>2 DEF Entry, LeafOf
          <6> QED
            BY <6>2, <6>3, KeysDiffer
        <5>2. CASE ~IsSlotEntry(a, change, e)
          <6>1. \/ LeafOf(e) = BasicDataKey(a) \/ LeafOf(e) = CodeHashKey(a)
                \/ \E m \in Nat \ {0} : LeafOf(e) = CodeChunkKey(a, m)
            BY <4>2, <5>2, KindFacts DEF IsEntryOf
          <6> QED
            BY <6>1, KeysDiffer
        <5> QED
          BY <5>1, <5>2
      <4> QED
        BY <2>3, <3>0, <4>1, <4>2
    <3> QED
      BY <3>1, <3>2
  <2> QED
    BY <1>2, <2>4, <2>5, <2>6, <2>7 DEF AccountAfter, AccountShown
<1> QED
  BY <1>1, <1>2

LEMMA BlockShown ==
    ASSUME NEW w \in World, NEW v, NEW es, IsBlock(es, w, v), NEW S, NEW T,
           Wrote(es, S, T), WorldShown(S, w)
    PROVE  WorldShown(T, v)
<1>1. PICK a \in Account : \E change \in Changes(w[a]) : \E order \in Orders(change.written) :
        es = ExtractedEntries(a, change, order) /\ v = [w EXCEPT ![a] = AccountAfter(change)]
  BY DEF IsBlock
<1>2. PICK change \in Changes(w[a]) : \E order \in Orders(change.written) :
        es = ExtractedEntries(a, change, order) /\ v = [w EXCEPT ![a] = AccountAfter(change)]
  BY <1>1
<1>3. w[a] \in AccountState /\ (~w[a].alive => w[a].code = NoCode)
  BY DEF World
<1>4. \A e : Lists(es, e) <=> IsEntryOf(a, change, e)
  BY <1>2, <1>3, ExtractedFacts
<1>5. v[a] = AccountAfter(change) /\ \A b \in Account \ {a} : v[b] = w[b]
  BY <1>2 DEF World
<1>6. AccountShown(T, a, v[a])
  BY <1>3, <1>4, <1>5, ChangeShown DEF WorldShown
<1>7. ASSUME NEW b \in Account, b # a PROVE AccountShown(T, b, v[b])
  <2>1. \A key \in Stem \X SubIndex :
            (\A e : IsEntryOf(a, change, e) => LeafOf(e) # key) => At(T, key) = At(S, key)
    BY <1>4 DEF Wrote
  <2>2. /\ At(T, BasicDataKey(b)) = At(S, BasicDataKey(b))
        /\ At(T, CodeHashKey(b)) = At(S, CodeHashKey(b))
        /\ \A c \in Code : \A n \in 1 .. ChunkCount[c] :
              At(T, CodeChunkKey(b, n)) = At(S, CodeChunkKey(b, n))
        /\ \A n \in Slot : At(T, StorageSlotKey(b, n)) = At(S, StorageSlotKey(b, n))
    BY <1>3, <1>7, <2>1, OthersUntouched, KeysInTree
  <2>3. AccountShown(S, b, w[b]) /\ v[b] = w[b] /\ w[b].code \in Code \cup {NoCode}
    BY <1>5, <1>7 DEF WorldShown, World, AccountState
  <2> QED
    BY <2>2, <2>3 DEF AccountShown
<1> QED
  BY <1>6, <1>7 DEF WorldShown

\* The loop of commit writes the entries of a list that has no leaf twice.
LEMMA LoopWrote ==
    ASSUME LoopTypeOK, WrittenSoFar, NoLeafTwice(entries),
           phase = "commit", pos > Len(entries)
    PROVE  Wrote(entries, LastOf(before), Shown)
<1>1. /\ LastWriteWins /\ entries \in Seq(PendingEntry) /\ Len(entries) \in Nat
      /\ \A k \in 1 .. Len(entries) : entries[k] \in PendingEntry
  BY WrittenSoFarGives, LenProperties, ElementOfSeq DEF LoopTypeOK
<1>2. ASSUME NEW e, Lists(entries, e) PROVE At(Shown, LeafOf(e)) = e.value
  <2>1. PICK k \in 1 .. Len(entries) : entries[k] = e
    BY <1>2 DEF Lists
  <2>2. e.stem \in Stem /\ e.subindex \in SubIndex
    BY <1>1, <2>1 DEF PendingEntry
  <2>3. \A j \in 1 .. Len(entries) : IsFor(entries[j], e.stem, e.subindex) <=> j = k
    BY <2>1 DEF NoLeafTwice, LeafOf, IsFor
  <2>4. Shown[e.stem][e.subindex] = e.value
    BY <1>1, <2>1, <2>2, <2>3 DEF LastWriteWins
  <2> QED
    BY <2>4 DEF At, LeafOf
<1>3. ASSUME NEW key \in Stem \X SubIndex, \A e : Lists(entries, e) => LeafOf(e) # key
      PROVE  At(Shown, key) = At(LastOf(before), key)
  <2>1. key[1] \in Stem /\ key[2] \in SubIndex /\ key = <<key[1], key[2]>>
    OBVIOUS
  <2>2. \A k \in 1 .. Len(entries) : ~IsFor(entries[k], key[1], key[2])
    BY <1>3, <2>1 DEF Lists, LeafOf, IsFor
  <2>3. Shown[key[1]][key[2]] = LastOf(before)[key[1]][key[2]]
    BY <1>1, <2>1, <2>2 DEF LastWriteWins
  <2> QED
    BY <2>3 DEF At
<1> QED
  BY <1>2, <1>3 DEF Wrote

\* The tree shows the accounts: before each block that can be unwound, between two
\* notifications, and when the unwinding at work is done.  While a block is being
\* committed, its entries are those of the accounts there will be.
PastShown == \A k \in 1 .. Len(worlds) : WorldShown(before[k], worlds[k])
NowShown ==
    /\ phase = "idle" => WorldShown(Shown, world)
    /\ phase = "revert" => WorldShown(LastOf(before), world)
    /\ phase = "commit" => IsBlock(entries, LastOf(worlds), world) /\ worlds # <<>>

LEMMA NowShownGives == NowShown => LivingLeavesExact
BY DEF NowShown, WorldShown, AccountShown, LivingLeavesExact, Shows, At

LEMMA InitShown == PipelineInit => PastShown /\ NowShown
<1> SUFFICES ASSUME PipelineInit PROVE PastShown /\ NowShown
  OBVIOUS
<1>1. worlds = <<>> /\ phase = "idle" /\ \A a \in Account : world[a] = Nobody(FALSE)
  BY DEF PipelineInit, LoopInit
<1>2. \A s \in Stem, i \in SubIndex : Shown[s][i] = Zero
  BY DEF PipelineInit, LoopInit, Shown, StateOf, Overlaid, EmptyTable, NodeOf, EmptyNode
<1>3. ASSUME NEW a \in Account PROVE AccountShown(Shown, a, Nobody(FALSE))
  <2>1. \A n \in Slot : At(Shown, StorageSlotKey(a, n)) = Zero
    BY <1>2, KeysInTree DEF At
  <2> QED
    BY <2>1 DEF AccountShown, Nobody
<1>4. WorldShown(Shown, world)
  BY <1>1, <1>3 DEF WorldShown
<1>5. \A k \in 1 .. Len(worlds) : FALSE
  BY <1>1
<1> QED
  BY <1>1, <1>4, <1>5 DEF PastShown, NowShown

LEMMA ShownStep ==
    ASSUME LoopInv, WrittenSoFar, WorldInv, ListExact, PastShown, NowShown,
           [PipelineNext]_pipelineVars
    PROVE  PastShown' /\ NowShown'
<1>t. /\ LoopTypeOK /\ Counted /\ Shown \in State
      /\ before \in Seq(State) /\ Len(before) \in Nat
      /\ world \in World /\ worlds \in Seq(World) /\ Len(worlds) \in Nat
      /\ Len(worlds) = Len(before) - (IF phase = "revert" THEN 1 ELSE 0)
  BY ShownType, LenProperties DEF LoopInv, LoopTypeOK, WorldInv
<1>1. CASE ChainCommitted
  <2>1. PICK es : /\ BeginCommit(es) /\ IsBlock(es, world, world')
                  /\ worlds' = Append(worlds, world)
    BY <1>1, CommittedBlock
  <2>2. /\ phase = "idle" /\ phase' = "commit" /\ before' = Append(before, Shown)
        /\ entries' = es
    BY <2>1 DEF BeginCommit
  <2>3. /\ before'[Len(before) + 1] = Shown
        /\ \A k \in 1 .. Len(before) : before'[k] = before[k]
    BY <1>t, <2>2, AppendFacts
  <2>4. /\ Len(worlds') = Len(worlds) + 1 /\ worlds'[Len(worlds) + 1] = world
        /\ \A k \in 1 .. Len(worlds) : worlds'[k] = worlds[k]
        /\ LastOf(worlds') = world /\ worlds' # <<>>
    BY <1>t, <2>1, AppendFacts
  <2>5. ASSUME NEW k \in 1 .. Len(worlds') PROVE WorldShown(before'[k], worlds'[k])
    <3>1. CASE k = Len(worlds) + 1
      BY <1>t, <2>2, <2>3, <2>4, <3>1 DEF NowShown
    <3>2. CASE k # Len(worlds) + 1
      <4>1. k \in 1 .. Len(worlds) /\ k \in 1 .. Len(before)
        BY <1>t, <2>2, <2>4, <3>2
      <4> QED
        BY <2>3, <2>4, <4>1 DEF PastShown
    <3> QED
      BY <3>1, <3>2
  <2> QED
    BY <2>1, <2>2, <2>4, <2>5 DEF PastShown, NowShown
<1>2. CASE EndCommit /\ UNCHANGED <<world, worlds>>
  <2>1. /\ phase = "commit" /\ pos > Len(entries) /\ phase' = "idle" /\ before' = before
        /\ Shown' = Shown /\ world' = world /\ worlds' = worlds
    BY <1>2 DEF EndCommit, Shown
  <2>2. Wrote(entries, LastOf(before), Shown)
    BY <1>t, <2>1, LoopWrote DEF ListExact
  <2>3. LastOf(worlds) \in World /\ Len(worlds) \in 1 .. Len(worlds)
    BY <1>t, <2>1, FrontFacts DEF NowShown
  <2>4. WorldShown(LastOf(before), LastOf(worlds))
    BY <1>t, <2>1, <2>3 DEF PastShown, LastOf
  <2>5. WorldShown(Shown, world)
    BY <2>1, <2>2, <2>3, <2>4, BlockShown DEF NowShown
  <2> QED
    BY <2>1, <2>5 DEF PastShown, NowShown
<1>3. CASE ChainReverted
  <2>1. /\ phase = "idle" /\ phase' = "revert" /\ before' = before /\ before # <<>>
        /\ world' = LastOf(worlds) /\ worlds' = FrontOf(worlds)
    BY <1>3, <1>t, BeforeNotEmpty DEF ChainReverted, BeginRevert
  <2>2. worlds # <<>>
    BY <1>t, <2>1, EmptySeq
  <2>3. /\ Len(worlds') = Len(worlds) - 1 /\ Len(worlds) \in 1 .. Len(worlds)
        /\ \A k \in 1 .. Len(worlds) - 1 : worlds'[k] = worlds[k]
    BY <1>t, <2>1, <2>2, FrontFacts
  <2>4. WorldShown(LastOf(before'), world')
    BY <1>t, <2>1, <2>3 DEF PastShown, LastOf
  <2>5. ASSUME NEW k \in 1 .. Len(worlds') PROVE WorldShown(before'[k], worlds'[k])
    BY <1>t, <2>1, <2>3 DEF PastShown
  <2> QED
    BY <2>1, <2>4, <2>5 DEF PastShown, NowShown
<1>4. CASE OldestForgotten
  <2>1. /\ phase = "idle" /\ phase' = "idle" /\ before' = Tail(before) /\ before # <<>>
        /\ world' = world /\ worlds' = Tail(worlds) /\ Shown' = Shown
    BY <1>4, <1>t, BeforeNotEmpty DEF OldestForgotten, Forget, Shown
  <2>2. worlds # <<>>
    BY <1>t, <2>1, EmptySeq
  <2>3. /\ Len(worlds') = Len(worlds) - 1
        /\ \A k \in 1 .. Len(worlds) - 1 : worlds'[k] = worlds[k + 1]
        /\ \A k \in 1 .. Len(before) - 1 : before'[k] = before[k + 1]
    BY <1>t, <2>1, <2>2, TailFacts
  <2>4. ASSUME NEW k \in 1 .. Len(worlds') PROVE WorldShown(before'[k], worlds'[k])
    <3>1. /\ k \in 1 .. Len(worlds) - 1 /\ k \in 1 .. Len(before) - 1
          /\ k + 1 \in 1 .. Len(worlds)
      BY <1>t, <2>1, <2>3
    <3> QED
      BY <2>3, <3>1 DEF PastShown
  <2> QED
    BY <2>1, <2>4 DEF PastShown, NowShown
<1>5. CASE EndRevert /\ UNCHANGED <<world, worlds>>
  <2>1. /\ phase = "revert" /\ phase' = "idle" /\ before' = FrontOf(before)
        /\ world' = world /\ worlds' = worlds /\ Shown' = LastOf(before) /\ before # <<>>
    BY <1>5, RevertDone DEF EndRevert
  <2>2. \A k \in 1 .. Len(before) - 1 : before'[k] = before[k]
    BY <1>t, <2>1, FrontFacts
  <2> QED
    BY <1>t, <2>1, <2>2 DEF PastShown, NowShown
<1>6. CASE (CommitEntry \/ RevertDelta) /\ UNCHANGED <<world, worlds>>
  <2>1. /\ phase' = phase /\ phase # "idle" /\ before' = before /\ entries' = entries
        /\ world' = world /\ worlds' = worlds
    BY <1>6 DEF CommitEntry, RevertDelta
  <2>2. LastOf(before') = LastOf(before) /\ LastOf(worlds') = LastOf(worlds)
    BY <2>1
  <2> QED
    BY <2>1, <2>2 DEF PastShown, NowShown
<1>7. CASE Flush /\ UNCHANGED <<world, worlds>>
  <2>1. /\ phase' = "idle" /\ phase = "idle" /\ before' = before
        /\ world' = world /\ worlds' = worlds
    BY <1>7 DEF Flush
  <2>2. Shown' = Shown
    BY <1>7, <1>t, FlushShown
  <2> QED
    BY <2>1, <2>2 DEF PastShown, NowShown
<1>8. CASE UNCHANGED pipelineVars
  <2>1. /\ Shown' = Shown /\ phase' = phase /\ before' = before /\ entries' = entries
        /\ world' = world /\ worlds' = worlds
    BY <1>8 DEF pipelineVars, loopVars, Shown
  <2>2. LastOf(before') = LastOf(before) /\ LastOf(worlds') = LastOf(worlds)
    BY <2>1
  <2> QED
    BY <2>1, <2>2 DEF PastShown, NowShown
<1> QED
  BY <1>1, <1>2, <1>3, <1>4, <1>5, <1>6, <1>7, <1>8 DEF PipelineNext

\* Whatever blocks are executed, unwound, flushed and pruned: the tree has the capped
\* balance, the code hash, every chunk of code and, where nothing was ever destroyed,
\* every slot of each account that exists.
THEOREM LivingLeavesAlwaysExact == PipelineSpec => []LivingLeavesExact
<1> DEFINE I == PipelineInv /\ PastShown /\ NowShown
<1>1. PipelineInit => I
  BY PipelineInvInit, InitShown
<1>2. I /\ [PipelineNext]_pipelineVars => I'
  BY PipelineInvStep, ShownStep DEF PipelineInv
<1>3. I => LivingLeavesExact
  BY NowShownGives
<1> QED
  BY <1>1, <1>2, <1>3, PTL DEF PipelineSpec
=============================================================================
