----------------------------- MODULE SymbolTable -----------------------------
(***************************************************************************)
(* The on-disk symbol table of a group, group_write.go with                *)
(* internal/structures/{localheap,btree_group,symboltable_node}.go: names  *)
(* in a local heap, entries in symbol table nodes (SNODs) of fixed         *)
(* capacity, the SNODs listed by a one-node B-tree of fixed capacity.      *)
(* Linking and unlinking rewrite all of it.  A full heap is replaced by    *)
(* one of twice its size.  Strings are members of Names, ordered as        *)
(* numbers; heap offsets are counted in bytes as in the code.              *)
(***************************************************************************)
EXTENDS Integers, FiniteSetsExt, SequencesExt

CONSTANTS Groups, Root,     \* the groups, one of them the root group
          Names, Length,    \* link names and their lengths
          Objs,             \* addresses of object headers
          SnodCapacity,     \* snodCapacity (8)
          K,                \* groupBTreeK (16)
          HeapSize,         \* size of a new heap (4096)
          MaxLinks,         \* bound: links
          MaxStrings        \* bound: strings in the heaps

ASSUME SymbolTableAssumption ==
    /\ Root \in Groups
    /\ Names \subseteq Nat \ {0}
    /\ Length \in [Names -> Nat \ {0}]
    /\ {SnodCapacity, K, HeapSize} \subseteq Nat \ {0}
    /\ {MaxLinks, MaxStrings} \subseteq Nat

VARIABLES heapAddr,   \* fw.rootHeapAddr and meta.heapAddr: which of the group's heaps
          msgHeap,    \* the same in the group's symbol table message, on disk
          heaps,      \* per group, the heaps written so far: [size, strings]
          btree,      \* per group, the B-tree node on disk: [used, keys, children]
          snods,      \* per group, the SNODs written so far: sequences of entries
          links,      \* history: per group, the bag of links that should be there
          grown       \* history: per group, the last link expanded the heap

vars == <<heapAddr, msgHeap, heaps, btree, snods, links, grown>>

Link == [name : Names, obj : Objs]
NoSnod == 0              \* what readGroupBTree finds past the last child slot
Unnamed == 0             \* GetString fails or reads padding

-----------------------------------------------------------------------------
(* Local heap *)

\* A heap of size bytes of which used are in use: offset 0 holds the empty
\* string, strings maps the other offsets where one starts to the string.
NewLocalHeap(size) == [size |-> size, used |-> 1, strings |-> <<>>]

\* Mutant: room for the terminator is not counted.
HasRoomNoTerminator(h, name) == h.used + Length[name] <= h.size

\* AddString fails when there is no room for the name and its terminator.
HasRoom(h, name) == h.used + Length[name] + 1 <= h.size

\* AddString appends the name and its terminator.  Loading the heap again
\* finds used behind the last byte that is not zero (PrepareForModification).
AddString(h, name) ==
    [h EXCEPT !.used = @ + Length[name] + 1,
              !.strings = [off \in DOMAIN @ \cup {h.used} |->
                              IF off = h.used THEN name ELSE @[off]]]

\* The string at an offset, when one starts there and its terminator is
\* inside the size bytes that LoadLocalHeap reads.
GetString(h, off) ==
    IF off \in DOMAIN h.strings /\ off + Length[h.strings[off]] < h.size
    THEN h.strings[off]
    ELSE Unnamed

-----------------------------------------------------------------------------
(* Reading a group: readGroupBTree, readSymbolTableNode *)

\* The SNODs that the B-tree node lists.  The node has room for 2K of them;
\* past that, the reader takes the bytes that follow the node for a child,
\* and what an operation then does depends on those bytes: such a group is
\* not Readable and the model follows it no further.
SnodAddr(node, i) == IF i <= Len(node.children) THEN node.children[i] ELSE NoSnod

SnodAddrs(g) == [i \in 1 .. btree[g].used |-> SnodAddr(btree[g], i)]

Readable(g) == NoSnod \notin Range(SnodAddrs(g))

\* The entries of those SNODs, one after the other.
EntriesOf(node, nodes) ==
    LET upTo[i \in 0 .. node.used] ==
            IF i = 0 THEN <<>> ELSE upTo[i - 1] \o nodes[SnodAddr(node, i)]
    IN  upTo[node.used]

AllEntries(g) == EntriesOf(btree[g], snods[g])

\* The links a reader sees that takes the names from the group's h-th heap.
Listing(g, h) ==
    LET es == AllEntries(g)
    IN  [i \in DOMAIN es |->
            [name |-> GetString(heaps[g][h], es[i].off), obj |-> es[i].obj]]

-----------------------------------------------------------------------------
(* Rewriting a group *)

\* Mutant: entries stay in the order they were added.
SortEntriesByNameNot(es, h) == es

\* sort.Slice by name; it keeps the order of equal names on the short
\* slices of these instances.
SortEntriesByName(es, h) ==
    LET name(i) == GetString(h, es[i].off)
        rank(i) == Cardinality({j \in DOMAIN es :
                       name(j) < name(i) \/ (name(j) = name(i) /\ j <= i)})
    IN  [p \in DOMAIN es |-> es[CHOOSE i \in DOMAIN es : rank(i) = p]]

\* Mutant: rounds down.
NumSNODsDown(n) == IF n < SnodCapacity THEN 1 ELSE n \div SnodCapacity

NumSNODs(n) == IF n = 0 THEN 1 ELSE (n + SnodCapacity - 1) \div SnodCapacity

\* Key of the i-th child: the last entry of the node on its left.
LeftKey(es, i) == IF i = 1 THEN 0 ELSE es[(i - 1) * SnodCapacity].off

\* AddKey refuses a child only when 2K+1 keys are there.
AddKeyFails(n) == n > 2 * K + 1

\* The node as WriteAt stores it: 2K+1 keys and 2K children at most, but
\* the number of entries as counted by AddKey.
BTreeNode(es, addrs) ==
    LET n == NumSNODs(Len(es))
        right == IF es = <<>> THEN 0 ELSE Last(es).off
        keys == [i \in 1 .. (n + 1) |-> IF i <= n THEN LeftKey(es, i) ELSE right]
    IN  [used |-> n,
         keys |-> SubSeq(keys, 1, Min({n + 1, 2 * K + 1})),
         children |-> SubSeq(addrs, 1, Min({n, 2 * K}))]

\* The group's SNODs once es is distributed over the ones at addrs.
Distribute(old, es, addrs) ==
    [a \in 1 .. Max({Len(old)} \cup Range(addrs)) |->
        IF \E i \in DOMAIN addrs : addrs[i] = a
        THEN LET i == CHOOSE i \in DOMAIN addrs : addrs[i] = a
             IN  SubSeq(es, (i - 1) * SnodCapacity + 1,
                            Min({i * SnodCapacity, Len(es)}))
        ELSE old[a]]

\* The SNODs a rewrite uses: the first n of the old ones, and new ones when
\* they are too few.  Surplus ones are dropped, and never freed.
SnodsFor(g, n) ==
    LET old == SnodAddrs(g)
    IN  [i \in 1 .. n |-> IF i <= Len(old) THEN old[i]
                                           ELSE Len(snods[g]) + i - Len(old)]

Rewrite(g, es) ==
    LET addrs == SnodsFor(g, NumSNODs(Len(es)))
    IN  /\ btree' = [btree EXCEPT ![g] = BTreeNode(es, addrs)]
        /\ snods' = [snods EXCEPT ![g] = Distribute(@, es, addrs)]

-----------------------------------------------------------------------------
(* Operations *)

\* createGroupStructures: one empty heap, one empty SNOD, and their B-tree.
Init == /\ heapAddr = [g \in Groups |-> 1]
        /\ msgHeap = [g \in Groups |-> 1]
        /\ heaps = [g \in Groups |-> <<NewLocalHeap(HeapSize)>>]
        /\ btree = [g \in Groups |-> [used |-> 1, keys |-> <<0>>, children |-> <<1>>]]
        /\ snods = [g \in Groups |-> <<<<>>>>]
        /\ links = [g \in Groups |-> EmptyBag]
        /\ grown = [g \in Groups |-> FALSE]

CurrentHeap(g) == heaps[g][heapAddr[g]]

\* Bounds on the exploration.
InBounds == /\ SumFunction([g \in Groups |-> BagCardinality(links[g])]) < MaxLinks
            /\ SumFunction([g \in Groups |-> Cardinality(DOMAIN CurrentHeap(g).strings)])
                   < MaxStrings

\* linkToParent, the name fits in the heap.
LinkToParent(g, l) ==
    LET heap == AddString(CurrentHeap(g), l.name)
        new == [off |-> CurrentHeap(g).used, obj |-> l.obj]
        es == SortEntriesByName(Append(AllEntries(g), new), heap)
    IN  /\ HasRoom(CurrentHeap(g), l.name)
        /\ Readable(g)
        /\ ~ AddKeyFails(NumSNODs(Len(es)))
        /\ Rewrite(g, es)
        /\ heaps' = [heaps EXCEPT ![g][heapAddr[g]] = heap]
        /\ links' = [links EXCEPT ![g] = @ (+) SetToBag({l})]
        /\ grown' = [grown EXCEPT ![g] = FALSE]
        /\ UNCHANGED <<heapAddr, msgHeap>>

\* Mutant: the strings are not copied to the new heap.
ExpandedFresh(h) == NewLocalHeap(2 * h.size)

\* expandHeapAndAdd: the heap that replaces a full one.
Expanded(h) == [h EXCEPT !.size = 2 * @]

\* Mutant: the root group's message is not rewritten either.
UpdateGroupHeapAddrInMemory(g, a) ==
    /\ heapAddr' = [heapAddr EXCEPT ![g] = a]
    /\ UNCHANGED msgHeap

\* updateGroupHeapAddr: the symbol table message is rewritten for the root
\* group only.
UpdateGroupHeapAddr(g, a) ==
    /\ heapAddr' = [heapAddr EXCEPT ![g] = a]
    /\ msgHeap' = IF g = Root THEN [msgHeap EXCEPT ![g] = a] ELSE msgHeap

\* linkToParent, the heap is full.  The new heap is not loaded from disk, so
\* that every name but the new one resolves to "" in the sort: the entries
\* keep their order and the new one comes last.
LinkExpandHeap(g, l) ==
    LET heap == Expanded(CurrentHeap(g))
        new == [off |-> heap.used, obj |-> l.obj]
        es == Append(AllEntries(g), new)
    IN  /\ ~ HasRoom(CurrentHeap(g), l.name)
        /\ HasRoom(heap, l.name)
        /\ Readable(g)
        /\ ~ AddKeyFails(NumSNODs(Len(es)))
        /\ Rewrite(g, es)
        /\ heaps' = [heaps EXCEPT ![g] = Append(@, AddString(heap, l.name))]
        /\ UpdateGroupHeapAddr(g, Len(heaps[g]) + 1)
        /\ links' = [links EXCEPT ![g] = @ (+) SetToBag({l})]
        /\ grown' = [grown EXCEPT ![g] = TRUE]

\* The first entry of that name.
Found(g, name) ==
    LET list == Listing(g, heapAddr[g])
    IN  CHOOSE i \in DOMAIN list :
            list[i].name = name /\ \A j \in 1 .. (i - 1) : list[j].name # name

\* unlinkFromParent: the string stays in the heap.
UnlinkFromParent(g, name) ==
    /\ Readable(g)
    /\ \E i \in DOMAIN AllEntries(g) : Listing(g, heapAddr[g])[i].name = name
    /\ LET i == Found(g, name)
       IN  /\ Rewrite(g, RemoveAt(AllEntries(g), i))
           /\ links' = [links EXCEPT
                  ![g] = @ (-) SetToBag({Listing(g, heapAddr[g])[i]})]
    /\ UNCHANGED <<heapAddr, msgHeap, heaps, grown>>

Next == \E g \in Groups :
            \/ \E l \in Link :
                   InBounds /\ (LinkToParent(g, l) \/ LinkExpandHeap(g, l))
            \/ \E name \in Names : UnlinkFromParent(g, name)

Spec == Init /\ [][Next]_vars

-----------------------------------------------------------------------------
(* Properties *)

Entry == [off : Nat, obj : Objs]

TypeOK ==
    \A g \in Groups :
        /\ heapAddr[g] \in DOMAIN heaps[g] /\ msgHeap[g] \in DOMAIN heaps[g]
        /\ \A h \in DOMAIN heaps[g] : /\ heaps[g][h].used \in 1 .. heaps[g][h].size
                                      /\ Range(heaps[g][h].strings) \subseteq Names
        /\ Range(btree[g].children) \subseteq DOMAIN snods[g]
        /\ \A a \in DOMAIN snods[g] : /\ snods[g][a] \in Seq(Entry)
                                      /\ Len(snods[g][a]) <= SnodCapacity
        /\ IsABag(links[g]) /\ BagToSet(links[g]) \subseteq Link

\* What the session reads back from disk is the links it made and did not
\* remove: rewriting all SNODs, the B-tree and the heap on every call, and
\* moving the heap when it is full, loses, duplicates and renames none.
SessionReadsBack ==
    \A g \in Groups : Readable(g) => ToBag(Listing(g, heapAddr[g])) = links[g]

\* The same for a later reader of the file, who finds the heap of the root
\* group through the symbol table message (rewriteSymbolTableMessage).
RootReadsBack ==
    Readable(Root) => ToBag(Listing(Root, msgHeap[Root])) = links[Root]

\* The same for every group.  "This also rewrites the group's object header
\* symbol table message to point to the new heap" (updateGroupHeapAddr).
ReaderReadsBack ==
    \A g \in Groups : Readable(g) => ToBag(Listing(g, msgHeap[g])) = links[g]

\* Every entry of the i-th SNOD lies between the keys around it, as a search
\* by name requires, unless the heap was expanded by the last link, which
\* leaves the entries unsorted until the next one.
KeysBracketSnods ==
    \A g \in Groups :
        LET name(off) == GetString(CurrentHeap(g), off)
        IN  (Readable(g) /\ ~ grown[g]) =>
                \A i \in 1 .. btree[g].used :
                    \A e \in Range(snods[g][SnodAddrs(g)[i]]) :
                        /\ name(btree[g].keys[i]) <= name(e.off)
                        /\ name(e.off) <= name(btree[g].keys[i + 1])

\* What the session reads is a directory: each operation adds one link or
\* removes one, and no group's operation shows in another group.
D == INSTANCE Directory WITH dir <- [g \in Groups |-> ToBag(Listing(g, heapAddr[g]))]
ImplementsDirectory == D!Spec
=============================================================================
