----------------------------- MODULE ObjectLinks -----------------------------
(***************************************************************************)
(* Objects, the hard links that name them and their reference counts:      *)
(* CreateGroup, CreateDataset, CreateHardLink and Delete of group_write.go,*)
(* dataset_write.go, link_write.go and delete_write.go.  A group's         *)
(* directory is the sequence of its entries (module SymbolTable shows how  *)
(* it is stored), an object's storage is one address (module Allocator     *)
(* shows how it is managed).                                               *)
(*                                                                         *)
(* A header is padded to its whole allocation.  The message that holds the *)
(* count is appended behind the padding, so that its last eight bytes, the *)
(* count and the checksum, are written to the space of whatever lies       *)
(* there, until an attribute drops the padding.  What lies there is up to  *)
(* the allocator: it is left open here, and may change.                    *)
(***************************************************************************)
EXTENDS Integers, FiniteSets, SequencesExt, Functions

CONSTANTS Names,       \* link names, ordered as numbers
          Addrs,       \* addresses of objects other than the root group
          Capacity,    \* entries of a group: linkToParent fails beyond
          LinkKinds,   \* kinds of objects that clients make hard links to
          DenseGroups, \* whether clients call CreateDenseGroup
          MaxRefCount  \* bound: reference counts

ASSUME ObjectLinksAssumption ==
    /\ Names \subseteq Nat
    /\ Addrs \subseteq Nat \ {0} /\ IsFiniteSet(Addrs)
    /\ Capacity \in Nat /\ MaxRefCount \in Nat \ {0}
    /\ LinkKinds \subseteq {"group", "dataset", "dense"}
    /\ DenseGroups \in BOOLEAN

VARIABLES disk,      \* what is written at each address, freed ones included
          alloc,     \* addresses allocated in the allocator
          groups,    \* fw.groups: known group paths and their addresses
          dense,     \* the links of dense groups: group and object
          broken,    \* objects with bytes that another header or block wrote over
          shared,    \* whether the free list holds bytes of other objects
          failed,    \* history: objects left behind by an operation that failed
          overwritten, \* history: objects whose count their neighbour wrote over
          loose      \* history: an object was freed by a count not its own

vars == <<disk, alloc, groups, dense, broken, shared, failed, overwritten, loose>>

RootAddr == 0
All == Addrs \cup {RootAddr}
Kinds == {"group", "dataset", "dense"}
Entry == [name : Names, obj : Addrs]

\* counted: the header has a RefCount message; slack: its padding is gone.
Object == [kind : Kinds, rc : Nat, counted : BOOLEAN, slack : BOOLEAN, entries : Seq(Entry)]

\* Paths are sequences of names: one level of groups below the root.
Paths == UNION {[1 .. n -> Names] : n \in 1 .. 2}

\* ReadObjectHeader takes the count of a header without a message for one.
NewObject(kind) == [kind |-> kind, rc |-> 1, counted |-> FALSE, slack |-> FALSE,
                    entries |-> <<>>]

Init == /\ disk = [a \in All |-> NewObject(IF a = RootAddr THEN "group" ELSE "dataset")]
        /\ alloc = {}
        /\ groups = <<>>
        /\ dense = {}
        /\ broken = {} /\ shared = FALSE
        /\ failed = {} /\ overwritten = {} /\ loose = FALSE

-----------------------------------------------------------------------------
(* Headers that grow past their allocation *)

\* The header of a ends behind its allocation.
Over(d, a) == d[a].counted /\ ~ d[a].slack

\* What may be broken once a block that reaches into the space of another is
\* written: nothing more than those in B, or one of the objects in S.
Hits(B, S) == {B} \cup {B \cup {b} : b \in S}

\* The header of a was written or freed with the length it has in d.
HitBehind(d, a) == broken' \in Hits(broken, IF Over(d, a) THEN All \ {a} ELSE {})

-----------------------------------------------------------------------------
(* Directories *)

\* The parent is the root group or a path that fw.groups knows.
ParentKnown(path) == Len(path) = 1 \/ Front(path) \in DOMAIN groups
ParentAddr(path) == IF Len(path) = 1 THEN RootAddr ELSE groups[Front(path)]

\* Entries are kept sorted by name; a name may occur more than once.  sort.Slice
\* moves an entry appended to a sorted list before the first greater name (as
\* long as the list is short enough for its insertion sort).
Inserted(es, e) ==
    LET i == CHOOSE i \in 1 .. Len(es) + 1 :
                 /\ i = Len(es) + 1 \/ es[i].name > e.name
                 /\ \A j \in 1 .. i - 1 : es[j].name <= e.name
    IN  InsertAt(es, i, e)

\* Mutant: one entry too many is accepted.
LinkFailsLate(d, g) == d[g].kind # "group" \/ Len(d[g].entries) > Capacity

\* linkToParent reports an error: no group there, or no room in it.
LinkFails(d, g) == d[g].kind # "group" \/ Len(d[g].entries) >= Capacity

\* Whether linkToParent succeeds: it also fails when it cannot read the heap
\* or a node of the group, before it writes anything.
LinkOutcomes(d, g) == IF LinkFails(d, g) THEN {FALSE}
                      ELSE IF g \in broken THEN BOOLEAN ELSE {TRUE}

LinkToParent(d, g, name, a) ==
    [d EXCEPT ![g].entries = Inserted(@, [name |-> name, obj |-> a])]

\* The indices of the entries of that name, and the first of them.
Matches(es, name) == {i \in DOMAIN es : es[i].name = name}
FirstMatch(es, name) ==
    CHOOSE i \in Matches(es, name) : \A j \in Matches(es, name) : i <= j

\* resolveObjectAddress finds the path.
Resolves(path) ==
    /\ ParentKnown(path)
    /\ disk[ParentAddr(path)].kind = "group"
    /\ Matches(disk[ParentAddr(path)].entries, Last(path)) # {}
Resolve(path) ==
    LET es == disk[ParentAddr(path)].entries
    IN  es[FirstMatch(es, Last(path))].obj

-----------------------------------------------------------------------------
(* Creating objects *)

\* The file once a new object is written at a.
Written(a, kind) == [disk EXCEPT ![a] = NewObject(kind)]

\* The address a is given to a new object.  Once the free list holds bytes of
\* other objects the new one may be laid over them.
Allocate(a) ==
    /\ a \in Addrs \ alloc
    /\ alloc' = alloc \cup {a}
    /\ broken' \in Hits(broken \ {a}, IF shared THEN All ELSE {})
    /\ overwritten' = overwritten \ {a}
    /\ UNCHANGED <<shared, loose>>

\* The new object at a is written and linked, if that works (ok).
Enter(path, a, kind, ok) ==
    /\ ok \in (IF ParentKnown(path)
               THEN LinkOutcomes(Written(a, kind), ParentAddr(path)) ELSE {FALSE})
    /\ disk' = IF ok
               THEN LinkToParent(Written(a, kind), ParentAddr(path), Last(path), a)
               ELSE Written(a, kind)
    /\ failed' = IF ok THEN failed \ {a} ELSE failed \cup {a}

\* fw.groups is updated before the group is linked: when linking fails the
\* group is known but has no name.
CreateGroup(path, a) ==
    /\ ParentKnown(path)
    /\ Allocate(a)
    /\ \E ok \in BOOLEAN : Enter(path, a, "group", ok)
    /\ groups' = [p \in DOMAIN groups \cup {path} |->
                     IF p = path THEN a ELSE groups[p]]
    /\ UNCHANGED dense

\* The header and the data are allocated before linkToParent looks for the
\* parent: when that fails they are left behind.
CreateDataset(path, a) ==
    /\ Allocate(a)
    /\ \E ok \in BOOLEAN : Enter(path, a, "dataset", ok)
    /\ UNCHANGED <<groups, dense>>

\* Links to objects that have names already, of which nobody counts any; one
\* link stands for all.  The group is not entered in fw.groups.
CreateDenseGroup(path, a, target) ==
    /\ DenseGroups
    /\ Resolves(target)
    /\ Allocate(a)
    /\ \E ok \in BOOLEAN : Enter(path, a, "dense", ok)
    /\ dense' = dense \cup {[group |-> a, obj |-> Resolve(target)]}
    /\ UNCHANGED groups

-----------------------------------------------------------------------------
(* Hard links *)

\* writeV2RefCount: the RefCount message is added or updated only for counts
\* above one; the header is written as it then is.
WriteV2RefCount(d, a, n) ==
    IF n > 1 THEN [d EXCEPT ![a].rc = n, ![a].counted = TRUE] ELSE d

\* Mutant: the target's count is left alone.
CountLinkNot(a) == disk

\* The file once the target's count is incremented.
CountLink(a) == WriteV2RefCount(disk, a, disk[a].rc + 1)

\* The target's count is incremented first.  A parent that is not known is
\* reported after that and nothing is undone; when linking fails the old
\* count is written back.
CreateHardLink(path, target) ==
    LET a == Resolve(target)
        d == CountLink(a)
    IN  /\ Resolves(target)
        /\ disk[a].kind \in LinkKinds
        /\ disk[a].rc < MaxRefCount
        /\ HitBehind(d, a)
        /\ IF ~ ParentKnown(path)
           THEN disk' = d /\ failed' = failed \cup {a}
           ELSE \E ok \in LinkOutcomes(d, ParentAddr(path)) :
                    IF ok
                    THEN /\ disk' = LinkToParent(d, ParentAddr(path), Last(path), a)
                         /\ UNCHANGED failed
                    ELSE /\ disk' = WriteV2RefCount(d, a, disk[a].rc)
                         /\ failed' = failed \cup {a}
        /\ UNCHANGED <<alloc, groups, dense, shared, overwritten, loose>>

\* The dataset whose data begin where the allocation of a ends is written, or
\* another block there: its first four bytes are the count of a from now on.
WriteBehind(a, n) ==
    /\ a \in alloc /\ Over(disk, a)
    /\ disk' = [disk EXCEPT ![a].rc = n]
    /\ overwritten' = overwritten \cup {a}
    /\ UNCHANGED <<alloc, groups, dense, broken, shared, failed, loose>>

\* A first attribute takes the place of the padding: the header is written
\* without it, and the count as it was read lies inside the allocation.
WriteAttribute(path) ==
    LET a == Resolve(path)
    IN  /\ Resolves(path)
        /\ disk[a].kind # "dense" /\ ~ disk[a].slack
        /\ disk' = [disk EXCEPT ![a].slack = TRUE]
        /\ UNCHANGED <<alloc, groups, dense, broken, shared, failed, overwritten, loose>>

-----------------------------------------------------------------------------
(* Delete *)

\* Mutant: the count is not written.
WriteRefCountNot(d, a, n) == d

\* writeRefCount: what Delete writes when other links are left.
WriteRefCount(d, a, n) == [d EXCEPT ![a].rc = n, ![a].counted = TRUE]

\* Mutant: the last but one link frees the object.
LastLinkOfTwo(a) == disk[a].rc <= 2

\* DecrementReferenceCount reaches zero.
LastLink(a) == disk[a].rc <= 1

Unlinked(path) ==
    LET g == ParentAddr(path)
    IN  [disk EXCEPT ![g].entries = RemoveAt(@, FirstMatch(@, Last(path)))]

\* Whether freeGroupStructures takes the group for empty: no node that it can
\* read has entries.
EmptyOutcomes(d, a) == IF d[a].kind # "group" \/ d[a].entries = <<>> THEN {TRUE}
                       ELSE IF a \in broken THEN BOOLEAN ELSE {FALSE}

\* cascadeDelete: data, group structures and header are freed, the header with
\* the length it was read with.  Entries that could not be read are lost.
CascadeDelete(d, a) ==
    /\ alloc' = alloc \ {a}
    /\ disk' = [d EXCEPT ![a].entries = <<>>]
    /\ dense' = {l \in dense : l.group # a}
    /\ shared' = (shared \/ Over(d, a))
    /\ HitBehind(d, a)
    /\ failed' = failed \cup {d[a].entries[i].obj : i \in DOMAIN d[a].entries}
    /\ loose' = (loose \/ a \in overwritten)
    /\ UNCHANGED overwritten

\* Mutant: the group stays known.
ForgetNot(path) == groups

\* delete(fw.groups, path)
Forget(path) == [p \in DOMAIN groups \ {path} |-> groups[p]]

\* A deletion that reports an error when the name is gone already: the header
\* cannot be read, or the group has entries, and no count is written.
DeleteFails(d, a) ==
    /\ \/ a \in broken
       \/ LastLink(a) /\ FALSE \in EmptyOutcomes(d, a)
    /\ disk' = d
    /\ failed' = failed \cup {a}
    /\ UNCHANGED <<alloc, groups, dense, broken, shared, overwritten, loose>>

\* The entry is removed first; writeRefCount writes a count that stays above
\* zero; otherwise cascadeDelete frees the storage.
Delete(path) ==
    LET a == Resolve(path)
        d == Unlinked(path)
    IN  /\ Resolves(path)
        /\ \/ DeleteFails(d, a)
           \/ /\ ~ LastLink(a)
              /\ disk' = WriteRefCount(d, a, disk[a].rc - 1)
              /\ HitBehind(d, a)
              /\ UNCHANGED <<alloc, groups, dense, shared, failed, overwritten, loose>>
           \/ /\ LastLink(a) /\ TRUE \in EmptyOutcomes(d, a)
              /\ CascadeDelete(d, a)
              /\ groups' = Forget(path)

\* Close, then OpenForWrite: no group but the root is known.
Reopen == /\ groups' = <<>>
          /\ UNCHANGED <<disk, alloc, dense, broken, shared, failed, overwritten, loose>>

Next == \/ \E path \in Paths, a \in Addrs : CreateGroup(path, a) \/ CreateDataset(path, a)
        \/ \E path, target \in Paths, a \in Addrs : CreateDenseGroup(path, a, target)
        \/ \E path, target \in Paths : CreateHardLink(path, target)
        \/ \E a \in Addrs, n \in 0 .. MaxRefCount : WriteBehind(a, n)
        \/ \E path \in Paths : WriteAttribute(path) \/ Delete(path)
        \/ Reopen

Spec == Init /\ [][Next]_vars

-----------------------------------------------------------------------------
(* Properties *)

TypeOK == /\ \A a \in All : /\ disk[a].kind \in Kinds
                             /\ disk[a].rc \in 0 .. MaxRefCount
                             /\ disk[a].counted \in BOOLEAN /\ disk[a].slack \in BOOLEAN
                             /\ disk[a].entries \in Seq(Entry)
                             /\ Len(disk[a].entries) <= Capacity
          /\ alloc \cup failed \cup overwritten \subseteq Addrs
          /\ broken \subseteq All
          /\ dense \subseteq [group : Addrs, obj : Addrs]
          /\ shared \in BOOLEAN /\ loose \in BOOLEAN
          /\ DOMAIN groups \subseteq Paths /\ Range(groups) \subseteq Addrs

LiveGroups == {g \in alloc \cup {RootAddr} : disk[g].kind = "group"}

\* The links to an object in directories: a group and the index of an entry.
LinksTo(a) == {l \in LiveGroups \X (1 .. Capacity) :
                   /\ l[2] \in DOMAIN disk[l[1]].entries
                   /\ disk[l[1]].entries[l[2]].obj = a}

\* Nothing is promised once an object was freed by a count that its neighbour
\* had written over: what its links lead to is then anyone's.
Explored == ~ loose

\* No entry of a group names storage that was freed, whatever mix of hard
\* links and deletions came before, and whatever part of it failed on blocks
\* that another header had damaged, as long as every object that was freed
\* was freed by its own count.
NoDanglingLink ==
    loose \/ \A g \in LiveGroups : \A i \in DOMAIN disk[g].entries :
                 disk[g].entries[i].obj \in alloc

\* The reference count is the number of links, for every object on which no
\* operation failed and whose count was not written over: in particular an
\* object without links has been freed.
RefCountExact ==
    loose \/ \A a \in alloc \ (failed \cup overwritten) :
                 disk[a].rc = Cardinality(LinksTo(a))

\* A count that was not written over is never too small, failures or not:
\* what CreateHardLink and Delete leave behind on their error paths leaks
\* storage but frees none that is in use.
RefCountCovers ==
    loose \/ \A a \in alloc \ overwritten : disk[a].rc >= Cardinality(LinksTo(a))

\* Every path of fw.groups leads to the storage of a live group, so that
\* nothing is written through it into storage given to another object.
KnownGroupsLive == loose \/ \A p \in DOMAIN groups : groups[p] \in LiveGroups

\* IncrementReferenceCount: "Object is deleted when refcount reaches 0", which
\* counts the links, those of dense groups as well: an object that a directory
\* or a dense group names is not freed.
NamedObjectsKept ==
    /\ \A g \in LiveGroups : \A i \in DOMAIN disk[g].entries :
           disk[g].entries[i].obj \in alloc
    /\ \A l \in dense : l.obj \in alloc
=============================================================================
