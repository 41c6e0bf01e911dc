-------------------------- MODULE AttributeStorage --------------------------
(***************************************************************************)
(* The attributes of one object, attribute_write.go with                   *)
(* internal/core/objectheader{,_write}.go: messages in the object header,  *)
(* which was allocated with some room to spare, then messages in           *)
(* continuation blocks (OCHK), then dense storage, a map here.  The header *)
(* is read, changed in memory and written back as a whole; the handle of a *)
(* dataset may hold a header that it read earlier.  Structural messages    *)
(* are left out: sizes are what remains beside them.                       *)
(***************************************************************************)
EXTENDS Integers, FiniteSets, SequencesExt, Functions

CONSTANTS Kinds,        \* kinds of the object: "root", "group", "dataset"
          Names,        \* attribute names
          Values,       \* values, each the size of the message that holds it
          ContSize,     \* size of a continuation message
          InfoSize,     \* size of an attribute info message
          AllocSize,    \* MinOHDRAllocSize
          MaxCompact,   \* MaxCompactAttributes (8)
          MaxBlocks,    \* bound: continuation blocks
          MaxStores,    \* bound: dense stores
          MaxMessages   \* bound: messages that a deletion writes back

ASSUME AttributeAssumption ==
    /\ Kinds \subseteq {"root", "group", "dataset"}
    /\ Values \subseteq Nat \ {0}
    /\ {ContSize, InfoSize, AllocSize, MaxCompact, MaxBlocks, MaxStores,
        MaxMessages} \subseteq Nat
    /\ InfoSize <= AllocSize

VARIABLES kind,     \* what the object is
          main,     \* the messages of the header on disk
          ochk,     \* the continuation blocks written so far, one message each
          stores,   \* the dense stores written so far
          known,    \* lookupHeaderAllocSize: 0 for unknown
          room,     \* the size of the header's allocation
          atEnd,    \* the header is the last thing in the file
          handle,   \* the dataset's handle, with the header it cached
          torn,     \* the header cannot be read: a continuation block is gone
          attrs,    \* history: the attributes that should be there
          spoilt    \* history: a header other than the main chunk on disk was
                    \* written back to it, or the header and the block behind
                    \* it were written over each other

vars == <<kind, main, ochk, stores, known, room, atEnd, handle, torn, attrs, spoilt>>

-----------------------------------------------------------------------------
(* Messages and headers *)

Attr(n, v) == [type |-> "attr", name |-> n, val |-> v]
Cont(b) == [type |-> "cont", block |-> b]
Info(s) == [type |-> "info", store |-> s]
Padding == [type |-> "nil"]

Types == {"attr", "cont", "info", "nil"}

\* The messages of some types, in order.
OfTypes(messages, types) ==
    LET upTo[i \in 0 .. Len(messages)] ==
            IF i = 0 THEN <<>>
            ELSE IF messages[i].type \in types THEN Append(upTo[i - 1], messages[i])
                                               ELSE upTo[i - 1]
    IN  upTo[Len(messages)]

MessageSize(m) == CASE m.type = "attr" -> m.val
                    [] m.type = "cont" -> ContSize
                    [] m.type = "info" -> InfoSize
                    [] m.type = "nil"  -> AllocSize

\* ObjectHeaderSizeFromParsed
Size(messages) ==
    LET upTo[i \in 0 .. Len(messages)] ==
            IF i = 0 THEN 0 ELSE upTo[i - 1] + MessageSize(messages[i])
    IN  upTo[Len(messages)]

\* ReadObjectHeader: the messages of the main chunk, and those found by
\* following its continuation messages.
Read == LET conts == OfTypes(main, {"cont"})
        IN  [own |-> main,
             continued |-> [i \in DOMAIN conts |-> ochk[conts[i].block]]]
Messages(oh) == oh.own \o oh.continued

CompactAttrs(oh) == OfTypes(Messages(oh), {"attr"})

\* The dense store that a header refers to, 0 for none.
StoreOf(oh) == LET infos == OfTypes(Messages(oh), {"info"})
               IN  IF infos = <<>> THEN 0 ELSE infos[1].store

\* The index of the first attribute message of that name, 0 for none.
IndexOf(messages, n) ==
    LET found == {i \in DOMAIN messages :
                      messages[i].type = "attr" /\ messages[i].name = n}
    IN  IF found = {} THEN 0 ELSE CHOOSE i \in found : \A j \in found : i <= j

\* Mutant: continuation messages are dropped like padding.
FilterDropsConts(oh) == OfTypes(oh.own, Types \ {"nil", "cont"})

\* filterMainChunkMessages
FilterMainChunkMessages(oh) == OfTypes(oh.own, Types \ {"nil"})

NoHeader == [own |-> <<>>, continued |-> <<>>]

\* A new object: a padded header, the last thing that was allocated.
Init == /\ kind \in Kinds
        /\ main = <<Padding>>
        /\ ochk = <<>>
        /\ stores = <<>>
        /\ known = IF kind = "dataset" THEN 0 ELSE AllocSize
        /\ room = AllocSize
        /\ atEnd = TRUE
        /\ handle = [created |-> TRUE, cached |-> FALSE, header |-> NoHeader, info |-> 0]
        /\ torn = FALSE
        /\ attrs = <<>>
        /\ spoilt = FALSE

-----------------------------------------------------------------------------
(* Writing *)

\* A header that is longer than its allocation is written over what lies
\* behind it, which may be one of its own continuation blocks.
Tears(messages) ==
    torn' \in IF ~ atEnd' /\ Size(messages) > room /\ OfTypes(messages, {"cont"}) # <<>>
              THEN BOOLEAN ELSE {FALSE}

\* writeOHDRWithBoundsCheck: a header that grows past the end of the file
\* takes the space there, unless the allocator finds the missing bytes in
\* its free list.
WriteOHDR(messages) ==
    /\ main' = messages
    /\ room' \in IF atEnd' /\ Size(messages) > room THEN {room, Size(messages)} ELSE {room}
    /\ Tears(messages)

\* Something is allocated, at the end of the file or elsewhere.
Allocate == atEnd' \in {FALSE, atEnd}

Acknowledge(n, v) ==
    attrs' = [x \in DOMAIN attrs \cup {n} |-> IF x = n THEN v ELSE attrs[x]]

\* writeAttribute finds no dense storage and room for another attribute.
IsCompact(oh) == StoreOf(oh) = 0 /\ Len(CompactAttrs(oh)) < MaxCompact

\* The store that the handle, or the header on disk, refers to.
DenseStore == IF handle.info # 0 THEN handle.info ELSE StoreOf(Read)

\* writeCompactAttribute replaces an attribute: all messages are written back
\* to the main chunk, those of continuation blocks too, without a test of
\* their size.
ReplaceCompact(n, v) ==
    LET oh == Read
        i == IndexOf(Messages(oh), n)
    IN  /\ handle.info = 0 /\ IsCompact(oh) /\ i # 0
        /\ UNCHANGED <<kind, ochk, stores, known, atEnd, handle>>
        /\ WriteOHDR([Messages(oh) EXCEPT ![i] = Attr(n, v)])
        /\ Acknowledge(n, v)
        /\ spoilt' = (spoilt \/ oh.continued # <<>>)

\* Mutant: the size of the header is not compared with its allocation.
FitsAlways(messages) == TRUE

\* The header fits its allocation, or that is not known.
Fits(messages) == known = 0 \/ Size(messages) <= known

AddCompact(n, v) ==
    LET oh == Read
        added == Append(FilterMainChunkMessages(oh), Attr(n, v))
    IN  /\ handle.info = 0 /\ IsCompact(oh) /\ IndexOf(Messages(oh), n) = 0
        /\ Fits(added)
        /\ UNCHANGED <<kind, ochk, stores, known, atEnd, handle>>
        /\ WriteOHDR(added)
        /\ Acknowledge(n, v)
        /\ spoilt' = (spoilt \/ torn')

\* The header with a message for the next continuation block.
Continued(oh) == Append(FilterMainChunkMessages(oh), Cont(Len(ochk) + 1))

\* writeAttributeViaContinuation
AddViaContinuation(n, v) ==
    LET oh == Read
    IN  /\ Len(ochk) < MaxBlocks
        /\ handle.info = 0 /\ IsCompact(oh) /\ IndexOf(Messages(oh), n) = 0
        /\ ~ Fits(Append(FilterMainChunkMessages(oh), Attr(n, v)))
        /\ Fits(Continued(oh))
        /\ ochk' = Append(ochk, Attr(n, v))
        /\ Allocate
        /\ WriteOHDR(Continued(oh))
        /\ Acknowledge(n, v)
        /\ spoilt' = (spoilt \/ torn')
        /\ UNCHANGED <<kind, stores, known, handle>>

\* Not even the continuation message fits.
ContinuationFails(oh, n, v) ==
    /\ IsCompact(oh) /\ IndexOf(Messages(oh), n) = 0
    /\ ~ Fits(Append(FilterMainChunkMessages(oh), Attr(n, v)))
    /\ ~ Fits(Continued(oh))

\* Mutant: the compact attributes are left in the header.
StructuralAndAttrs(oh) == OfTypes(oh.own, {"attr"})

\* What is left of the header on a transition: structural messages, which
\* the model does not show.
Structural(oh) == OfTypes(oh.own, Types \ {"attr", "cont", "nil"})

\* Mutant: the message that was made to calculate the size is written.
TempInfo == Info(0)

\* The message for the store that is about to be written.
NewInfo == Info(Len(stores) + 1)

\* The store with every attribute of a sequence of messages, then the new one.
Migrated(messages, n, v) ==
    [x \in {messages[i].name : i \in DOMAIN messages} \cup {n} |->
        IF x = n THEN v ELSE messages[IndexOf(messages, x)].val]

\* transitionToDenseAttributes.  DenseAttributeWriter refuses a name that
\* comes twice, and nothing changes then.
TransitionToDense(n, v) ==
    LET oh == Read
        compact == CompactAttrs(oh)
    IN  /\ Len(stores) < MaxStores
        /\ handle.info = 0 /\ StoreOf(oh) = 0
        /\ Len(compact) >= MaxCompact \/ ContinuationFails(oh, n, v)
        /\ \A i, j \in DOMAIN compact : compact[i].name = compact[j].name => i = j
        /\ stores' = Append(stores, Migrated(compact, n, v))
        /\ main' = Append(Structural(oh), NewInfo)
        /\ Allocate
        /\ Acknowledge(n, v)
        /\ UNCHANGED <<kind, ochk, known, room, handle, torn, spoilt>>

\* writeDenseAttribute and writeDenseAttributeWithInfo.  Heap and B-tree are
\* changed in memory: when one of them is full nothing is written.
WriteDense(n, v) ==
    LET s == DenseStore
    IN  /\ s # 0
        /\ stores' = [stores EXCEPT ![s] =
                         [x \in DOMAIN @ \cup {n} |-> IF x = n THEN v ELSE @[x]]]
        /\ Acknowledge(n, v)
        /\ UNCHANGED <<kind, main, ochk, known, room, atEnd, handle, torn, spoilt>>

-----------------------------------------------------------------------------
(* Deleting *)

Forget(n) == attrs' = [x \in DOMAIN attrs \ {n} |-> attrs[x]]

\* deleteDenseAttributeImpl
DeleteDense(n) ==
    LET s == IF handle.cached THEN handle.info ELSE StoreOf(Read)
    IN  /\ s # 0 /\ n \in DOMAIN stores[s]
        /\ stores' = [stores EXCEPT ![s] = [x \in DOMAIN @ \ {n} |-> @[x]]]
        /\ Forget(n)
        /\ UNCHANGED <<kind, main, ochk, known, room, atEnd, handle, torn, spoilt>>

\* The header without its i-th message.
Without(oh, i) ==
    IF i <= Len(oh.own)
    THEN [oh EXCEPT !.own = RemoveAt(@, i)]
    ELSE [oh EXCEPT !.continued = RemoveAt(@, i - Len(oh.own))]

\* deleteCompactAttributeFromHeader, with the cached header if there is one:
\* all other messages are written back to the main chunk.
DeleteCompact(n) ==
    LET oh == IF handle.cached THEN handle.header ELSE Read
        i == IndexOf(Messages(oh), n)
        left == Without(oh, i)
    IN  /\ IF handle.cached THEN handle.info = 0 ELSE StoreOf(oh) = 0
        /\ i # 0 /\ Len(Messages(left)) <= MaxMessages
        /\ UNCHANGED <<kind, ochk, stores, known, room, atEnd>>
        /\ main' = Messages(left)
        /\ Tears(Messages(left))
        /\ handle' = IF handle.cached THEN [handle EXCEPT !.header = left] ELSE handle
        /\ Forget(n)
        /\ spoilt' = (spoilt \/ oh.continued # <<>> \/ oh # Read)

-----------------------------------------------------------------------------
(* The rest of the session *)

\* DatasetWriter.Resize writes the header that it read the first time, with
\* another dataspace message.
Resize ==
    LET oh == IF handle.cached THEN handle.header ELSE Read
    IN  /\ kind = "dataset" /\ handle.created
        /\ main' = Messages(oh)
        /\ handle' = [handle EXCEPT !.cached = TRUE, !.header = oh]
        /\ spoilt' = (spoilt \/ oh # Read)
        /\ UNCHANGED <<kind, ochk, stores, known, room, atEnd, torn, attrs>>

\* OpenForWrite, which takes the size of the root group's header for its
\* allocation, or OpenDataset, which caches the header.
ReopenRoot ==
    /\ kind = "root"
    /\ known' = Size(Messages(Read))
    /\ UNCHANGED <<kind, main, ochk, stores, room, atEnd, handle, torn, attrs, spoilt>>

OpenDataset ==
    /\ kind = "dataset"
    /\ handle' = [created |-> FALSE, cached |-> TRUE, header |-> Read,
                  info |-> StoreOf(Read)]
    /\ UNCHANGED <<kind, main, ochk, stores, known, room, atEnd, torn, attrs, spoilt>>

\* Another object takes the space behind the header.
AllocateBehind ==
    /\ atEnd
    /\ atEnd' = FALSE
    /\ UNCHANGED <<kind, main, ochk, stores, known, room, handle, torn, attrs, spoilt>>

\* The block behind the header is written, as a dataset's data are: of a header
\* that is longer than its allocation it takes message k, the first to end
\* behind it, and those up to j.  What is left of them is no message; half a
\* continuation message leads nowhere, and the header cannot be read.
WriteBehind ==
    /\ ~ atEnd
    /\ \E k \in DOMAIN main :
           /\ Size(SubSeq(main, 1, k - 1)) <= room /\ Size(SubSeq(main, 1, k)) > room
           /\ \E j \in k .. Len(main) :
                  main' = SubSeq(main, 1, k - 1) \o SubSeq(main, j + 1, Len(main))
           /\ torn' \in IF main[k].type = "cont" THEN BOOLEAN ELSE {FALSE}
    /\ spoilt' = TRUE
    /\ UNCHANGED <<kind, ochk, stores, known, room, atEnd, handle, attrs>>

WriteAttribute(n, v) ==
    \/ ReplaceCompact(n, v)
    \/ AddCompact(n, v)
    \/ AddViaContinuation(n, v)
    \/ TransitionToDense(n, v)
    \/ WriteDense(n, v)

DeleteAttribute(n) == DeleteDense(n) \/ DeleteCompact(n)

\* Every operation reads the header first, or has it cached: only datasets do,
\* and they have no continuation blocks.
Next == /\ ~ torn
        /\ \/ \E n \in Names, v \in Values : WriteAttribute(n, v)
           \/ \E n \in Names : DeleteAttribute(n)
           \/ Resize \/ ReopenRoot \/ OpenDataset \/ AllocateBehind \/ WriteBehind

Spec == Init /\ [][Next]_vars

-----------------------------------------------------------------------------
(* Properties *)

\* Types; a continuation message and an attribute info message refer to a
\* block and a store that were written before them.
TypeOK ==
    LET isMessage(m) == \/ m = Padding
                        \/ m.type = "attr" /\ m.name \in Names /\ m.val \in Values
                        \/ m.type = "cont" /\ m.block \in DOMAIN ochk
                        \/ m.type = "info" /\ m.store \in DOMAIN stores
    IN  /\ kind \in Kinds
        /\ \A i \in DOMAIN main : isMessage(main[i])
        /\ \A i \in DOMAIN ochk : isMessage(ochk[i]) /\ ochk[i].type = "attr"
        /\ \A i \in DOMAIN stores : stores[i] \in [DOMAIN stores[i] -> Values]
        /\ known \in Nat /\ room \in Nat
        /\ {atEnd, torn, spoilt, handle.created, handle.cached} \subseteq BOOLEAN
        /\ handle.info \in 0 .. Len(stores)
        /\ DOMAIN attrs \subseteq Names

\* ParseAttributesFromMessages, what a reader finds: compact attributes in
\* the order of their messages, and those of the dense store.
Dense == IF StoreOf(Read) = 0 THEN <<>> ELSE stores[StoreOf(Read)]
Value(n) == LET i == IndexOf(Messages(Read), n)
            IN  IF i # 0 THEN Messages(Read)[i].val ELSE Dense[n]

\* A reader finds every attribute that was written and not deleted, with its
\* last value and once: over in-place growth, continuation blocks, the
\* transition to dense storage, resizing and reopening.  The exceptions are
\* the three that spoilt stands for: replacing or deleting an attribute while
\* there are continuation blocks; writing back a cached header that is older
\* than the one on disk; and a header longer than its allocation, once it or
\* the block behind it was written over the other.
ReadsBack ==
    ~ spoilt =>
        /\ Len(CompactAttrs(Read)) + Cardinality(DOMAIN Dense)
               = Cardinality(DOMAIN attrs)
        /\ \A n \in DOMAIN attrs :
               /\ IndexOf(Messages(Read), n) # 0 \/ n \in DOMAIN Dense
               /\ Value(n) = attrs[n]

\* Attributes are compact or dense and never both, whatever header was
\* written back: a reader collects both, and writeAttribute looks at one.
OneForm == StoreOf(Read) # 0 => CompactAttrs(Read) = <<>>

Inside == atEnd \/ Size(main) <= room

\* "This prevents corruption of adjacent structures when attributes are
\* added" (writeCompactAttribute): where the allocation of the header is
\* known, and not taken for more than it is, adding an attribute does not
\* write past it.
AddStaysInside ==
    [][(/\ 0 < known /\ known <= room /\ Inside
        /\ \E n \in DOMAIN attrs' \ DOMAIN attrs : IndexOf(Messages(Read), n) = 0)
            => Inside']_vars
=============================================================================
