--------------------------- MODULE BitmapAllocator ---------------------------
(***************************************************************************)
(* kernel/src/utils/bitmap_allocator.rs: words of bits under one level of  *)
(* a tree, and the aligned search for a run of clear bits.  A word is the  *)
(* set of its bits that are set.                                           *)
(***************************************************************************)
EXTENDS Naturals, FiniteSets, FiniteSetsExt

CONSTANTS
    WordBits,       \* capacity of a word, 64 in the code
    Words,          \* children of the tree, 16 in the code
    LogCapacity     \* ilog2 of the capacity

CAPACITY == WordBits * Words
NoOffset == CAPACITY

new_full == [bits |-> 0..(Words - 1), child |-> [i \in 0..(Words - 1) |-> 0..(WordBits - 1)]]

\* BitmapAllocator64
set_word(word, start, entries, value) ==
    LET mask == start..(start + entries - 1) IN IF value THEN word \cup mask ELSE word \ mask

next_free_word(word, start) == Min({i \in start..WordBits : i \notin word})

get_word(word, offset) == offset \in word

\* BitmapAllocatorTree: the part of a run that falls into child i, and the
\* bit that says whether the child has any bit set
SetChild(a, i, start, entries, value) ==
    LET from == IF i = start \div WordBits THEN start % WordBits ELSE 0
        to == Min({WordBits, start + entries - i * WordBits})
    IN  set_word(a.child[i], from, to - from, value)

set_bits_sticky(a, start, entries, value) ==
    LET touched == (start \div WordBits)..((start + entries - 1) \div WordBits)
    IN  [child |-> [i \in DOMAIN a.child |->
                      IF i \in touched THEN SetChild(a, i, start, entries, value) ELSE a.child[i]],
         bits |-> IF value THEN a.bits \cup touched ELSE a.bits]

set_bits(a, start, entries, value) ==
    LET touched == (start \div WordBits)..((start + entries - 1) \div WordBits)
        child == [i \in DOMAIN a.child |->
                    IF i \in touched THEN SetChild(a, i, start, entries, value) ELSE a.child[i]]
    IN  [child |-> child,
         bits |-> (a.bits \ touched) \cup {i \in touched : child[i] # {}}]

next_free(a, start) ==
    LET first == start \div WordBits
        from(i) == IF i = first THEN start % WordBits ELSE 0
        found == {i \in first..(Words - 1) : next_free_word(a.child[i], from(i)) < WordBits}
    IN  IF found = {} THEN NoOffset
        ELSE Min(found) * WordBits + next_free_word(a.child[Min(found)], from(Min(found)))

get(a, offset) == get_word(a.child[offset \div WordBits], offset % WordBits)

\* alloc_aligned: the offset found, NoOffset when there is none
alloc_aligned(a, entries, align) ==
    LET step == 2 ^ align
        search[offset \in 0..(CAPACITY + step)] ==
            LET free == next_free(a, offset)
            IN  IF offset + entries > CAPACITY THEN NoOffset
                ELSE IF free # NoOffset /\ free # offset
                       THEN search[((free - 1) \div step) * step + step]
                ELSE IF free = offset /\ \A i \in offset..(offset + entries - 1) : ~get(a, i)
                       THEN offset
                ELSE search[offset + step]
    IN  IF align >= LogCapacity THEN NoOffset ELSE search[0]

\* What alloc_aligned is for: the lowest aligned offset of a clear run
LowestRun(a, entries, align) ==
    Min({NoOffset} \cup {o \in 0..(CAPACITY - 1) :
            /\ o % (2 ^ align) = 0 /\ o + entries <= CAPACITY
            /\ \A i \in o..(o + entries - 1) : ~get(a, i)})
=============================================================================
