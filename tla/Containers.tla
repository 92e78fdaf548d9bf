----------------------------- MODULE Containers -----------------------------
(***************************************************************************)
(* The library's containers: the singly linked List and SortedList         *)
(* (lib/list.cc), cell by cell, and the HashTable of lists with its        *)
(* iterator (lib/hash.cc).  The two are used side by side.                 *)
(***************************************************************************)
EXTENDS Integers, Sequences, FiniteSets, SequencesExt

CONSTANTS Items,                 \* what is kept: numbers
          InitialBuckets, ResizeRatio, IncreaseSizeBy

VARIABLES sorted,                \* the list is a SortedList
          cells,                 \* its ListElements: cell -> [item, next]
          first, last, numInList,
          kept,                  \* the sequence a client expects it to hold
          buckets, numItems,     \* the hash table
          stored                 \* the set of items a client expects in it

listVars == <<sorted, cells, first, last, numInList, kept>>
tableVars == <<buckets, numItems, stored>>
containerVars == <<listVars, tableVars>>

NULL == 0
\* A SortedList's compare function, under which 2n and 2n + 1 are equal.
Smaller(x, y) == x \div 2 < y \div 2

-----------------------------------------------------------------------------
\* The cells in the order ListIterator meets them.
Walk == LET walk[n \in 0 .. Cardinality(DOMAIN cells)] ==
                IF n = 0 THEN IF first = NULL THEN <<>> ELSE <<first>>
                ELSE LET w == walk[n - 1]
                     IN  IF w = <<>> \/ cells[Last(w)].next = NULL THEN w
                         ELSE Append(w, cells[Last(w)].next)
        IN  walk[Cardinality(DOMAIN cells)]
ItemsOn(walk) == [n \in DOMAIN walk |-> cells[walk[n]].item]
IsInList(item) == \E n \in DOMAIN Walk : cells[Walk[n]].item = item
IsEmpty == numInList = 0

\* A new cell, linked to next.
Fresh == CHOOSE c \in 1 .. Cardinality(Items) + 1 : c \notin DOMAIN cells
With(item, next) == [c \in DOMAIN cells \cup {Fresh} |->
                        IF c = Fresh THEN [item |-> item, next |-> next] ELSE cells[c]]
Linked(item, prev, next) == [With(item, next) EXCEPT ![prev].next = Fresh]

Alone(item) == cells' = With(item, NULL) /\ first' = Fresh /\ last' = Fresh
AtFront(item) == cells' = With(item, first) /\ first' = Fresh /\ UNCHANGED last
AtEnd(item) == cells' = Linked(item, last, NULL) /\ last' = Fresh /\ UNCHANGED first
After(item, prev) == /\ cells' = Linked(item, prev, cells[prev].next)
                     /\ UNCHANGED <<first, last>>

ListAppend(item) ==
    /\ ~sorted /\ ~IsInList(item)
    /\ IF IsEmpty THEN Alone(item) ELSE AtEnd(item)
    /\ numInList' = numInList + 1
    /\ kept' = Append(kept, item)
    /\ UNCHANGED <<sorted, tableVars>>

ListPrepend(item) ==
    /\ ~sorted /\ ~IsInList(item)
    /\ IF IsEmpty THEN Alone(item) ELSE AtFront(item)
    /\ numInList' = numInList + 1
    /\ kept' = <<item>> \o kept
    /\ UNCHANGED <<sorted, tableVars>>

\* SortedList::Insert walks to the cell before the first bigger item.
SortedInsert(item) ==
    LET w == Walk
        stops == {n \in 1 .. Len(w) - 1 : Smaller(item, cells[w[n + 1]].item)}
    IN  IF IsEmpty THEN Alone(item)
        ELSE IF Smaller(item, cells[first].item) THEN AtFront(item)
        ELSE IF stops # {} THEN After(item, w[CHOOSE n \in stops : \A m \in stops : n <= m])
        ELSE AtEnd(item)

SortedListInsert(item) ==
    /\ sorted /\ ~IsInList(item)
    /\ SortedInsert(item)
    /\ numInList' = numInList + 1
    /\ kept' = SelectSeq(kept, LAMBDA x : ~Smaller(item, x)) \o <<item>>
               \o SelectSeq(kept, LAMBDA x : Smaller(item, x))
    /\ UNCHANGED <<sorted, tableVars>>

Deleted(c) == [d \in DOMAIN cells \ {c} |-> cells[d]]

RemoveFront ==
    /\ first' = IF first = last THEN NULL ELSE cells[first].next
    /\ last' = IF first = last THEN NULL ELSE last
    /\ cells' = Deleted(first)
    /\ numInList' = numInList - 1

ListRemoveFront ==
    /\ ~IsEmpty /\ RemoveFront
    /\ kept' = Tail(kept)
    /\ UNCHANGED <<sorted, tableVars>>

RemoveInside(item) ==
    LET w == Walk
        n == CHOOSE k \in 2 .. Len(w) : cells[w[k]].item = item
        next == cells[w[n]].next
    IN  /\ cells' = [Deleted(w[n]) EXCEPT ![w[n - 1]].next = next]
        /\ last' = IF next = NULL THEN w[n - 1] ELSE last
        /\ numInList' = numInList - 1
        /\ UNCHANGED first

ListRemove(item) ==
    /\ IsInList(item)
    /\ IF cells[first].item = item THEN RemoveFront ELSE RemoveInside(item)
    /\ kept' = SelectSeq(kept, LAMBDA x : x # item)
    /\ UNCHANGED <<sorted, tableVars>>

-----------------------------------------------------------------------------
\* The hash table's items are their own keys, and hash to themselves.
NumBuckets(table) == Cardinality(DOMAIN table)
HashValue(table, key) == key % NumBuckets(table)

InitBuckets(size) == [b \in 0 .. size - 1 |-> <<>>]

\* The items of all buckets, each bucket from its front.
InOrder(table) == FoldLeft(LAMBDA all, b : all \o table[b - 1], <<>>,
                           [b \in 1 .. NumBuckets(table) |-> b])

\* A bug: items keep the bucket number they had.
ReHashInPlace(table) ==
    FoldLeft(LAMBDA new, item : [new EXCEPT ![HashValue(table, item)] = Append(@, item)],
             InitBuckets(NumBuckets(table) * IncreaseSizeBy), InOrder(table))

ReHash(table) ==
    FoldLeft(LAMBDA new, item : [new EXCEPT ![HashValue(new, item)] = Append(@, item)],
             InitBuckets(NumBuckets(table) * IncreaseSizeBy), InOrder(table))

FindInBucket(bucket, key) == \E n \in DOMAIN bucket : bucket[n] = key
IsInTable(table, key) == FindInBucket(table[HashValue(table, key)], key)

TableInsert(item) ==
    LET table == IF numItems \div NumBuckets(buckets) >= ResizeRatio
                 THEN ReHash(buckets) ELSE buckets
    IN  /\ ~IsInTable(buckets, item)
        /\ buckets' = [table EXCEPT ![HashValue(table, item)] = Append(@, item)]
        /\ numItems' = numItems + 1
        /\ stored' = stored \cup {item}
        /\ UNCHANGED listVars

TableRemove(key) ==
    /\ IsInTable(buckets, key)
    /\ buckets' = [buckets EXCEPT ![HashValue(buckets, key)] =
                                     SelectSeq(@, LAMBDA x : x # key)]
    /\ numItems' = numItems - 1
    /\ stored' = stored \ {key}
    /\ UNCHANGED listVars

\* HashIterator: a bucket and a place in it.
FindNextFullBucket(b) ==
    LET full == {c \in b .. NumBuckets(buckets) - 1 : buckets[c] # <<>>}
    IN  IF full = {} THEN NumBuckets(buckets) ELSE CHOOSE c \in full : \A d \in full : c <= d
IteratorNext(at) == IF at.n < Len(buckets[at.bucket]) THEN [at EXCEPT !.n = @ + 1]
                    ELSE [bucket |-> FindNextFullBucket(at.bucket + 1), n |-> 1]
Iterated ==
    LET at[n \in Nat] == IF n = 0 THEN [bucket |-> FindNextFullBucket(0), n |-> 1]
                         ELSE IteratorNext(at[n - 1])
    IN  [n \in 1 .. numItems |-> IF at[n - 1].bucket = NumBuckets(buckets) THEN -1
                                 ELSE buckets[at[n - 1].bucket][at[n - 1].n]]

ContainerInit ==
    /\ sorted \in BOOLEAN /\ cells = <<>> /\ first = NULL /\ last = NULL
    /\ numInList = 0 /\ kept = <<>>
    /\ buckets = InitBuckets(InitialBuckets) /\ numItems = 0 /\ stored = {}

ListNext == \/ ListRemoveFront
            \/ \E i \in Items : \/ ListAppend(i) \/ ListPrepend(i)
                                \/ SortedListInsert(i) \/ ListRemove(i)
TableNext == \E i \in Items : TableInsert(i) \/ TableRemove(i)

ContainerSpec == ContainerInit /\ [][ListNext \/ TableNext]_containerVars

-----------------------------------------------------------------------------
\* After any sequence of calls the linked list holds exactly the sequence its
\* client expects: Append and Prepend at the ends, SortedList::Insert after the
\* items that are not bigger, and first, last and numInList pass SanityCheck.
ListHoldsSequence ==
    LET w == Walk
    IN  /\ ItemsOn(w) = kept
        /\ numInList = Len(kept)
        /\ DOMAIN cells = ToSet(w)
        /\ IF kept = <<>> THEN first = NULL /\ last = NULL
           ELSE last = Last(w) /\ cells[last].next = NULL

\* Find succeeds for exactly the items in the hash table, whatever resizing by
\* ReHash they went through, and HashIterator meets each of them once.
TableHoldsSet ==
    /\ numItems = Cardinality(stored)
    /\ \A i \in Items : IsInTable(buckets, i) <=> i \in stored
    /\ ToSet(Iterated) = stored
=============================================================================
