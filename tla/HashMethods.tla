------------------------------- MODULE HashMethods -------------------------------
(***************************************************************************)
(* Methods of Hash that are written in Ruby, in hash.rb. A Hash is the     *)
(* sequence of its pairs, each key once, in the order in which the keys    *)
(* came. What mruby does itself, the lookup, [] =, the deletion of a key   *)
(* and the list of keys, is external. each goes by a position in a Hash    *)
(* that its block may change. A block is the function of its answers.      *)
(***************************************************************************)
EXTENDS Naturals, Sequences, SequencesExt

CONSTANT NoEntry    \* Ruby's nil

Pair(key, value) == [key |-> key, value |-> value]

(***************************************************************************)
(* What mruby does.                                                        *)
(***************************************************************************)

Keys(hash) == [i \in DOMAIN hash |-> hash[i].key]
HasKey(hash, key) == \E i \in DOMAIN hash : hash[i].key = key
PlaceOf(hash, key) == CHOOSE i \in DOMAIN hash : hash[i].key = key
Lookup(hash, key) == IF HasKey(hash, key) THEN hash[PlaceOf(hash, key)].value ELSE NoEntry

Stored(hash, key, value) ==
    IF HasKey(hash, key) THEN [hash EXCEPT ![PlaceOf(hash, key)].value = value]
    ELSE Append(hash, Pair(key, value))

Deleted(hash, key) == SelectSeq(hash, LAMBDA pair : pair.key # key)

(***************************************************************************)
(* Making a Hash of a list: of pairs, or of keys and values in turns.      *)
(***************************************************************************)

Failed == [ok |-> FALSE]
Made(hash) == [ok |-> TRUE, hash |-> hash]

StoredAll(hash, pairs) == FoldLeft(LAMBDA h, pair : Stored(h, pair.key, pair.value), hash, pairs)

(* An element of one part is a key without a value.                        *)
OfPairs(list) ==
    LET PairOf(part) == Pair(part[1], IF Len(part) = 2 THEN part[2] ELSE NoEntry) IN
    IF \E i \in DOMAIN list : Len(list[i]) \notin {1, 2} THEN Failed
    ELSE Made(StoredAll(<<>>, [i \in DOMAIN list |-> PairOf(list[i])]))

OfTurns(list) ==
    IF Len(list) % 2 = 1 THEN Failed
    ELSE Made(StoredAll(<<>>,
            [i \in 1..(Len(list) \div 2) |-> Pair(list[2 * i - 1], list[2 * i])]))

(***************************************************************************)
(* Comparing.                                                              *)
(***************************************************************************)

AllIn(hash, other) ==
    \A i \in DOMAIN hash :
        HasKey(other, hash[i].key) /\ Lookup(other, hash[i].key) = hash[i].value

Less(hash, other) == Len(hash) < Len(other) /\ AllIn(hash, other)
AtMost(hash, other) == Len(hash) <= Len(other) /\ AllIn(hash, other)
Equal(hash, other) == Len(hash) = Len(other) /\ AllIn(hash, other)

(***************************************************************************)
(* Selecting. In delete_if and keep_if the block's answer for a pair       *)
(* deletes it at once, and the next pair moves to its position, which each *)
(* then leaves. The others delete after they went through all.             *)
(***************************************************************************)

RECURSIVE DeleteAt(_, _, _)
DeleteAt(hash, idx, doomed) ==
    IF idx >= Len(hash) THEN hash
    ELSE LET key == hash[idx + 1].key IN
         DeleteAt(IF doomed[key] THEN Deleted(hash, key) ELSE hash, idx + 1, doomed)

Not(block) == [key \in DOMAIN block |-> ~block[key]]

DeleteIf(hash, block) == DeleteAt(hash, 0, block)
KeepIf(hash, block) == DeleteAt(hash, 0, Not(block))

Select(hash, block) == StoredAll(<<>>, SelectSeq(hash, LAMBDA pair : block[pair.key]))
Reject(hash, block) == StoredAll(<<>>, SelectSeq(hash, LAMBDA pair : ~block[pair.key]))

(* nil if there was nothing to delete, and the Hash itself otherwise.      *)
RejectBang(hash, block) ==
    LET keys == SelectSeq(Keys(hash), LAMBDA key : block[key]) IN
    [hash |-> FoldLeft(Deleted, hash, keys), answered |-> keys # <<>>]
SelectBang(hash, block) == RejectBang(hash, Not(block))

(* compact! asks a variable that is not there for its size.                *)
CompactBang(hash) == Failed
Compact(hash) == StoredAll(<<>>, SelectSeq(hash, LAMBDA pair : pair.value # NoEntry))

(***************************************************************************)
(* Merging. merge with a block calls it, and leaves its answers alone.     *)
(***************************************************************************)

Merge(hash, other) == StoredAll(hash, other)
MergeAsking(hash, other, block) == hash     

MergeBang(hash, other) == StoredAll(hash, other)
MergeBangAsking(hash, other, block) ==
    FoldLeft(LAMBDA h, pair :
                Stored(h, pair.key, IF HasKey(h, pair.key)
                                    THEN block[Lookup(h, pair.key), pair.value]
                                    ELSE pair.value), hash, other)

(* The Hash is cleared before the other is read, which may be the same.    *)
Replace(hash, other, same) == IF same THEN <<>> ELSE StoredAll(<<>>, other)

(***************************************************************************)
(* Changing keys and values.                                               *)
(***************************************************************************)

(* The first key with the value; and the last one with each, by value.     *)
KeyOf(hash, value) ==
    IF \A i \in DOMAIN hash : hash[i].value # value THEN NoEntry
    ELSE LET i == CHOOSE j \in DOMAIN hash :
                     hash[j].value = value /\ \A k \in 1..(j - 1) : hash[k].value # value
         IN  hash[i].key

Invert(hash) == StoredAll(<<>>, [i \in DOMAIN hash |-> Pair(hash[i].value, hash[i].key)])

TransformKeys(hash, block) ==
    StoredAll(<<>>, [i \in DOMAIN hash |-> Pair(block[hash[i].key], hash[i].value)])

(* One key at a time: the value goes to a key that may be one of the keys  *)
(* that are still to come, and then goes on with that one.                 *)
TransformKeysBang(hash, block) ==
    FoldLeft(LAMBDA h, key : Stored(Deleted(h, key), block[key], Lookup(h, key)),
             hash, Keys(hash))

TransformValues(hash, block) ==
    StoredAll(<<>>, [i \in DOMAIN hash |-> Pair(hash[i].key, block[hash[i].value])])
TransformValuesBang(hash, block) ==
    FoldLeft(LAMBDA h, key : Stored(h, key, block[Lookup(h, key)]), hash, Keys(hash))

=============================================================================
