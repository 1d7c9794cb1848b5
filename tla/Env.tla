----------------------------------- MODULE Env -----------------------------------
(***************************************************************************)
(* ENV: the environment variables as a store of values by name, and the    *)
(* methods in env.rb that are made of [], []= and to_h. Those that go      *)
(* through all variables go through a copy of the store, in the order of   *)
(* a Hash, while their block may change the store. A method that may raise *)
(* has a record of whether it returned, the store it left and its answer.  *)
(***************************************************************************)
EXTENDS Naturals, Sequences, FiniteSets, Functions, TLC

CONSTANTS
    Name, Value,    \* strings that name a variable and that are a value
    HasNul, HasEq,  \* those with a NUL byte, and names with a "=" in them
    Empty,          \* the name without bytes
    NoValue         \* Ruby's nil

(* Names that put stores a value under.                                    *)
Settable == Name \ (HasNul \cup HasEq \cup {Empty})

Returns(env, answer) == [ok |-> TRUE, env |-> env, answer |-> answer]
Raises(env) == [ok |-> FALSE, env |-> env, answer |-> NoValue]

(***************************************************************************)
(* The two stores: a HashMap, and the process with its setenv. A process   *)
(* may be started with names that begin with a "=", which put refuses.     *)
(***************************************************************************)

Get(env, name) ==
    IF name \in HasNul THEN Raises(env)
    ELSE Returns(env, IF name \in Settable \cap DOMAIN env THEN env[name] ELSE NoValue)

With(env, name, value) == (name :> value) @@ env
Without(env, name) == Restrict(env, DOMAIN env \ {name})

(* A mutant of Put: a name with a "=" is stored like any other.            *)
PutAnyName(env, name, value) ==
    IF name \in HasNul \/ value \in HasNul THEN Raises(env)
    ELSE IF value # NoValue
    THEN IF name = Empty THEN Raises(env) ELSE Returns(With(env, name, value), value)
    ELSE Returns(IF name \in Settable THEN Without(env, name) ELSE env, value)

Put(env, name, value) ==
    IF name \in HasNul \/ value \in HasNul THEN Raises(env)
    ELSE IF value # NoValue
    THEN IF name \in Settable THEN Returns(With(env, name, value), value) ELSE Raises(env)
    ELSE Returns(IF name \in Settable THEN Without(env, name) ELSE env, value)

(***************************************************************************)
(* Methods of one variable.                                                *)
(***************************************************************************)

Delete(env, name) ==
    LET value == Get(env, name) IN
    IF ~value.ok \/ value.answer = NoValue THEN value
    ELSE Returns(Put(env, name, NoValue).env, value.answer)

(* key? and member? read the variable, has_key? and include? the copy.     *)
KeyP(env, name) ==
    LET value == Get(env, name) IN
    IF value.ok THEN Returns(env, value.answer # NoValue) ELSE value
HasKeyP(env, name) == name \in DOMAIN env

Assoc(env, name) ==
    LET value == Get(env, name) IN
    IF ~value.ok \/ value.answer = NoValue THEN value
    ELSE Returns(env, <<name, value.answer>>)

(* fetch with and without a default, which may be nil.                     *)
Fetch(env, name) ==
    LET value == Get(env, name) IN
    IF value.ok /\ value.answer = NoValue THEN Raises(env) ELSE value
FetchOr(env, name, default) ==
    LET value == Get(env, name) IN
    IF value.ok /\ value.answer = NoValue THEN Returns(env, default) ELSE value

(***************************************************************************)
(* Methods that go through the variables. The order is one of the names.   *)
(***************************************************************************)

OrdersOf(env) ==
    {order \in [1..Cardinality(DOMAIN env) -> DOMAIN env] :
        \A i, j \in DOMAIN order : i # j => order[i] # order[j]}

(* The first name with this value, for key and index, and for rassoc.      *)
KeyOf(env, order, value) ==
    LET places == {i \in DOMAIN order : env[order[i]] = value} IN
    IF places = {} THEN NoValue
    ELSE order[CHOOSE i \in places : \A j \in places : i <= j]
Rassoc(env, order, value) ==
    LET name == KeyOf(env, order, value) IN
    IF name = NoValue THEN NoValue ELSE <<name, env[name]>>

Shift(env, order) ==
    IF order = <<>> THEN Returns(env, NoValue)
    ELSE Returns(Put(env, order[1], NoValue).env, <<order[1], env[order[1]]>>)

(* A name and a value at a time, as merge! takes them from a Hash.         *)
RECURSIVE PutAll(_, _)
PutAll(env, pairs) ==
    IF pairs = <<>> THEN Returns(env, NoValue)
    ELSE LET put == Put(env, Head(pairs).name, Head(pairs).value) IN
         IF put.ok THEN PutAll(put.env, Tail(pairs)) ELSE put

Clear(env, order) ==
    PutAll(env, [i \in DOMAIN order |-> [name |-> order[i], value |-> NoValue]])

(* merge! with a block that answers for the values of a name that is set.  *)
RECURSIVE MergeWith(_, _, _)
MergeWith(env, pairs, block) ==
    IF pairs = <<>> THEN Returns(env, env)
    ELSE LET pair == Head(pairs)
             set == KeyP(env, pair.name)
             value == IF set.answer = TRUE THEN block[env[pair.name], pair.value] ELSE pair.value
             put == Put(env, pair.name, value)
         IN  IF ~set.ok THEN set
             ELSE IF put.ok THEN MergeWith(put.env, Tail(pairs), block) ELSE put

MergeBang(env, pairs) ==
    LET put == PutAll(env, pairs) IN
    IF put.ok THEN Returns(put.env, put.env) ELSE put

(* The names of the copy for which the block answers true are deleted, one *)
(* by one as the block goes. At one name the block puts a value first.     *)
RECURSIVE DeleteWhile(_, _, _)
DeleteWhile(env, order, block) ==
    IF order = <<>> THEN env
    ELSE LET name == Head(order)
             seen == IF name = block.at THEN Put(env, block.name, block.value).env ELSE env
         IN  DeleteWhile(IF name \in block.yes THEN Delete(seen, name).env ELSE seen,
                         Tail(order), block)

(* select! and filter! call the block for all names before they delete.    *)
DeleteAfter(env, order, block) ==
    LET seen == IF block.at \in DOMAIN env THEN Put(env, block.name, block.value).env ELSE env
        removed == SelectSeq(order, LAMBDA name : name \in block.yes)
    IN  DeleteWhile(seen, removed, [block EXCEPT !.at = NoValue])

DeleteIf(env, order, block) ==
    LET left == DeleteWhile(env, order, block) IN Returns(left, left)

(* The answer is ENV itself, or nil if no name was to be deleted.          *)
Itself(block, env) == IF block.yes \cap DOMAIN env = {} THEN NoValue ELSE "ENV"

RejectBang(env, order, block) ==
    Returns(DeleteWhile(env, order, block), Itself(block, env))
SelectBang(env, order, block) ==
    Returns(DeleteAfter(env, order, block), Itself(block, env))

(* replace puts all pairs of a Hash, then deletes the other names.         *)
Replace(env, pairs) ==
    LET put == PutAll(env, pairs)
        others == DOMAIN put.env \ {pairs[i].name : i \in DOMAIN pairs}
        order == CHOOSE o \in OrdersOf(put.env) : TRUE
    IN  IF ~put.ok THEN put
        ELSE SelectBang(put.env, order,
                [yes |-> others, at |-> NoValue, name |-> Empty, value |-> NoValue])

(* slice and values_at read the copy.                                      *)
Slice(env, names) == Restrict(env, names \cap DOMAIN env)
ValuesAt(env, names) ==
    [i \in DOMAIN names |-> IF names[i] \in DOMAIN env THEN env[names[i]] ELSE NoValue]

(* invert: the last name with a value is the one that the value gets.      *)
Invert(env, order) ==
    [value \in {env[order[i]] : i \in DOMAIN order} |->
        KeyOf(env, [i \in DOMAIN order |-> order[Len(order) + 1 - i]], value)]

=============================================================================
