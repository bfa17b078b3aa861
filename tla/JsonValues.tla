----------------------------- MODULE JsonValues -----------------------------
(***************************************************************************)
(* What a set of JsonObject variables promises: each holds a JSON value of *)
(* its own, or nothing.  Copies are deep, so that a change of one variable *)
(* is never seen through another; a move leaves nothing behind.            *)
(***************************************************************************)
EXTENDS JsonShape, SequencesExt

VARIABLE doc

RECURSIVE SubValues(_)
SubValues(value) ==
    {value} \cup UNION {SubValues(value.members[k]) : k \in DOMAIN value.members}

\* A value that is not an object becomes one when it is given a member.
With(value, key, member) ==
    Put(IF value = Nothing THEN EmptyObject
        ELSE IF value.kind = "object" THEN value ELSE EmptyObject, key, member)

OrEmpty(value) == IF value = Nothing THEN EmptyObject ELSE value

\* The array of the values of a vector; an object without one is left out.
ArrayOf(s) ==
    FoldLeft(LAMBDA array, o :
                IF doc[o] = Nothing THEN array ELSE Put(array, NextPosition(array), doc[o]),
             EmptyArray, s)

Emptied(s) == [o \in Objects |-> IF o \in Range(s) THEN Nothing ELSE doc[o]]

Init == doc = [o \in Objects |-> Nothing]

Set(o, value) == doc' = [doc EXCEPT ![o] = value]

Move(o, p) == o # p /\ doc' = [doc EXCEPT ![o] = doc[p], ![p] = Nothing]

WithMoved(o, key, p) ==
    LET left == Emptied(<<p>>)
    IN doc' = [left EXCEPT ![o] = With(left[o], key, OrEmpty(doc[p]))]

AsMovedArray(o, s) == doc' = [Emptied(s) EXCEPT ![o] = ArrayOf(s)]

WithMovedArray(o, key, s) ==
    LET left == Emptied(s)
    IN doc' = [left EXCEPT ![o] = With(left[o], key, ArrayOf(s))]

\* A value parsed from a string, or copied from part of another one.
Receive(o) ==
    \/ \E leaf \in Leaves, key \in Keys :
        Set(o, Leaf(leaf)) \/ Set(o, With(Nothing, key, Leaf(leaf)))
    \/ \E p \in Objects :
        doc[p] # Nothing /\ \E value \in SubValues(doc[p]) : Set(o, value)

Next ==
    \E o \in Objects :
        \/ Set(o, Nothing) \/ Receive(o)
        \/ \E p \in Objects, key \in Keys :
            Set(o, doc[p]) \/ Move(o, p)
                \/ Set(o, With(doc[o], key, OrEmpty(doc[p]))) \/ WithMoved(o, key, p)
        \/ \E key \in Keys, leaf \in Leaves : Set(o, With(doc[o], key, Leaf(leaf)))
        \/ \E s \in Vectors, key \in Keys :
            \/ Set(o, ArrayOf(s)) \/ AsMovedArray(o, s)
            \/ Set(o, With(doc[o], key, ArrayOf(s))) \/ WithMovedArray(o, key, s)

Spec == Init /\ [][Next]_doc

=============================================================================
