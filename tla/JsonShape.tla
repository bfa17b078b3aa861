----------------------------- MODULE JsonShape ------------------------------
(* JSON values and trees: a kind, and members by key. *)
EXTENDS Naturals, Sequences

CONSTANTS
    Objects,   \* JsonObject variables
    Keys,
    Leaves,    \* kinds of values without members
    Nothing    \* a JsonObject without a value

\* A value has members by key; those of an array have their positions as keys.
JsonValue(kind, members) == [kind |-> kind, members |-> members]

First == "#1"

Second == "#2"

Leaf(kind) == JsonValue(kind, <<>>)

EmptyObject == JsonValue("object", <<>>)

EmptyArray == JsonValue("array", <<>>)

\* A value with a member at key, in place of one that is there.
Put(value, key, member) ==
    JsonValue(value.kind, [k \in DOMAIN value.members \cup {key} |->
                              IF k = key THEN member ELSE value.members[k]])

Without(value, key) ==
    JsonValue(value.kind, [k \in DOMAIN value.members \ {key} |-> value.members[k]])

\* The key of the next element of an array.
NextPosition(array) == IF First \in DOMAIN array.members THEN Second ELSE First

\* Vectors of one or two different objects.
Vectors == {s \in Objects \X Objects : s[1] # s[2]} \cup {<<o>> : o \in Objects}

=============================================================================
