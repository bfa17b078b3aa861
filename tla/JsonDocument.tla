---------------------------- MODULE JsonDocument ----------------------------
(***************************************************************************)
(* JsonObject and JsonView: JSON values as trees of C nodes.  An object    *)
(* owns the root of a tree, or has none; a view is a bare pointer to a     *)
(* node of some tree, and dangles when that node is freed.                 *)
(*                                                                         *)
(* An address is only an identity, and none is given out twice: the copy   *)
(* of a tree lies behind all the addresses that were used before.          *)
(***************************************************************************)
EXTENDS JsonShape, FiniteSets

CONSTANTS
    Views,      \* JsonView variables
    MaxNodes,   \* bound on the nodes that exist after an operation
    Dangling    \* a view of a node that was freed

\* Neither is an address, and nothing is no object.
ASSUME JsonAssumption == Nothing \notin Nat \cup Objects /\ Dangling \notin Nat

VARIABLES
    m_value,    \* root of each object, or Nothing
    node,       \* the heap: kind and members of each node, by address
    fresh,      \* the addresses from here on were never used
    m_view,     \* m_value of each view
    target      \* the object the last operation was called on

jsonVars == <<m_value, node, fresh, m_view, target>>

Edges(heap) ==
    UNION {{<<p, heap[p].members[k]>> : k \in DOMAIN heap[p].members} : p \in DOMAIN heap}

Closed(edges, S) == \A e \in edges : e[1] \in S => e[2] \in S

\* The nodes of the tree at n: those in every set that has n and the members of its nodes.
Tree(heap, n) ==
    LET edges == Edges(heap)
        Around == {S \in SUBSET DOMAIN heap : n \in S /\ Closed(edges, S)}
    IN {m \in DOMAIN heap : \A S \in Around : m \in S}

JsonInit ==
    /\ m_value = [o \in Objects |-> Nothing]
    /\ node = <<>>
    /\ fresh = 1
    /\ m_view = [v \in Views |-> Nothing]
    /\ target = Nothing

-----------------------------------------------------------------------------
(* The steps of an operation.  Each has a memory and makes another one.     *)

Memory(heap, values, next) == [heap |-> heap, values |-> values, next |-> next]

\* aws_json_value_new_...: a node without members, at m.next.
New(m, value) ==
    Memory([n \in DOMAIN m.heap \cup {m.next} |-> IF n = m.next THEN value ELSE m.heap[n]],
           m.values, m.next + 1)

\* A node whose members lie by a distance behind those of another one.
Shifted(value, distance) ==
    JsonValue(value.kind, [k \in DOMAIN value.members |-> distance + value.members[k]])

\* aws_json_value_duplicate: the copy of a node p in the tree at n is at m.next + p.
Duplicate(m, n) ==
    Memory([a \in DOMAIN m.heap \cup {m.next + p : p \in Tree(m.heap, n)} |->
                IF a \in DOMAIN m.heap THEN m.heap[a]
                ELSE Shifted(m.heap[a - m.next], m.next)],
           m.values, m.next + m.next)

\* aws_json_value_destroy
Destroy(m, n) ==
    Memory([a \in DOMAIN m.heap \ Tree(m.heap, n) |-> m.heap[a]], m.values, m.next)

\* aws_json_value_add_to_object and aws_json_value_add_array_element
Add(m, p, key, n) ==
    Memory([a \in DOMAIN m.heap |-> IF a = p THEN Put(m.heap[p], key, n) ELSE m.heap[a]],
           m.values, m.next)

Detach(m, p, key) ==
    Memory([a \in DOMAIN m.heap |-> IF a = p THEN Without(m.heap[p], key) ELSE m.heap[a]],
           m.values, m.next)

\* aws_json_value_remove_from_object: the member is freed.
RemoveMember(m, p, key) ==
    IF key \in DOMAIN m.heap[p].members
    THEN Destroy(Detach(m, p, key), m.heap[p].members[key]) ELSE m

\* m_value of o is set; what it was is not freed.
Own(m, o, n) == Memory(m.heap, [m.values EXCEPT ![o] = n], m.next)

\* ~JsonObject(), and a new JsonObject() in its place.
Cleared(m, o) == IF m.values[o] = Nothing THEN m ELSE Own(Destroy(m, m.values[o]), o, Nothing)

AsNewValue(m, o, n) == Own(Cleared(m, o), o, n)

IsObject(m, n) == n # Nothing /\ m.heap[n].kind = "object"

\* A value that is no object is replaced by a new one.
WithNewKeyValue(m, o, key, n) ==
    LET m1 == IF IsObject(m, m.values[o]) THEN m ELSE AsNewValue(New(m, EmptyObject), o, m.next)
    IN Add(RemoveMember(m1, m1.values[o], key), m1.values[o], key, n)

\* NewArray, for an element of the vector that is copied or moved to the array at n.
WithCopy(m, n, o) ==
    IF m.values[o] = Nothing THEN m
    ELSE Add(Duplicate(m, m.values[o]), n, NextPosition(m.heap[n]), m.next + m.values[o])

WithMoved(m, n, o) ==
    IF m.values[o] = Nothing THEN m
    ELSE Own(Add(m, n, NextPosition(m.heap[n]), m.values[o]), o, Nothing)

-----------------------------------------------------------------------------
(* Operations of JsonObject *)

Before == Memory(node, m_value, fresh)

\* An operation on o leaves the memory m.
Becomes(o, m) ==
    /\ Cardinality(DOMAIN m.heap) <= MaxNodes
    /\ node' = m.heap /\ m_value' = m.values /\ fresh' = m.next
    /\ m_view' = [v \in Views |-> IF m_view[v] \in DOMAIN node \ DOMAIN m.heap
                                  THEN Dangling ELSE m_view[v]]
    /\ target' = o

\* AsString, AsBool, the numbers and AsNull.
AsLeaf(o, leaf) == Becomes(o, AsNewValue(New(Before, Leaf(leaf)), o, fresh))

\* WithString, WithBool and the numbers.
WithLeaf(o, key, leaf) == Becomes(o, WithNewKeyValue(New(Before, Leaf(leaf)), o, key, fresh))

\* The destructor, and the constructor from a string that is not JSON.
DestroyObject(o) == Becomes(o, Cleared(Before, o))

\* The constructor from a string, assigned.
Parse(o, key, leaf) ==
    LET parsed == Add(New(New(Before, EmptyObject), Leaf(leaf)), fresh, key, fresh + 1)
    IN Becomes(o, AsNewValue(parsed, o, fresh))

\* Mutant of CopyAssign: the copy of an object without a value is an empty one.
CopyOfNothingIsEmpty(o, p) ==
    LET m == Cleared(Before, o)
    IN /\ o # p
       /\ Becomes(o, IF m_value[p] = Nothing THEN Own(New(m, EmptyObject), o, m.next)
                     ELSE Own(Duplicate(m, m_value[p]), o, m.next + m_value[p]))

\* The old value is freed before the other is copied.
CopyAssign(o, p) ==
    LET m == Cleared(Before, o)
    IN /\ o # p
       /\ Becomes(o, IF m_value[p] = Nothing THEN m
                     ELSE Own(Duplicate(m, m_value[p]), o, m.next + m_value[p]))

\* Mutant of MoveAssign: the source keeps the value too.
MoveKeepsSource(o, p) ==
    /\ o # p
    /\ Becomes(o, Own(Cleared(Before, o), o, m_value[p]))

\* Mutant of MoveAssign: the value is copied and the one of the source freed.
MoveCopies(o, p) ==
    LET m == Cleared(Before, o)
    IN /\ o # p
       /\ Becomes(o, IF m_value[p] = Nothing THEN m
                     ELSE Cleared(Own(Duplicate(m, m_value[p]), o, m.next + m_value[p]), p))

MoveAssign(o, p) ==
    /\ o # p
    /\ Becomes(o, Own(Own(Cleared(Before, o), o, m_value[p]), p, Nothing))

\* An object without a value is added as an empty one.
WithObject(o, key, p) ==
    Becomes(o, IF m_value[p] = Nothing THEN WithNewKeyValue(New(Before, EmptyObject), o, key, fresh)
               ELSE WithNewKeyValue(Duplicate(Before, m_value[p]), o, key, fresh + m_value[p]))

\* The value is taken from p before anything else: o may be p.
WithMovedObject(o, key, p) ==
    Becomes(o, IF m_value[p] = Nothing THEN WithNewKeyValue(New(Before, EmptyObject), o, key, fresh)
               ELSE WithNewKeyValue(Own(Before, p, Nothing), o, key, m_value[p]))

\* NewArray: the array is at fresh.
CopiedArray(s) ==
    LET one == WithCopy(New(Before, EmptyArray), fresh, s[1])
    IN IF Len(s) = 1 THEN one ELSE WithCopy(one, fresh, s[2])

MovedArray(s) ==
    LET one == WithMoved(New(Before, EmptyArray), fresh, s[1])
    IN IF Len(s) = 1 THEN one ELSE WithMoved(one, fresh, s[2])

AsArray(o, s) == Becomes(o, AsNewValue(CopiedArray(s), o, fresh))

WithArray(o, key, s) == Becomes(o, WithNewKeyValue(CopiedArray(s), o, key, fresh))

AsMovedArray(o, s) == Becomes(o, AsNewValue(MovedArray(s), o, fresh))

WithMovedArray(o, key, s) == Becomes(o, WithNewKeyValue(MovedArray(s), o, key, fresh))

-----------------------------------------------------------------------------
(* Operations of JsonView, on views that do not dangle *)

Seen(v, n) ==
    /\ m_view' = [m_view EXCEPT ![v] = n]
    /\ target' = Nothing
    /\ UNCHANGED <<m_value, node, fresh>>

View(v, o) == Seen(v, m_value[o])

Member(v, key) ==
    IF m_view[v] = Nothing THEN Nothing
    ELSE IF key \in DOMAIN node[m_view[v]].members THEN node[m_view[v]].members[key] ELSE Nothing

\* GetJsonObject, and an element of GetAllObjects, GetArray or AsArray.
GetJsonObject(v, key) == m_view[v] # Dangling /\ Seen(v, Member(v, key))

\* GetJsonObjectCopy and Materialize: the copy, or nothing, is moved to o.
CopyFromView(o, n) ==
    Becomes(o, IF n = Nothing THEN Cleared(Before, o)
               ELSE AsNewValue(Duplicate(Before, n), o, fresh + n))

Materialize(o, v) == m_view[v] # Dangling /\ CopyFromView(o, m_view[v])

GetJsonObjectCopy(o, v, key) == m_view[v] # Dangling /\ CopyFromView(o, Member(v, key))

JsonNext ==
    \/ \E o \in Objects :
        \/ DestroyObject(o)
        \/ \E leaf \in Leaves, key \in Keys :
            AsLeaf(o, leaf) \/ WithLeaf(o, key, leaf) \/ Parse(o, key, leaf)
        \/ \E p \in Objects : CopyAssign(o, p) \/ MoveAssign(o, p)
        \/ \E p \in Objects, key \in Keys : WithObject(o, key, p) \/ WithMovedObject(o, key, p)
        \/ \E s \in Vectors : AsArray(o, s) \/ AsMovedArray(o, s)
        \/ \E s \in Vectors, key \in Keys : WithArray(o, key, s) \/ WithMovedArray(o, key, s)
        \/ \E v \in Views : Materialize(o, v) \/ \E key \in Keys : GetJsonObjectCopy(o, v, key)
    \/ \E v \in Views :
        \/ \E o \in Objects : View(v, o)
        \/ \E key \in Keys \cup {First, Second} : GetJsonObject(v, key)

JsonSpec == JsonInit /\ [][JsonNext]_jsonVars

-----------------------------------------------------------------------------
(* Properties *)

\* The objects and the members that have n.
Owners(n) ==
    {<<o>> : o \in {p \in Objects : m_value[p] = n}}
        \cup UNION {{<<p, k>> : k \in {l \in DOMAIN node[p].members : node[p].members[l] = n}} :
                        p \in DOMAIN node}

\* Every node has one owner, a JsonObject or its parent, and is in the tree of some
\* JsonObject: nothing is freed twice or leaked.
NodesOwnedOnce ==
    \A n \in DOMAIN node :
        /\ \E x \in Owners(n) : Owners(n) = {x}
        /\ \E o \in Objects : m_value[o] # Nothing /\ n \in Tree(node, m_value[o])

\* An operation invalidates only views of the object it is called on: views of what is
\* moved, copied or left alone stay valid and see the nodes they saw ("views to the
\* moved-from DOM would still valid", JsonObject.h).
OtherViewsStayValid ==
    [][target' \in Objects =>
        \A v \in Views :
            /\ m_view[v] \in DOMAIN node
            /\ m_value[target'] # Nothing => m_view[v] \notin Tree(node, m_value[target'])
            => /\ m_view'[v] = m_view[v]
               /\ \A n \in Tree(node, m_view[v]) : n \in DOMAIN node' /\ node'[n] = node[n]]_jsonVars

=============================================================================
