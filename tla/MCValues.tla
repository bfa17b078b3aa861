------------------------------ MODULE MCValues ------------------------------
(***************************************************************************)
(* The native objects on a small scale: three threads, two TLS objects of  *)
(* each class.  A third subject, json, is added here: two JSON objects and *)
(* a view, up to four nodes.                                               *)
(***************************************************************************)
EXTENDS NativeObjects, JsonDocument, SequencesExt

CONSTANTS t1, t2, t3, o1, o2, v1, n1, n2, s1, s2

MCThreads == {t1, t2, t3}
MCObjects == {o1, o2}
MCNatives == {n1, n2}
MCStructs == {s1, s2}
MCViews == {v1}

MCInit == ObjectsInit /\ JsonInit

MCNext ==
    \/ ObjectsNext /\ UNCHANGED jsonVars
    \/ subject = "json" /\ JsonNext /\ UNCHANGED objectsVars

MCSpec == MCInit /\ [][MCNext]_<<objectsVars, jsonVars>>

\* The JSON value that a tree stands for.
RECURSIVE Value(_)
Value(n) ==
    IF n = Nothing THEN Nothing
    ELSE JsonValue(node[n].kind,
                   [k \in DOMAIN node[n].members |-> Value(node[n].members[k])])

Documents == [o \in Objects |-> Value(m_value[o])]

Values == INSTANCE JsonValues WITH doc <- Documents

\* The trees behave as values: whatever is copied, moved, added to itself or taken
\* from a view, a call changes the value of one JsonObject and empties those it moves
\* from, and the change is one that some operation on values makes.
ImplementsValues == Values!Spec

ObjectOrder == SetToSeq(Objects)

MemberOrder == SetToSeq(Keys) \o <<First, Second>>

\* The nodes reached from those in todo, after those seen before.
RECURSIVE Walk(_, _)
Walk(seen, todo) ==
    IF todo = <<>> THEN seen
    ELSE IF Head(todo) \in ToSet(seen) THEN Walk(seen, Tail(todo))
    ELSE LET n == Head(todo)
             keys == SelectSeq(MemberOrder, LAMBDA k : k \in DOMAIN node[n].members)
         IN Walk(Append(seen, n), [i \in DOMAIN keys |-> node[n].members[keys[i]]] \o Tail(todo))

\* An address is only an identity: states that differ in the addresses of their nodes
\* are one.  A node counts by its place in the order in which the objects reach them.
\* (The two equalities make TLC compute the functions before it stores a state.)
WithoutAddresses ==
    LET roots == SelectSeq([i \in DOMAIN ObjectOrder |-> m_value[ObjectOrder[i]]],
                           LAMBDA n : n # Nothing)
        live == Walk(<<>>, roots \o SetToSeq(DOMAIN node))
        Place(n) == IF n \in DOMAIN node THEN CHOOSE i \in DOMAIN live : live[i] = n ELSE n
    IN <<objectsVars, target,
         [i \in DOMAIN live |->
             JsonValue(node[live[i]].kind,
                       [k \in DOMAIN node[live[i]].members |-> Place(node[live[i]].members[k])])],
         [o \in Objects |-> Place(m_value[o])],
         [v \in Views |-> Place(m_view[v])], node = node, m_value = m_value>>

=============================================================================
