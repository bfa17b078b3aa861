------------------------- MODULE JsonDocumentProofs -------------------------
(***************************************************************************)
(* Proofs about JsonObject and JsonView, for any sets of objects, views,   *)
(* keys and kinds of values, and documents of any size and depth.          *)
(*                                                                         *)
(* That every node has one owner is not inductive: a step that frees or    *)
(* copies a tree must know that no other object reaches into it.  JsonIInv *)
(* says that the heap is a forest whose roots are the nodes that the       *)
(* objects have, one each.  An operation is a sequence of steps of the C   *)
(* library and holds nodes in hand between them: each step keeps Sound,    *)
(* the forest with those nodes as further roots and everything outside the *)
(* tree of the object it is called on as it was.  The tree at a node is    *)
(* the least set that has the node and the members of its nodes, so that   *)
(* nothing here needs an induction over documents.                         *)
(***************************************************************************)
EXTENDS JsonDocument, TLAPS

-----------------------------------------------------------------------------
(* Trees *)

\* S has the members of its nodes.
Closes(heap, S) ==
    \A p \in S : \A k \in DOMAIN heap[p].members : heap[p].members[k] \in S

\* Members are nodes.
Linked(heap) == DOMAIN heap \subseteq Nat /\ Closes(heap, DOMAIN heap)

\* No node is a member twice.
OneParent(heap) ==
    \A p, q \in DOMAIN heap :
        \A k \in DOMAIN heap[p].members, l \in DOMAIN heap[q].members :
            heap[p].members[k] = heap[q].members[l] => p = q /\ k = l

\* The nodes in R are no members.
NoParent(heap, R) ==
    \A p \in DOMAIN heap : \A k \in DOMAIN heap[p].members : heap[p].members[k] \notin R

\* Every node is reached from R.
Reached(heap, R) ==
    \A S \in SUBSET DOMAIN heap : R \subseteq S /\ Closes(heap, S) => S = DOMAIN heap

\* The heap is a forest with the roots R.
Forest(heap, R) ==
    /\ Linked(heap) /\ OneParent(heap)
    /\ R \subseteq DOMAIN heap /\ NoParent(heap, R) /\ Reached(heap, R)

\* The tree at a node, as aws_json_value_destroy and aws_json_value_duplicate walk it, is
\* the least set of nodes that has the node and the members of its nodes.
LEMMA TreeIsLeast ==
    ASSUME NEW heap, Linked(heap), NEW n \in DOMAIN heap
    PROVE  /\ Tree(heap, n) \subseteq DOMAIN heap
           /\ n \in Tree(heap, n)
           /\ Closes(heap, Tree(heap, n))
           /\ \A S \in SUBSET DOMAIN heap :
                n \in S /\ Closes(heap, S) => Tree(heap, n) \subseteq S
<1>1. ASSUME NEW S \in SUBSET DOMAIN heap
      PROVE  Closed(Edges(heap), S) <=> Closes(heap, S)
  <2>1. ASSUME Closed(Edges(heap), S), NEW p \in S, NEW k \in DOMAIN heap[p].members
        PROVE  heap[p].members[k] \in S
    <3>1. <<p, heap[p].members[k]>> \in Edges(heap)
      BY DEF Edges
    <3> QED
      BY <2>1, <3>1, Zenon DEF Closed
  <2>2. ASSUME Closes(heap, S), NEW e \in Edges(heap), e[1] \in S
        PROVE  e[2] \in S
    <3>1. PICK p \in DOMAIN heap : \E k \in DOMAIN heap[p].members : e = <<p, heap[p].members[k]>>
      BY Zenon DEF Edges
    <3> QED
      BY <2>2, <3>1 DEF Closes
  <2> QED
    BY <2>1, <2>2, Zenon DEF Closed, Closes
<1>2. Tree(heap, n) =
        {m \in DOMAIN heap : \A S \in SUBSET DOMAIN heap : n \in S /\ Closes(heap, S) => m \in S}
  BY <1>1, Zenon DEF Tree
<1>3. ASSUME NEW p \in Tree(heap, n), NEW k \in DOMAIN heap[p].members
      PROVE  heap[p].members[k] \in Tree(heap, n)
  BY <1>2, Zenon DEF Closes, Linked
<1> QED
  BY <1>2, <1>3, Zenon DEF Closes

\* The parent of a node below n is in the tree at n too.
LEMMA ParentInTree ==
    ASSUME NEW heap, NEW R, Forest(heap, R), NEW n \in DOMAIN heap,
           NEW q \in Tree(heap, n), q # n
    PROVE  /\ q \notin R
           /\ \A p \in DOMAIN heap : \A k \in DOMAIN heap[p].members :
                heap[p].members[k] = q => p \in Tree(heap, n)
<1>1. /\ Tree(heap, n) \subseteq DOMAIN heap /\ n \in Tree(heap, n)
      /\ Closes(heap, Tree(heap, n))
      /\ \A S \in SUBSET DOMAIN heap : n \in S /\ Closes(heap, S) => Tree(heap, n) \subseteq S
  BY TreeIsLeast, Zenon DEF Forest
<1>2. ~Closes(heap, Tree(heap, n) \ {q})
  BY <1>1, Zenon
<1>3. PICK p \in Tree(heap, n) : \E k \in DOMAIN heap[p].members : heap[p].members[k] = q
  BY <1>1, <1>2, Zenon DEF Closes
<1> QED
  BY <1>1, <1>3 DEF Forest, OneParent, NoParent

\* No tree has the parent of its root: no node is below itself.
LEMMA NoCycle ==
    ASSUME NEW heap, NEW R, Forest(heap, R), NEW n \in DOMAIN heap,
           NEW p \in Tree(heap, n), NEW k \in DOMAIN heap[p].members
    PROVE  heap[p].members[k] # n
<1> SUFFICES ASSUME heap[p].members[k] = n
             PROVE  FALSE
  BY Zenon
<1> DEFINE Rest == DOMAIN heap \ Tree(heap, n)
<1>1. Tree(heap, n) \subseteq DOMAIN heap /\ n \in Tree(heap, n)
  BY TreeIsLeast, Zenon DEF Forest
<1>2. R \subseteq Rest
  BY <1>1, ParentInTree DEF Forest, NoParent
<1>3. ASSUME NEW q \in Rest, NEW l \in DOMAIN heap[q].members
      PROVE  heap[q].members[l] \in Rest
  <2>1. heap[q].members[l] # n
    BY <1>1, Zenon DEF Forest, OneParent
  <2> QED
    BY <2>1, ParentInTree DEF Forest, Linked, Closes
<1>4. Rest = DOMAIN heap
  BY <1>2, <1>3, Zenon DEF Forest, Reached, Closes
<1> QED
  BY <1>1, <1>4, Zenon

\* What is not in the tree of a root has no part of it: two trees of the forest share
\* no node, and a view outside of a tree sees nothing of it.
LEMMA TreesApart ==
    ASSUME NEW heap, NEW R, Forest(heap, R), NEW r \in R,
           NEW n \in DOMAIN heap \ Tree(heap, r)
    PROVE  Tree(heap, n) \cap Tree(heap, r) = {}
<1> DEFINE Rest == DOMAIN heap \ Tree(heap, r)
<1>1. Closes(heap, Rest)
  <2>1. ASSUME NEW q \in Rest, NEW l \in DOMAIN heap[q].members
        PROVE  heap[q].members[l] \in Rest
    BY ParentInTree DEF Forest, Linked, Closes, NoParent
  <2> QED
    BY <2>1, Zenon DEF Closes
<1>2. Tree(heap, n) \subseteq Rest
  BY <1>1, TreeIsLeast, Zenon DEF Forest
<1> QED
  BY <1>2, Zenon

-----------------------------------------------------------------------------
(* What the steps of an operation do to a forest *)

Extended(heap, x, kind, h) ==
    h = [n \in DOMAIN heap \cup {x} |-> IF n = x THEN Leaf(kind) ELSE heap[n]]

\* A new node is a tree of its own.
LEMMA NewForest ==
    ASSUME NEW heap, NEW R, Forest(heap, R), NEW x \in Nat \ DOMAIN heap,
           NEW kind, NEW h, Extended(heap, x, kind, h)
    PROVE  Forest(h, R \cup {x})
<1>1. DOMAIN h = DOMAIN heap \cup {x} /\ DOMAIN h[x].members = {}
  <2>1. DOMAIN h = DOMAIN heap \cup {x} /\ h[x] = Leaf(kind)
    BY Zenon DEF Extended
  <2>2. DOMAIN Leaf(kind).members = {}
    BY DEF Leaf, JsonValue
  <2> QED
    BY <2>1, <2>2, Zenon
<1>2. \A n \in DOMAIN heap : h[n] = heap[n]
  BY Zenon DEF Extended
<1>3. Linked(h)
  BY <1>1, <1>2, Zenon DEF Forest, Linked, Closes
<1>4. OneParent(h)
  BY <1>1, <1>2 DEF Forest, OneParent
<1>5. NoParent(h, R \cup {x})
  BY <1>1, <1>2 DEF Forest, NoParent, Linked, Closes
<1>6. ASSUME NEW S \in SUBSET DOMAIN h, R \cup {x} \subseteq S, Closes(h, S)
      PROVE  S = DOMAIN h
  <2>1. Closes(heap, S \ {x})
    <3>1. ASSUME NEW p \in S \ {x}, NEW k \in DOMAIN heap[p].members
          PROVE  heap[p].members[k] \in S \ {x}
      <4>1. p \in DOMAIN heap /\ h[p] = heap[p]
        BY <1>1, <1>2, Zenon
      <4>2. heap[p].members[k] \in DOMAIN heap
        BY <4>1, Zenon DEF Forest, Linked, Closes
      <4> QED
        BY <1>6, <4>1, <4>2, Zenon DEF Closes
    <3> QED
      BY <3>1, Zenon DEF Closes
  <2>2. S \ {x} = DOMAIN heap
    BY <1>1, <1>6, <2>1, Zenon DEF Forest, Reached
  <2> QED
    BY <1>1, <1>6, <2>2, Zenon
<1> QED
  BY <1>1, <1>3, <1>4, <1>5, <1>6, Zenon DEF Forest, Reached

\* When a whole tree is freed, nothing that stays has a member that was freed.
LEMMA DestroyForest ==
    ASSUME NEW heap, NEW R, Forest(heap, R), NEW r \in R,
           NEW h, h = [n \in DOMAIN heap \ Tree(heap, r) |-> heap[n]]
    PROVE  Forest(h, R \ {r})
<1>1. r \in Tree(heap, r) /\ Closes(heap, Tree(heap, r)) /\ Tree(heap, r) \subseteq DOMAIN heap
  BY TreeIsLeast, Zenon DEF Forest
<1>2. DOMAIN h = DOMAIN heap \ Tree(heap, r) /\ \A n \in DOMAIN h : h[n] = heap[n]
  BY Zenon
<1>3. \A q \in Tree(heap, r) \ {r} :
        /\ q \notin R
        /\ \A p \in DOMAIN heap : \A k \in DOMAIN heap[p].members :
            heap[p].members[k] = q => p \in Tree(heap, r)
  BY ParentInTree, Zenon DEF Forest
<1>4. Linked(h)
  BY <1>2, <1>3 DEF Forest, Linked, Closes, NoParent
<1>5. OneParent(h)
  BY <1>2 DEF Forest, OneParent
<1>6. R \ {r} \subseteq DOMAIN h /\ NoParent(h, R \ {r})
  BY <1>2, <1>3, Zenon DEF Forest, NoParent
<1>7. ASSUME NEW S \in SUBSET DOMAIN h, R \ {r} \subseteq S, Closes(h, S)
      PROVE  S = DOMAIN h
  <2>1. Closes(heap, S \cup Tree(heap, r))
    BY <1>1, <1>2, <1>7, Zenon DEF Closes
  <2>2. S \cup Tree(heap, r) = DOMAIN heap
    BY <1>1, <1>2, <1>7, <2>1, Zenon DEF Forest, Reached
  <2> QED
    BY <1>2, <2>2, Zenon
<1> QED
  BY <1>4, <1>5, <1>6, <1>7, Zenon DEF Forest, Reached

\* A root becomes a member of another one.
LEMMA AddForest ==
    ASSUME NEW heap, NEW R, Forest(heap, R), NEW p \in R, NEW r \in R, p # r,
           NEW key, key \notin DOMAIN heap[p].members,
           NEW h, h = [a \in DOMAIN heap |-> IF a = p THEN Put(heap[p], key, r) ELSE heap[a]]
    PROVE  Forest(h, R \ {r})
<1>1. DOMAIN h = DOMAIN heap /\ p \in DOMAIN heap /\ r \in DOMAIN heap
  BY Zenon DEF Forest
<1>2. /\ \A n \in DOMAIN heap \ {p} : h[n] = heap[n]
      /\ DOMAIN h[p].members = DOMAIN heap[p].members \cup {key}
      /\ h[p].members[key] = r
      /\ \A k \in DOMAIN heap[p].members : h[p].members[k] = heap[p].members[k]
  BY <1>1, Zenon DEF Put, JsonValue
<1>3. Linked(h)
  BY <1>1, <1>2 DEF Forest, Linked, Closes
<1>4. OneParent(h)
  BY <1>1, <1>2 DEF Forest, OneParent, NoParent
<1>5. NoParent(h, R \ {r})
  BY <1>1, <1>2 DEF Forest, NoParent
<1>6. ASSUME NEW S \in SUBSET DOMAIN h, R \ {r} \subseteq S, Closes(h, S)
      PROVE  S = DOMAIN h
  <2>1. R \subseteq S
    BY <1>2, <1>6 DEF Closes
  <2>2. Closes(heap, S)
    BY <1>2, <1>6 DEF Closes
  <2> QED
    BY <1>1, <2>1, <2>2, Zenon DEF Forest, Reached
<1> QED
  BY <1>1, <1>3, <1>4, <1>5, <1>6, Zenon DEF Forest, Reached

\* A member becomes a root.
LEMMA DetachForest ==
    ASSUME NEW heap, NEW R, Forest(heap, R), NEW p \in R,
           NEW key \in DOMAIN heap[p].members,
           NEW h, h = [a \in DOMAIN heap |-> IF a = p THEN Without(heap[p], key) ELSE heap[a]]
    PROVE  Forest(h, R \cup {heap[p].members[key]})
<1>1. DOMAIN h = DOMAIN heap /\ p \in DOMAIN heap /\ heap[p].members[key] \in DOMAIN heap
  BY Zenon DEF Forest, Linked, Closes
<1>2. /\ \A n \in DOMAIN heap \ {p} : h[n] = heap[n]
      /\ DOMAIN h[p].members = DOMAIN heap[p].members \ {key}
      /\ \A k \in DOMAIN h[p].members : h[p].members[k] = heap[p].members[k]
  BY <1>1, Zenon DEF Without, JsonValue
<1>3. Linked(h)
  BY <1>1, <1>2 DEF Forest, Linked, Closes
<1>4. OneParent(h)
  BY <1>1, <1>2 DEF Forest, OneParent
<1>5. NoParent(h, R \cup {heap[p].members[key]})
  BY <1>1, <1>2 DEF Forest, NoParent, OneParent
<1>6. ASSUME NEW S \in SUBSET DOMAIN h, R \cup {heap[p].members[key]} \subseteq S, Closes(h, S)
      PROVE  S = DOMAIN h
  <2>1. Closes(heap, S)
    BY <1>1, <1>2, <1>6 DEF Closes
  <2> QED
    BY <1>1, <1>6, <2>1, Zenon DEF Forest, Reached
<1> QED
  BY <1>1, <1>3, <1>4, <1>5, <1>6, Zenon DEF Forest, Reached

\* The addresses from d on are free.
Below(heap, d) == \A a \in DOMAIN heap : a < d

CopiedBehind(heap, n, d, h) ==
    h = [a \in DOMAIN heap \cup {d + p : p \in Tree(heap, n)} |->
            IF a \in DOMAIN heap THEN heap[a] ELSE Shifted(heap[a - d], d)]

\* The copy of a tree, of which every node lies by the same distance behind the copied
\* one, is a tree.
LEMMA DuplicateForest ==
    ASSUME NEW heap, NEW R, Forest(heap, R), NEW n \in DOMAIN heap,
           NEW d \in Nat, Below(heap, d), NEW h, CopiedBehind(heap, n, d, h)
    PROVE  Forest(h, R \cup {d + n})
<1> DEFINE T == Tree(heap, n)
           Copies == {d + p : p \in T}
<1>1. /\ T \subseteq DOMAIN heap /\ n \in T /\ Closes(heap, T)
      /\ \A S \in SUBSET DOMAIN heap : n \in S /\ Closes(heap, S) => T \subseteq S
  BY TreeIsLeast, Zenon DEF Forest
<1>2. DOMAIN heap \subseteq Nat
  BY Zenon DEF Forest, Linked
<1>3. DOMAIN h = DOMAIN heap \cup Copies /\ \A a \in DOMAIN heap : h[a] = heap[a]
  BY Zenon DEF CopiedBehind
<1>4. \A p \in T : /\ d + p \in Nat \ DOMAIN heap /\ (d + p) - d = p
                   /\ d + p \in Copies
  BY <1>1, <1>2 DEF Below
<1>5. ASSUME NEW p \in T
      PROVE  /\ DOMAIN h[d + p].members = DOMAIN heap[p].members
             /\ \A k \in DOMAIN heap[p].members : h[d + p].members[k] = d + heap[p].members[k]
  <2>1. h[d + p] = Shifted(heap[p], d)
    BY <1>4, Zenon DEF CopiedBehind
  <2> QED
    BY <2>1 DEF Shifted, JsonValue
<1> HIDE DEF T
<1>6. \A p \in T : \A k \in DOMAIN heap[p].members : heap[p].members[k] \in T \ {n}
  BY <1>1, NoCycle, Zenon DEF Closes, T
<1>7. ASSUME NEW a \in Copies, NEW k \in DOMAIN h[a].members
      PROVE  \E p \in T : /\ a = d + p /\ k \in DOMAIN heap[p].members
                         /\ heap[p].members[k] \in T \ {n}
                         /\ h[a].members[k] = d + heap[p].members[k]
  <2>1. PICK p \in T : a = d + p
    BY Zenon
  <2> QED
    BY <1>5, <1>6, <2>1, Zenon
<1> HIDE DEF Copies
<1>8. ASSUME NEW a \in DOMAIN heap, NEW k \in DOMAIN h[a].members
      PROVE  /\ k \in DOMAIN heap[a].members /\ h[a].members[k] = heap[a].members[k]
             /\ heap[a].members[k] \in DOMAIN heap \ R
  BY <1>3, Zenon DEF Forest, Linked, Closes, NoParent
<1>9. Linked(h)
  <2>1. DOMAIN h \subseteq Nat
    BY <1>2, <1>3, <1>4, Zenon DEF Copies
  <2>2. ASSUME NEW a \in DOMAIN h, NEW k \in DOMAIN h[a].members
        PROVE  h[a].members[k] \in DOMAIN h
    <3>1. CASE a \in DOMAIN heap
      BY <1>3, <1>8, <3>1, Zenon
    <3>2. CASE a \in Copies
      BY <1>3, <1>4, <1>7, <3>2
    <3> QED
      BY <1>3, <3>1, <3>2, Zenon
  <2> QED
    BY <2>1, <2>2, Zenon DEF Linked, Closes
<1>10. OneParent(h)
  <2>1. ASSUME NEW a \in DOMAIN h, NEW b \in DOMAIN h,
               NEW k \in DOMAIN h[a].members, NEW l \in DOMAIN h[b].members,
               h[a].members[k] = h[b].members[l]
        PROVE  a = b /\ k = l
    <3>1. CASE a \in DOMAIN heap /\ b \in DOMAIN heap
      BY <1>8, <2>1, <3>1 DEF Forest, OneParent
    <3>2. CASE a \in DOMAIN heap /\ b \in Copies
      <4>1. h[b].members[l] \notin DOMAIN heap
        BY <1>4, <1>7, <3>2
      <4> QED
        BY <1>8, <2>1, <3>2, <4>1
    <3>3. CASE a \in Copies /\ b \in DOMAIN heap
      <4>1. h[a].members[k] \notin DOMAIN heap
        BY <1>4, <1>7, <3>3
      <4> QED
        BY <1>8, <2>1, <3>3, <4>1
    <3>4. CASE a \in Copies /\ b \in Copies
      <4>1. PICK p \in T : /\ a = d + p /\ k \in DOMAIN heap[p].members
                           /\ heap[p].members[k] \in T \ {n}
                           /\ h[a].members[k] = d + heap[p].members[k]
        BY <1>7, <3>4
      <4>2. PICK q \in T : /\ b = d + q /\ l \in DOMAIN heap[q].members
                           /\ heap[q].members[l] \in T \ {n}
                           /\ h[b].members[l] = d + heap[q].members[l]
        BY <1>7, <3>4
      <4>3. heap[p].members[k] = heap[q].members[l]
        BY <1>1, <1>2, <2>1, <4>1, <4>2
      <4> QED
        BY <1>1, <4>1, <4>2, <4>3 DEF Forest, OneParent
    <3> QED
      BY <1>3, <3>1, <3>2, <3>3, <3>4, Zenon
  <2> QED
    BY <2>1, Zenon DEF OneParent
<1>11. NoParent(h, R \cup {d + n})
  <2>1. ASSUME NEW a \in DOMAIN h, NEW k \in DOMAIN h[a].members
        PROVE  h[a].members[k] \notin R \cup {d + n}
    <3>1. CASE a \in DOMAIN heap
      BY <1>1, <1>4, <1>8, <3>1
    <3>2. CASE a \in Copies
      <4>1. PICK p \in T : /\ heap[p].members[k] \in T \ {n}
                           /\ h[a].members[k] = d + heap[p].members[k]
        BY <1>7, <3>2
      <4>2. d + heap[p].members[k] # d + n
        BY <1>1, <1>2, <4>1
      <4> QED
        BY <1>4, <4>1, <4>2 DEF Forest
    <3> QED
      BY <1>3, <3>1, <3>2, Zenon
  <2> QED
    BY <2>1, Zenon DEF NoParent
<1>12. ASSUME NEW S \in SUBSET DOMAIN h, R \cup {d + n} \subseteq S, Closes(h, S)
       PROVE  S = DOMAIN h
  <2>1. Closes(heap, S \cap DOMAIN heap)
    BY <1>3, <1>12, Zenon DEF Closes, Forest, Linked
  <2>2. DOMAIN heap \subseteq S
    BY <1>12, <2>1, Zenon DEF Forest, Reached
  <2> DEFINE Copied == {p \in T : d + p \in S}
  <2>3. Copied \in SUBSET DOMAIN heap /\ n \in Copied
    BY <1>1, <1>12, Zenon
  <2>4. Closes(heap, Copied)
    <3>1. ASSUME NEW p \in Copied, NEW k \in DOMAIN heap[p].members
          PROVE  heap[p].members[k] \in Copied
      <4>1. d + p \in S /\ k \in DOMAIN h[d + p].members
        BY <1>5, Zenon
      <4>2. h[d + p].members[k] \in S
        BY <1>12, <4>1, Zenon DEF Closes
      <4> QED
        BY <1>5, <1>6, <4>2, Zenon
    <3> QED
      BY <3>1, Zenon DEF Closes
  <2>5. T \subseteq Copied
    BY <1>1, <2>3, <2>4, Zenon
  <2> QED
    BY <1>3, <2>2, <2>5, Zenon DEF Copies
<1> QED
  BY <1>1, <1>3, <1>4, <1>9, <1>10, <1>11, <1>12 DEF Forest, Reached

-----------------------------------------------------------------------------
(* The steps of an operation *)

\* The nodes that a JsonObject has, and those that the operation has in hand.
Roots(m, H) == {n \in DOMAIN m.heap : n \in H \/ \E o \in Objects : m.values[o] = n}

\* Each is the root of a tree of its own, and these trees are the whole heap.
Good(m, H) ==
    /\ m.values \in [Objects -> DOMAIN m.heap \cup {Nothing}]
    /\ \A o, p \in Objects : m.values[o] = m.values[p] => o = p \/ m.values[o] = Nothing
    /\ H \subseteq DOMAIN m.heap /\ \A o \in Objects : m.values[o] \notin H
    /\ m.next \in Nat /\ Below(m.heap, m.next)
    /\ Forest(m.heap, Roots(m, H))

\* Of the nodes that were there before the operation, only those in T are changed or freed.
Kept(m, T) ==
    \A n \in DOMAIN node \ T : n \in DOMAIN m.heap /\ m.heap[n] = node[n]

\* Moreover, those that are left in T have members in T.
Local(m, T) ==
    /\ Kept(m, T) /\ fresh <= m.next
    /\ T \subseteq DOMAIN node /\ fresh \in Nat /\ Below(node, fresh)
    /\ \A p \in T \cap DOMAIN m.heap :
        \A k \in DOMAIN m.heap[p].members : m.heap[p].members[k] \in T

Sound(m, H, T) == Good(m, H) /\ Local(m, T)

\* aws_json_value_new_...: the node is in hand.
LEMMA NewSound ==
    ASSUME NEW m, NEW H, NEW T, Sound(m, H, T), NEW kind
    PROVE  LET w == New(m, Leaf(kind))
           IN /\ Sound(w, H \cup {m.next}, T)
              /\ m.next \notin DOMAIN m.heap \cup DOMAIN node
              /\ w.values = m.values /\ w.next = m.next + 1
              /\ \A n \in DOMAIN m.heap : w.heap[n] = m.heap[n]
              /\ w.heap[m.next] = Leaf(kind)
<1> DEFINE w == New(m, Leaf(kind))
<1>1. /\ Extended(m.heap, m.next, kind, w.heap)
      /\ w.values = m.values /\ w.next = m.next + 1
  BY Zenon DEF New, Memory, Extended
<1> HIDE DEF w
<1>2. m.next \in Nat \ DOMAIN m.heap /\ m.next \notin DOMAIN node
  BY DEF Sound, Good, Local, Below, Forest, Linked
<1>3. /\ DOMAIN w.heap = DOMAIN m.heap \cup {m.next}
      /\ \A n \in DOMAIN m.heap : w.heap[n] = m.heap[n]
      /\ w.heap[m.next] = Leaf(kind)
  BY <1>1, <1>2, Zenon DEF Extended
<1>4. Forest(w.heap, Roots(m, H) \cup {m.next})
  BY <1>1, <1>2, NewForest, Zenon DEF Sound, Good
<1>5. \A o \in Objects : m.values[o] # m.next
  BY <1>2, JsonAssumption, Zenon DEF Sound, Good
<1>6. Roots(w, H \cup {m.next}) = Roots(m, H) \cup {m.next}
  BY <1>1, <1>2, <1>3, Zenon DEF Roots
<1>7. Below(w.heap, w.next)
  <2>1. m.next \in Nat /\ \A n \in DOMAIN m.heap : n \in Nat /\ n < m.next
    BY Zenon DEF Below, Sound, Good, Forest, Linked
  <2> QED
    BY <1>1, <1>3, <2>1 DEF Below
<1>8. Good(w, H \cup {m.next})
  <2>1. w.values \in [Objects -> DOMAIN w.heap \cup {Nothing}]
    BY <1>1, <1>3, Zenon DEF Good, Sound
  <2>2. w.next \in Nat
    BY <1>1, <1>2
  <2>3. Forest(w.heap, Roots(w, H \cup {m.next}))
    BY <1>4, <1>6, Zenon
  <2>4. H \cup {m.next} \subseteq DOMAIN w.heap
    BY <1>3, Zenon DEF Good, Sound
  <2> QED
    BY <1>1, <1>5, <1>7, <2>1, <2>2, <2>3, <2>4, Zenon DEF Good, Sound
<1>9. Local(w, T)
  <2>1. m.next \notin T /\ fresh <= w.next
    BY <1>1, <1>2 DEF Sound, Local, Good
  <2> QED
    BY <1>3, <2>1, Zenon DEF Sound, Local, Kept
<1> QED
  BY <1>1, <1>2, <1>3, <1>8, <1>9, Zenon DEF Sound, w

\* aws_json_value_destroy, of a tree that is in hand and whose nodes may change: the
\* other roots stay as they are.
LEMMA DestroySound ==
    ASSUME NEW m, NEW H, NEW T, Sound(m, H, T), NEW r \in H \cap T
    PROVE  LET w == Destroy(m, r)
           IN /\ Sound(w, H \ {r}, T)
              /\ w.values = m.values /\ w.next = m.next
              /\ \A n \in Roots(m, H) \ {r} : n \in DOMAIN w.heap /\ w.heap[n] = m.heap[n]
<1> DEFINE w == Destroy(m, r)
<1>1. /\ w.heap = [n \in DOMAIN m.heap \ Tree(m.heap, r) |-> m.heap[n]]
      /\ w.values = m.values /\ w.next = m.next
  BY Zenon DEF Destroy, Memory
<1> HIDE DEF w
<1>2. /\ DOMAIN w.heap = DOMAIN m.heap \ Tree(m.heap, r)
      /\ \A n \in DOMAIN w.heap : w.heap[n] = m.heap[n]
  BY <1>1, Zenon
<1>3. Forest(m.heap, Roots(m, H)) /\ r \in Roots(m, H) /\ r \in DOMAIN m.heap
  BY Zenon DEF Sound, Good, Roots
<1>4. Forest(w.heap, Roots(m, H) \ {r})
  BY <1>1, <1>3, DestroyForest, Zenon
<1>5. Roots(m, H) \ {r} \subseteq DOMAIN w.heap
  BY <1>4, Zenon DEF Forest
<1>6. \A o \in Objects : m.values[o] \in (DOMAIN w.heap \cup {Nothing}) \ {r}
  BY <1>5, Zenon DEF Sound, Good, Roots
<1>7. Roots(w, H \ {r}) = Roots(m, H) \ {r}
  BY <1>1, <1>2, <1>5, <1>6 DEF Roots
<1>8. Good(w, H \ {r})
  <2>1. H \ {r} \subseteq DOMAIN w.heap
    BY <1>5, Zenon DEF Sound, Good, Roots
  <2>2. w.values \in [Objects -> DOMAIN w.heap \cup {Nothing}]
    BY <1>1, <1>6, Zenon DEF Sound, Good
  <2>3. Below(w.heap, w.next)
    BY <1>1, <1>2, Zenon DEF Sound, Good, Below
  <2> QED
    BY <1>1, <1>4, <1>7, <2>1, <2>2, <2>3, Zenon DEF Sound, Good
<1>9. Tree(m.heap, r) \subseteq T
  <2>1. Closes(m.heap, T \cap DOMAIN m.heap)
    BY <1>3, Zenon DEF Sound, Local, Closes, Forest, Linked
  <2> QED
    BY <1>3, <2>1, TreeIsLeast DEF Forest
<1>10. Local(w, T)
  BY <1>1, <1>2, <1>9, Zenon DEF Sound, Local, Kept
<1> QED
  BY <1>1, <1>2, <1>5, <1>8, <1>10, Zenon DEF Sound, w

\* aws_json_value_add_to_object and aws_json_value_add_array_element, of a tree that is
\* in hand to another root: only that root is changed.
LEMMA AddSound ==
    ASSUME NEW m, NEW H, NEW T, Sound(m, H, T), NEW n \in H, NEW p \in Roots(m, H), p # n,
           NEW key, key \notin DOMAIN m.heap[p].members,
           p \in DOMAIN node => p \in T
    PROVE  LET w == Add(m, p, key, n)
           IN /\ Good(w, H \ {n}) /\ Kept(w, T)
              /\ p \notin T => Sound(w, H \ {n}, T)
<1> DEFINE w == Add(m, p, key, n)
<1>1. /\ w.heap = [a \in DOMAIN m.heap |-> IF a = p THEN Put(m.heap[p], key, n) ELSE m.heap[a]]
      /\ w.values = m.values /\ w.next = m.next
  BY Zenon DEF Add, Memory
<1> HIDE DEF w
<1>2. p \in DOMAIN m.heap
  BY Zenon DEF Roots
<1>3. /\ DOMAIN w.heap = DOMAIN m.heap
      /\ \A a \in DOMAIN m.heap \ {p} : w.heap[a] = m.heap[a]
      /\ w.heap[p] = Put(m.heap[p], key, n)
  BY <1>1, <1>2, Zenon
<1>5. Forest(m.heap, Roots(m, H)) /\ n \in Roots(m, H)
  BY Zenon DEF Sound, Good, Roots
<1>6. Forest(w.heap, Roots(m, H) \ {n})
  BY <1>1, <1>5, AddForest
<1>7. \A o \in Objects : m.values[o] # n
  BY Zenon DEF Sound, Good
<1>8. Roots(w, H \ {n}) = Roots(m, H) \ {n}
  BY <1>1, <1>3, <1>7 DEF Roots
<1>9. Good(w, H \ {n})
  <2>1. Below(w.heap, w.next)
    BY <1>1, <1>3, Zenon DEF Sound, Good, Below
  <2>2. /\ w.values \in [Objects -> DOMAIN w.heap \cup {Nothing}] /\ w.next \in Nat
        /\ \A o, q \in Objects : w.values[o] = w.values[q] => o = q \/ w.values[o] = Nothing
    BY <1>1, <1>3 DEF Sound, Good
  <2>3. H \ {n} \subseteq DOMAIN w.heap /\ \A o \in Objects : w.values[o] \notin H \ {n}
    BY <1>1, <1>3, Zenon DEF Sound, Good
  <2> QED
    BY <1>6, <1>8, <2>1, <2>2, <2>3, Zenon DEF Good
<1>10. Kept(w, T)
  BY <1>3, Zenon DEF Sound, Local, Kept
<1>11. ASSUME p \notin T
       PROVE  Local(w, T)
  BY <1>1, <1>3, <1>10, <1>11, Zenon DEF Sound, Local
<1> QED
  BY <1>9, <1>10, <1>11, Zenon DEF Sound, w

\* A member of a root that may change is taken out of it, and is in hand.
LEMMA DetachSound ==
    ASSUME NEW m, NEW H, NEW T, Sound(m, H, T), NEW p \in Roots(m, H) \cap T,
           NEW key \in DOMAIN m.heap[p].members
    PROVE  LET w == Detach(m, p, key)
               c == m.heap[p].members[key]
           IN /\ Sound(w, H \cup {c}, T)
              /\ c \in T /\ c \notin Roots(m, H)
              /\ w.values = m.values /\ w.next = m.next
              /\ DOMAIN w.heap[p].members = DOMAIN m.heap[p].members \ {key}
<1> DEFINE w == Detach(m, p, key)
           c == m.heap[p].members[key]
<1>1. /\ w.heap = [a \in DOMAIN m.heap |-> IF a = p THEN Without(m.heap[p], key) ELSE m.heap[a]]
      /\ w.values = m.values /\ w.next = m.next
  BY Zenon DEF Detach, Memory
<1> HIDE DEF w
<1>2. p \in DOMAIN m.heap /\ Forest(m.heap, Roots(m, H))
  BY Zenon DEF Roots, Sound, Good
<1>3. /\ DOMAIN w.heap = DOMAIN m.heap
      /\ \A a \in DOMAIN m.heap \ {p} : w.heap[a] = m.heap[a]
      /\ w.heap[p] = Without(m.heap[p], key)
  BY <1>1, <1>2, Zenon
<1>4. /\ DOMAIN w.heap[p].members = DOMAIN m.heap[p].members \ {key}
      /\ \A k \in DOMAIN w.heap[p].members : w.heap[p].members[k] = m.heap[p].members[k]
  BY <1>3 DEF Without, JsonValue
<1>5. c \in DOMAIN m.heap /\ c \in T /\ c \notin Roots(m, H)
  BY <1>2, Zenon DEF Sound, Local, Forest, Linked, Closes, NoParent
<1>6. Forest(w.heap, Roots(m, H) \cup {c})
  BY <1>1, <1>2, DetachForest, Zenon
<1> HIDE DEF c
<1>7. \A o \in Objects : m.values[o] # c
  BY <1>5, Zenon DEF Roots
<1>8. Roots(w, H \cup {c}) = Roots(m, H) \cup {c}
  BY <1>1, <1>3, <1>5 DEF Roots
<1>9. Good(w, H \cup {c})
  <2>1. Below(w.heap, w.next)
    BY <1>1, <1>3, Zenon DEF Sound, Good, Below
  <2>2. /\ w.values \in [Objects -> DOMAIN w.heap \cup {Nothing}] /\ w.next \in Nat
        /\ \A o, q \in Objects : w.values[o] = w.values[q] => o = q \/ w.values[o] = Nothing
    BY <1>1, <1>3 DEF Sound, Good
  <2>3. H \cup {c} \subseteq DOMAIN w.heap /\ \A o \in Objects : w.values[o] \notin H \cup {c}
    BY <1>1, <1>3, <1>5, <1>7, Zenon DEF Sound, Good
  <2> QED
    BY <1>6, <1>8, <2>1, <2>2, <2>3, Zenon DEF Good
<1>10. Local(w, T)
  BY <1>1, <1>3, <1>4 DEF Sound, Local, Kept
<1> QED
  BY <1>1, <1>4, <1>5, <1>9, <1>10, Zenon DEF Sound, w, c

\* aws_json_value_duplicate: the copy is in hand.
LEMMA DuplicateSound ==
    ASSUME NEW m, NEW H, NEW T, Sound(m, H, T), NEW n \in DOMAIN m.heap
    PROVE  LET w == Duplicate(m, n)
               c == m.next + n
           IN /\ Sound(w, H \cup {c}, T)
              /\ c \notin DOMAIN m.heap \cup DOMAIN node
              /\ w.values = m.values
              /\ \A a \in DOMAIN m.heap : w.heap[a] = m.heap[a]
<1> DEFINE w == Duplicate(m, n)
           c == m.next + n
           Copies == {m.next + p : p \in Tree(m.heap, n)}
<1>1. /\ CopiedBehind(m.heap, n, m.next, w.heap)
      /\ w.values = m.values /\ w.next = m.next + m.next
  BY Zenon DEF Duplicate, Memory, CopiedBehind
<1> HIDE DEF w
<1>2. /\ m.next \in Nat /\ Below(m.heap, m.next) /\ Forest(m.heap, Roots(m, H))
      /\ DOMAIN m.heap \subseteq Nat
  BY Zenon DEF Sound, Good, Forest, Linked
<1>3. n \in Tree(m.heap, n) /\ Tree(m.heap, n) \subseteq DOMAIN m.heap
  BY <1>2, TreeIsLeast, Zenon DEF Forest
<1>4. /\ DOMAIN w.heap = DOMAIN m.heap \cup Copies
      /\ \A a \in DOMAIN m.heap : w.heap[a] = m.heap[a]
  BY <1>1, Zenon DEF CopiedBehind
<1>5. \A a \in Copies : a \in Nat /\ m.next <= a /\ a < m.next + m.next
  BY <1>2, <1>3 DEF Below
<1>6. c \in Copies
  BY <1>3, Zenon
<1> HIDE DEF Copies, c
<1>7. Copies \cap (DOMAIN m.heap \cup DOMAIN node) = {}
  <2>1. /\ \A a \in DOMAIN m.heap : a \in Nat /\ a < m.next
        /\ \A a \in DOMAIN node : a < fresh
        /\ fresh \in Nat /\ fresh <= m.next
    BY <1>2, Zenon DEF Sound, Local, Below
  <2>2. DOMAIN node \subseteq T \cup DOMAIN m.heap
    BY Zenon DEF Sound, Local, Kept
  <2> QED
    BY <1>2, <1>5, <2>1, <2>2
<1>8. Forest(w.heap, Roots(m, H) \cup {c})
  BY <1>1, <1>2, DuplicateForest, Zenon DEF c
<1>9. \A o \in Objects : m.values[o] # c
  BY <1>2, <1>5, <1>6, <1>7, JsonAssumption, Zenon DEF Sound, Good
<1>10. Roots(w, H \cup {c}) = Roots(m, H) \cup {c}
  <2>1. \A o \in Objects : m.values[o] \in DOMAIN m.heap \cup {Nothing}
    BY Zenon DEF Sound, Good
  <2>2. H \subseteq DOMAIN m.heap /\ \A a \in DOMAIN w.heap : a # Nothing
    BY <1>2, <1>4, <1>5, JsonAssumption, Zenon DEF Sound, Good
  <2> QED
    BY <1>1, <1>4, <1>6, <2>1, <2>2 DEF Roots
<1>11. Good(w, H \cup {c})
  <2>1. Below(w.heap, w.next)
    BY <1>1, <1>2, <1>4, <1>5 DEF Below
  <2>2. w.values \in [Objects -> DOMAIN w.heap \cup {Nothing}] /\ w.next \in Nat
    BY <1>1, <1>2, <1>4 DEF Sound, Good
  <2>3. Forest(w.heap, Roots(w, H \cup {c}))
    BY <1>8, <1>10, Zenon
  <2>4. H \cup {c} \subseteq DOMAIN w.heap
    BY <1>4, <1>6, Zenon DEF Sound, Good
  <2> QED
    BY <1>1, <1>9, <2>1, <2>2, <2>3, <2>4, Zenon DEF Sound, Good
<1>12. Local(w, T)
  <2>1. T \cap Copies = {} /\ fresh <= w.next
    BY <1>1, <1>2, <1>7 DEF Sound, Local
  <2> QED
    BY <1>4, <2>1, Zenon DEF Sound, Local, Kept
<1> QED
  BY <1>1, <1>4, <1>6, <1>7, <1>11, <1>12, Zenon DEF Sound, w, c

\* m_value is set in a JsonObject that has none.
LEMMA OwnSound ==
    ASSUME NEW m, NEW H, NEW T, Sound(m, H, T), NEW o \in Objects, m.values[o] = Nothing,
           NEW n \in H
    PROVE  Sound(Own(m, o, n), H \ {n}, T)
<1> DEFINE w == Own(m, o, n)
<1>1. w.heap = m.heap /\ w.values = [m.values EXCEPT ![o] = n] /\ w.next = m.next
  BY Zenon DEF Own, Memory
<1> HIDE DEF w
<1>2. m.values \in [Objects -> DOMAIN m.heap \cup {Nothing}] /\ n \in DOMAIN m.heap
  BY Zenon DEF Sound, Good
<1>3. /\ w.values \in [Objects -> DOMAIN m.heap \cup {Nothing}]
      /\ w.values[o] = n /\ \A p \in Objects \ {o} : w.values[p] = m.values[p]
  BY <1>1, <1>2, Zenon
<1>4. Nothing \notin DOMAIN m.heap
  BY JsonAssumption, Zenon DEF Sound, Good, Forest, Linked
<1>5. Roots(w, H \ {n}) = Roots(m, H)
  BY <1>1, <1>3, <1>4 DEF Roots
<1>6. Good(w, H \ {n})
  BY <1>1, <1>2, <1>3, <1>5 DEF Sound, Good
<1>7. Local(w, T)
  BY <1>1, Zenon DEF Sound, Local, Kept
<1> QED
  BY <1>6, <1>7, Zenon DEF Sound, w

\* A JsonObject gives up its value, which is in hand.
LEMMA ReleaseSound ==
    ASSUME NEW m, NEW H, NEW T, Sound(m, H, T), NEW o \in Objects, m.values[o] # Nothing
    PROVE  /\ Sound(Own(m, o, Nothing), H \cup {m.values[o]}, T)
           /\ m.values[o] \in DOMAIN m.heap \ H
<1> DEFINE w == Own(m, o, Nothing)
           n == m.values[o]
<1>1. w.heap = m.heap /\ w.values = [m.values EXCEPT ![o] = Nothing] /\ w.next = m.next
  BY Zenon DEF Own, Memory
<1> HIDE DEF w
<1>2. m.values \in [Objects -> DOMAIN m.heap \cup {Nothing}] /\ n \in DOMAIN m.heap \ H
  BY Zenon DEF Sound, Good
<1>3. /\ w.values \in [Objects -> DOMAIN m.heap \cup {Nothing}]
      /\ w.values[o] = Nothing /\ \A p \in Objects \ {o} : w.values[p] = m.values[p]
  BY <1>1, <1>2, Zenon
<1>4. Nothing \notin DOMAIN m.heap
  BY JsonAssumption, Zenon DEF Sound, Good, Forest, Linked
<1>5. Roots(w, H \cup {n}) = Roots(m, H)
  BY <1>1, <1>3, <1>4 DEF Roots
<1>6. Good(w, H \cup {n})
  BY <1>1, <1>2, <1>3, <1>4, <1>5 DEF Sound, Good
<1>7. Local(w, T)
  BY <1>1, Zenon DEF Sound, Local, Kept
<1> QED
  BY <1>2, <1>6, <1>7, Zenon DEF Sound, w

\* ~JsonObject(), of an object whose tree may change: what is in hand stays as it is.
LEMMA ClearedSound ==
    ASSUME NEW m, NEW H, NEW T, Sound(m, H, T), NEW o \in Objects,
           m.values[o] \in T \cup {Nothing}
    PROVE  LET w == Cleared(m, o)
           IN /\ Sound(w, H, T)
              /\ w.values = [m.values EXCEPT ![o] = Nothing] /\ w.next = m.next
              /\ \A n \in H : w.heap[n] = m.heap[n]
<1>1. m.values \in [Objects -> DOMAIN m.heap \cup {Nothing}]
  BY Zenon DEF Sound, Good
<1>2. CASE m.values[o] = Nothing
  <2>1. Cleared(m, o) = m
    BY <1>2, Zenon DEF Cleared
  <2> QED
    BY <1>1, <1>2, <2>1, Zenon
<1>3. CASE m.values[o] # Nothing
  <2> DEFINE r == m.values[o]
             w == Destroy(Own(m, o, Nothing), r)
  <2>1. Cleared(m, o) = w
    BY <1>3, Zenon DEF Cleared, Own, Destroy, Memory
  <2>2. /\ Sound(Own(m, o, Nothing), H \cup {r}, T) /\ r \in DOMAIN m.heap \ H
        /\ Own(m, o, Nothing).heap = m.heap
        /\ Own(m, o, Nothing).values = [m.values EXCEPT ![o] = Nothing]
        /\ Own(m, o, Nothing).next = m.next
    BY <1>3, ReleaseSound, Zenon DEF Own, Memory
  <2>3. r \in (H \cup {r}) \cap T
    BY <1>3, Zenon
  <2> HIDE DEF r
  <2> DEFINE b == Own(m, o, Nothing)
             G == H \cup {r}
  <2> HIDE DEF b, G
  <2>4. Sound(b, G, T) /\ r \in G \cap T
    BY <2>2, <2>3, Zenon DEF b, G
  <2>5. LET d == Destroy(b, r)
        IN /\ Sound(d, G \ {r}, T) /\ d.values = b.values /\ d.next = b.next
           /\ \A n \in Roots(b, G) \ {r} : n \in DOMAIN d.heap /\ d.heap[n] = b.heap[n]
    BY <2>4, DestroySound
  <2>6. /\ Sound(w, G \ {r}, T)
        /\ w.values = [m.values EXCEPT ![o] = Nothing] /\ w.next = m.next
        /\ \A n \in Roots(b, G) \ {r} : w.heap[n] = m.heap[n]
    BY <2>2, <2>5, Zenon DEF b
  <2>7. H \subseteq Roots(b, G) \ {r}
    BY <2>2, Zenon DEF Roots, Sound, Good, b, G
  <2>8. G \ {r} = H
    BY <2>2, Zenon DEF G
  <2> QED
    BY <2>1, <2>6, <2>7, <2>8, Zenon
<1> QED
  BY <1>2, <1>3, Zenon

\* AsNewValue: o has the value that was in hand.
LEMMA AsNewValueSound ==
    ASSUME NEW m, NEW H, NEW T, Sound(m, H, T), NEW o \in Objects,
           m.values[o] \in T \cup {Nothing}, NEW n \in H
    PROVE  LET w == AsNewValue(m, o, n)
           IN /\ Sound(w, H \ {n}, T) /\ w.values[o] = n
              /\ \A a \in H : w.heap[a] = m.heap[a]
<1> DEFINE c == Cleared(m, o)
<1>1. /\ Sound(c, H, T) /\ c.values = [m.values EXCEPT ![o] = Nothing]
      /\ \A a \in H : c.heap[a] = m.heap[a]
  BY ClearedSound
<1> HIDE DEF c
<1>2. m.values \in [Objects -> DOMAIN m.heap \cup {Nothing}]
  BY Zenon DEF Sound, Good
<1>3. c.values[o] = Nothing
  BY <1>1, <1>2, Zenon
<1>4. Sound(Own(c, o, n), H \ {n}, T)
  BY <1>1, <1>3, OwnSound, Zenon
<1>5. Own(c, o, n).heap = c.heap /\ Own(c, o, n).values[o] = n
  BY <1>1, <1>2, Zenon DEF Own, Memory
<1> QED
  BY <1>1, <1>4, <1>5, Zenon DEF AsNewValue, c

\* aws_json_value_remove_from_object, of a root that may change.
LEMMA RemoveMemberSound ==
    ASSUME NEW m, NEW H, NEW T, Sound(m, H, T), NEW p \in Roots(m, H) \cap T, NEW key
    PROVE  LET w == RemoveMember(m, p, key)
           IN /\ Sound(w, H, T) /\ w.values = m.values
              /\ p \in DOMAIN w.heap /\ key \notin DOMAIN w.heap[p].members
<1>1. CASE key \notin DOMAIN m.heap[p].members
  BY <1>1, Zenon DEF RemoveMember, Roots
<1>2. CASE key \in DOMAIN m.heap[p].members
  <2> DEFINE d == Detach(m, p, key)
             c == m.heap[p].members[key]
             w == Destroy(d, c)
  <2>1. /\ Sound(d, H \cup {c}, T) /\ c \in T /\ c \notin Roots(m, H)
        /\ d.values = m.values
        /\ DOMAIN d.heap[p].members = DOMAIN m.heap[p].members \ {key}
    BY <1>2, DetachSound
  <2>2. RemoveMember(m, p, key) = w
    BY <1>2, Zenon DEF RemoveMember
  <2> HIDE DEF d, c
  <2>3. H \subseteq Roots(m, H) /\ p \in DOMAIN m.heap
    BY Zenon DEF Sound, Good, Roots
  <2>4. p \in Roots(d, H \cup {c}) \ {c}
    <3>1. DOMAIN d.heap = DOMAIN m.heap
      BY Zenon DEF d, Detach, Memory
    <3> QED
      BY <2>1, <2>3, <3>1, Zenon DEF Roots
  <2>5. /\ Sound(w, (H \cup {c}) \ {c}, T) /\ w.values = d.values
        /\ \A n \in Roots(d, H \cup {c}) \ {c} : n \in DOMAIN w.heap /\ w.heap[n] = d.heap[n]
    BY <2>1, DestroySound
  <2>6. (H \cup {c}) \ {c} = H
    BY <2>1, <2>3, Zenon
  <2> QED
    BY <2>1, <2>2, <2>4, <2>5, <2>6, Zenon
<1> QED
  BY <1>1, <1>2, Zenon

\* WithNewKeyValue: the value in hand is the member of o that has the key.
LEMMA WithNewKeyValueDone ==
    ASSUME NEW m, NEW n, NEW T, Sound(m, {n}, T), NEW o \in Objects,
           m.values[o] \in T \cup {Nothing}, NEW key
    PROVE  /\ Good(WithNewKeyValue(m, o, key, n), {})
           /\ Kept(WithNewKeyValue(m, o, key, n), T)
<1>1. m.values[o] # n
  BY Zenon DEF Sound, Good
<1>2. CASE IsObject(m, m.values[o])
  <2> DEFINE p == m.values[o]
             w == RemoveMember(m, p, key)
  <2>1. WithNewKeyValue(m, o, key, n) = Add(w, p, key, n)
    BY <1>2, Zenon DEF WithNewKeyValue
  <2>2. p \in Roots(m, {n}) \cap T
    BY <1>2, Zenon DEF IsObject, Sound, Good, Roots
  <2>3. /\ Sound(w, {n}, T) /\ w.values = m.values
        /\ p \in DOMAIN w.heap /\ key \notin DOMAIN w.heap[p].members
    BY <2>2, RemoveMemberSound
  <2> HIDE DEF w
  <2>4. p \in Roots(w, {n})
    BY <2>3, Zenon DEF Roots
  <2>5. Good(Add(w, p, key, n), {n} \ {n}) /\ Kept(Add(w, p, key, n), T)
    BY <1>1, <2>2, <2>3, <2>4, AddSound, Zenon
  <2>6. {n} \ {n} = {}
    BY Zenon
  <2> QED
    BY <2>1, <2>5, <2>6, Zenon
<1>3. CASE ~IsObject(m, m.values[o])
  <2> DEFINE e == New(m, EmptyObject)
             p == m.next
             w == AsNewValue(e, o, p)
  <2>1. WithNewKeyValue(m, o, key, n) = Add(RemoveMember(w, w.values[o], key), w.values[o], key, n)
    BY <1>3, Zenon DEF WithNewKeyValue
  <2>2. /\ Sound(e, {n} \cup {p}, T) /\ e.values = m.values
        /\ p \notin DOMAIN m.heap \cup DOMAIN node /\ e.heap[p] = Leaf("object")
    <3>1. EmptyObject = Leaf("object")
      BY DEF EmptyObject, Leaf
    <3> QED
      BY <3>1, NewSound, Zenon
  <2> HIDE DEF e, p
  <2>3. /\ Sound(w, ({n} \cup {p}) \ {p}, T) /\ w.values[o] = p
        /\ w.heap[p] = Leaf("object")
    <3> DEFINE H == {n} \cup {p}
    <3>1. /\ Sound(e, H, T) /\ p \in H /\ e.values[o] \in T \cup {Nothing}
          /\ e.heap[p] = Leaf("object")
      BY <2>2, Zenon
    <3> HIDE DEF H
    <3>2. /\ Sound(w, H \ {p}, T) /\ w.values[o] = p
          /\ w.heap[p] = Leaf("object")
      BY <3>1, AsNewValueSound
    <3> QED
      BY <3>2, Zenon DEF H
  <2>4. n # p /\ ({n} \cup {p}) \ {p} = {n}
    BY <2>2, Zenon DEF Sound, Good
  <2> HIDE DEF w
  <2>5. key \notin DOMAIN w.heap[p].members
    BY <2>3 DEF Leaf, JsonValue
  <2>6. RemoveMember(w, p, key) = w
    BY <2>5, Zenon DEF RemoveMember
  <2>7. p \in Roots(w, {n})
    <3>1. w.values \in [Objects -> DOMAIN w.heap \cup {Nothing}]
      BY <2>3, Zenon DEF Sound, Good
    <3>2. p # Nothing
      BY JsonAssumption, Zenon DEF Sound, Good, p
    <3> QED
      BY <2>3, <3>1, <3>2, Zenon DEF Roots
  <2>8. Good(Add(w, p, key, n), {n} \ {n}) /\ Kept(Add(w, p, key, n), T)
    <3>1. Sound(w, {n}, T) /\ n \in {n} /\ p \notin DOMAIN node
      BY <2>2, <2>3, <2>4, Zenon
    <3> QED
      BY <2>4, <2>5, <2>7, <3>1, AddSound, Zenon
  <2>9. {n} \ {n} = {}
    BY Zenon
  <2> QED
    BY <2>1, <2>3, <2>6, <2>8, <2>9, Zenon
<1> QED
  BY <1>2, <1>3, Zenon

\* NewArray: an element is copied to the array, of which one element is there at most.
LEMMA WithCopySound ==
    ASSUME NEW m, NEW n, NEW T, Sound(m, {n}, T), n \notin DOMAIN node,
           DOMAIN m.heap[n].members \subseteq {First}, NEW o \in Objects
    PROVE  LET w == WithCopy(m, n, o)
           IN /\ Sound(w, {n}, T) /\ w.values = m.values
              /\ DOMAIN m.heap[n].members = {} => DOMAIN w.heap[n].members \subseteq {First}
<1>1. CASE m.values[o] = Nothing
  BY <1>1, Zenon DEF WithCopy
<1>2. CASE m.values[o] # Nothing
  <2> DEFINE d == Duplicate(m, m.values[o])
             c == m.next + m.values[o]
             key == NextPosition(m.heap[n])
             w == Add(d, n, key, c)
  <2>1. WithCopy(m, n, o) = w
    BY <1>2, Zenon DEF WithCopy
  <2>2. m.values[o] \in DOMAIN m.heap /\ n \in DOMAIN m.heap
    BY <1>2, Zenon DEF Sound, Good
  <2>3. /\ Sound(d, {n} \cup {c}, T) /\ c \notin DOMAIN m.heap
        /\ d.values = m.values /\ d.heap[n] = m.heap[n]
    BY <2>2, DuplicateSound, Zenon
  <2> HIDE DEF d, c
  <2>4. /\ key \notin DOMAIN m.heap[n].members
        /\ DOMAIN m.heap[n].members = {} => key = First
    BY Zenon DEF NextPosition, First, Second
  <2> HIDE DEF key
  <2>5. n \in Roots(d, {n} \cup {c})
    BY <2>3, Zenon DEF Roots, Sound, Good
  <2>6. n \notin T /\ n # c
    BY <2>2, <2>3, Zenon DEF Sound, Local
  <2>7. /\ Sound(w, ({n} \cup {c}) \ {c}, T) /\ w.values = d.values
        /\ DOMAIN w.heap[n].members = DOMAIN d.heap[n].members \cup {key}
    <3> DEFINE H == {n} \cup {c}
    <3>1. /\ Sound(d, H, T) /\ c \in H /\ n \in Roots(d, H) /\ n # c
          /\ key \notin DOMAIN d.heap[n].members
          /\ (n \in DOMAIN node => n \in T) /\ n \notin T
      BY <2>2, <2>3, <2>4, <2>5, <2>6, Zenon
    <3> HIDE DEF H
    <3>2. Sound(w, H \ {c}, T)
      BY <3>1, AddSound, Zenon
    <3>3. w.values = d.values /\ w.heap[n] = Put(d.heap[n], key, c)
      BY <3>1, Zenon DEF Add, Memory, Roots
    <3>4. DOMAIN w.heap[n].members = DOMAIN d.heap[n].members \cup {key}
      BY <3>3 DEF Put, JsonValue
    <3> QED
      BY <3>2, <3>3, <3>4, Zenon DEF H
  <2>8. ({n} \cup {c}) \ {c} = {n}
    BY <2>6, Zenon
  <2> QED
    BY <2>1, <2>3, <2>4, <2>7, <2>8, Zenon
<1> QED
  BY <1>1, <1>2, Zenon

\* NewArray: an element is moved to the array.
LEMMA WithMovedSound ==
    ASSUME NEW m, NEW n, NEW T, Sound(m, {n}, T), n \notin DOMAIN node,
           DOMAIN m.heap[n].members \subseteq {First}, NEW o \in Objects
    PROVE  LET w == WithMoved(m, n, o)
           IN /\ Sound(w, {n}, T) /\ \A p \in Objects : w.values[p] \in {m.values[p], Nothing}
              /\ DOMAIN m.heap[n].members = {} => DOMAIN w.heap[n].members \subseteq {First}
<1>1. CASE m.values[o] = Nothing
  BY <1>1, Zenon DEF WithMoved
<1>2. CASE m.values[o] # Nothing
  <2> DEFINE c == m.values[o]
             d == Own(m, o, Nothing)
             key == NextPosition(m.heap[n])
             w == Add(d, n, key, c)
  <2>1. WithMoved(m, n, o) = w
    BY <1>2, Zenon DEF WithMoved, Own, Add, Memory
  <2>2. /\ Sound(d, {n} \cup {c}, T) /\ c \in DOMAIN m.heap \ {n}
    BY <1>2, ReleaseSound, Zenon
  <2>3. /\ d.heap = m.heap /\ d.values = [m.values EXCEPT ![o] = Nothing]
        /\ m.values \in [Objects -> DOMAIN m.heap \cup {Nothing}]
    BY Zenon DEF Own, Memory, Sound, Good
  <2> HIDE DEF d, c
  <2>4. /\ key \notin DOMAIN m.heap[n].members
        /\ DOMAIN m.heap[n].members = {} => key = First
    BY Zenon DEF NextPosition, First, Second
  <2> HIDE DEF key
  <2>5. n \in Roots(d, {n} \cup {c})
    BY <2>2, Zenon DEF Roots, Sound, Good
  <2>6. n \notin T /\ n # c
    BY <2>2, Zenon DEF Sound, Local
  <2>7. /\ Sound(w, ({n} \cup {c}) \ {c}, T) /\ w.values = d.values
        /\ DOMAIN w.heap[n].members = DOMAIN d.heap[n].members \cup {key}
    <3> DEFINE H == {n} \cup {c}
    <3>1. /\ Sound(d, H, T) /\ c \in H /\ n \in Roots(d, H) /\ n # c
          /\ key \notin DOMAIN d.heap[n].members
          /\ (n \in DOMAIN node => n \in T) /\ n \notin T
      BY <2>2, <2>3, <2>4, <2>5, <2>6, Zenon
    <3> HIDE DEF H
    <3>2. Sound(w, H \ {c}, T)
      BY <3>1, AddSound, Zenon
    <3>3. w.values = d.values /\ w.heap[n] = Put(d.heap[n], key, c)
      BY <3>1, Zenon DEF Add, Memory, Roots
    <3>4. DOMAIN w.heap[n].members = DOMAIN d.heap[n].members \cup {key}
      BY <3>3 DEF Put, JsonValue
    <3> QED
      BY <3>2, <3>3, <3>4, Zenon DEF H
  <2>8. ({n} \cup {c}) \ {c} = {n}
    BY <2>6, Zenon
  <2>9. \A p \in Objects : d.values[p] \in {m.values[p], Nothing}
    BY <2>3, Zenon
  <2> QED
    BY <2>1, <2>3, <2>4, <2>7, <2>8, <2>9, Zenon
<1> QED
  BY <1>1, <1>2, Zenon

-----------------------------------------------------------------------------
(* The operations *)

\* The inductive invariant: the JsonObjects have the whole heap between them, a tree
\* each, and a view that does not dangle is of a node that is there.
JsonIInv ==
    /\ Good(Before, {})
    /\ m_view \in [Views -> DOMAIN node \cup {Nothing, Dangling}]

\* The nodes that an operation on o may change.
TargetTree(o) == IF m_value[o] = Nothing THEN {} ELSE Tree(node, m_value[o])

\* The memory m is one that an operation on o may leave.
Fine(o, m) == Good(m, {}) /\ Kept(m, TargetTree(o))

\* Every operation starts from a memory that is sound, and the node that o has is one that
\* the operation may change.
LEMMA BeforeSound ==
    ASSUME JsonIInv, NEW o \in Objects
    PROVE  /\ Sound(Before, {}, TargetTree(o))
           /\ m_value[o] \in TargetTree(o) \cup {Nothing}
           /\ Before.heap = node /\ Before.values = m_value /\ Before.next = fresh
           /\ m_value \in [Objects -> DOMAIN node \cup {Nothing}]
<1>1. Before.heap = node /\ Before.values = m_value /\ Before.next = fresh
  BY Zenon DEF Before, Memory
<1>2. /\ m_value \in [Objects -> DOMAIN node \cup {Nothing}] /\ fresh \in Nat
      /\ Below(node, fresh) /\ Linked(node)
  BY <1>1, Zenon DEF JsonIInv, Good, Forest
<1>3. TargetTree(o) \subseteq DOMAIN node /\ Closes(node, TargetTree(o))
  BY <1>2, TreeIsLeast, Zenon DEF TargetTree, Closes
<1>4. m_value[o] \in TargetTree(o) \cup {Nothing}
  BY <1>2, TreeIsLeast, Zenon DEF TargetTree
<1>5. Local(Before, TargetTree(o))
  BY <1>1, <1>2, <1>3 DEF Local, Kept, Closes
<1> QED
  BY <1>1, <1>2, <1>4, <1>5, Zenon DEF Sound, JsonIInv

\* An operation starts with a new node,
LEMMA NewFirst ==
    ASSUME JsonIInv, NEW o \in Objects, NEW kind
    PROVE  LET w == New(Before, Leaf(kind))
           IN /\ Sound(w, {fresh}, TargetTree(o)) /\ w.values = m_value /\ w.next = fresh + 1
              /\ fresh \notin DOMAIN node /\ w.heap[fresh] = Leaf(kind)
<1> DEFINE w == New(Before, Leaf(kind))
<1>1. {} \cup {fresh} = {fresh}
  BY Zenon
<1>2. Sound(Before, {}, TargetTree(o)) /\ Before.heap = node /\ Before.values = m_value
  BY BeforeSound, Zenon
<1>3. Before.next = fresh
  BY BeforeSound, Zenon
<1>4. /\ Sound(w, {} \cup {Before.next}, TargetTree(o))
      /\ Before.next \notin DOMAIN node
      /\ w.values = Before.values /\ w.next = Before.next + 1
      /\ w.heap[Before.next] = Leaf(kind)
  BY <1>2, NewSound
<1> QED
  BY <1>1, <1>2, <1>3, <1>4, Zenon

\* or with a copy.
LEMMA DuplicateFirst ==
    ASSUME JsonIInv, NEW o \in Objects, NEW n \in DOMAIN node
    PROVE  LET w == Duplicate(Before, n)
           IN Sound(w, {fresh + n}, TargetTree(o)) /\ w.values = m_value
<1> DEFINE w == Duplicate(Before, n)
<1>1. {} \cup {fresh + n} = {fresh + n}
  BY Zenon
<1>2. Sound(Before, {}, TargetTree(o)) /\ Before.heap = node /\ Before.values = m_value
  BY BeforeSound, Zenon
<1>3. Before.next = fresh
  BY BeforeSound, Zenon
<1>4. n \in DOMAIN Before.heap
  BY <1>2, Zenon
<1>5. Sound(w, {} \cup {Before.next + n}, TargetTree(o)) /\ w.values = Before.values
  BY <1>2, <1>4, DuplicateSound, Zenon
<1> QED
  BY <1>1, <1>2, <1>3, <1>5, Zenon

\* It ends with a new value for o, or with a new member of it.
LEMMA AsNewValueLast ==
    ASSUME NEW m, NEW n, NEW o \in Objects, Sound(m, {n}, TargetTree(o)),
           m.values[o] \in TargetTree(o) \cup {Nothing}
    PROVE  Fine(o, AsNewValue(m, o, n))
<1>1. n \in {n} /\ {n} \ {n} = {}
  BY Zenon
<1>2. Sound(AsNewValue(m, o, n), {n} \ {n}, TargetTree(o))
  BY <1>1, AsNewValueSound, Zenon
<1> QED
  BY <1>1, <1>2, Zenon DEF Fine, Sound, Local

\* ~JsonObject() frees the tree of o and nothing else.
LEMMA ClearedLast ==
    ASSUME JsonIInv, NEW o \in Objects
    PROVE  LET w == Cleared(Before, o)
           IN /\ Fine(o, w) /\ Sound(w, {}, TargetTree(o))
              /\ w.values = [m_value EXCEPT ![o] = Nothing]
BY BeforeSound, ClearedSound DEF Fine, Sound, Local

\* operator=(const JsonObject &): the old value is freed before the other is copied, and
\* is not part of the other.
LEMMA CopyAssignSafe ==
    ASSUME JsonIInv, NEW o \in Objects, NEW p \in Objects, CopyAssign(o, p)
    PROVE  \E m : Becomes(o, m) /\ Fine(o, m)
<1> DEFINE c == Cleared(Before, o)
           d == Duplicate(c, m_value[p])
           n == c.next + m_value[p]
<1>1. /\ Fine(o, c) /\ Sound(c, {}, TargetTree(o))
      /\ c.values = [m_value EXCEPT ![o] = Nothing]
  BY ClearedLast, Zenon
<1>2. o # p /\ Becomes(o, IF m_value[p] = Nothing THEN c ELSE Own(d, o, n))
  BY Zenon DEF CopyAssign
<1> HIDE DEF c
<1>3. CASE m_value[p] = Nothing
  BY <1>1, <1>2, <1>3, Zenon
<1>4. CASE m_value[p] # Nothing
  <2>1. c.values[p] = m_value[p] /\ c.values[o] = Nothing
    BY <1>1, <1>2, BeforeSound, Zenon
  <2>2. m_value[p] \in DOMAIN c.heap
    BY <1>1, <1>4, <2>1, Zenon DEF Sound, Good
  <2>3. Sound(d, {} \cup {n}, TargetTree(o)) /\ d.values = c.values
    BY <1>1, <2>2, DuplicateSound, Zenon
  <2> HIDE DEF d, n
  <2>4. {} \cup {n} = {n} /\ n \in {n} /\ {n} \ {n} = {}
    BY Zenon
  <2>5. Sound(Own(d, o, n), {}, TargetTree(o))
    BY <2>1, <2>3, <2>4, OwnSound
  <2> QED
    BY <1>2, <1>4, <2>5, Zenon DEF Fine, Sound, Local
<1> QED
  BY <1>3, <1>4, Zenon

\* operator=(JsonObject &&): the value changes hands.
LEMMA MoveAssignSafe ==
    ASSUME JsonIInv, NEW o \in Objects, NEW p \in Objects, MoveAssign(o, p)
    PROVE  \E m : Becomes(o, m) /\ Fine(o, m)
<1> DEFINE c == Cleared(Before, o)
           n == m_value[p]
           w == Own(Own(c, o, n), p, Nothing)
<1>1. Sound(c, {}, TargetTree(o)) /\ c.values = [m_value EXCEPT ![o] = Nothing]
  BY ClearedLast, Zenon
<1>2. o # p /\ Becomes(o, w)
  BY Zenon DEF MoveAssign
<1> HIDE DEF c
<1>3. /\ c.values \in [Objects -> DOMAIN c.heap \cup {Nothing}]
      /\ c.values[p] = n /\ c.values[o] = Nothing
  BY <1>1, <1>2, BeforeSound, Zenon DEF Sound, Good
<1> HIDE DEF n
<1>4. /\ w.heap = c.heap /\ w.next = c.next
      /\ w.values = [[c.values EXCEPT ![o] = n] EXCEPT ![p] = Nothing]
  BY Zenon DEF Own, Memory
<1> HIDE DEF w
<1>5. CASE n = Nothing
  <2>1. w.values = c.values
    BY <1>2, <1>3, <1>4, <1>5
  <2>2. Roots(w, {}) = Roots(c, {})
    BY <1>4, <2>1, Zenon DEF Roots
  <2>3. Good(w, {})
    BY <1>1, <1>4, <2>1, <2>2 DEF Sound, Good
  <2>4. Kept(w, TargetTree(o))
    BY <1>1, <1>4, Zenon DEF Sound, Local, Kept
  <2> QED
    BY <1>2, <2>3, <2>4, Zenon DEF Fine
<1>6. CASE n # Nothing
  <2> DEFINE r == Own(c, p, Nothing)
  <2>1. Sound(r, {} \cup {n}, TargetTree(o))
    BY <1>1, <1>3, <1>6, ReleaseSound, Zenon
  <2>2. r.values[o] = Nothing
    BY <1>2, <1>3, Zenon DEF Own, Memory
  <2>3. w = Own(r, o, n)
    <3>1. [[c.values EXCEPT ![o] = n] EXCEPT ![p] = Nothing]
            = [[c.values EXCEPT ![p] = Nothing] EXCEPT ![o] = n]
      BY <1>2, <1>3, Zenon
    <3> QED
      BY <3>1, Zenon DEF Own, Memory, w
  <2> HIDE DEF r
  <2>4. {} \cup {n} = {n} /\ n \in {n} /\ {n} \ {n} = {}
    BY Zenon
  <2>5. Sound(w, {}, TargetTree(o))
    BY <2>1, <2>2, <2>3, <2>4, OwnSound
  <2> QED
    BY <1>2, <2>5, Zenon DEF Fine, Sound, Local
<1> QED
  BY <1>5, <1>6, Zenon

\* The constructor from a string: a parsed object with one member.
LEMMA ParseSafe ==
    ASSUME JsonIInv, NEW o \in Objects, NEW key, NEW leaf, Parse(o, key, leaf)
    PROVE  \E m : Becomes(o, m) /\ Fine(o, m)
<1> DEFINE a == New(Before, EmptyObject)
           b == New(a, Leaf(leaf))
           w == Add(b, fresh, key, fresh + 1)
           H == {fresh} \cup {fresh + 1}
<1>1. Becomes(o, AsNewValue(w, o, fresh))
  BY Zenon DEF Parse
<1>2. /\ Sound(a, {fresh}, TargetTree(o)) /\ a.values = m_value /\ a.next = fresh + 1
      /\ fresh \notin DOMAIN node /\ a.heap[fresh] = Leaf("object")
  BY NewFirst, Zenon DEF Leaf, EmptyObject
<1> HIDE DEF a
<1>3. fresh \in DOMAIN a.heap /\ fresh \in Nat
  BY <1>2, Zenon DEF Sound, Good, Local
<1> DEFINE F == {fresh}
<1>4. Sound(a, F, TargetTree(o)) /\ a.next \notin DOMAIN a.heap
  <2>1. Below(a.heap, a.next) /\ a.next \in Nat
    BY <1>2, Zenon DEF Sound, Good
  <2> QED
    BY <1>2, <2>1 DEF Below
<1>5. /\ Sound(b, H, TargetTree(o)) /\ b.values = m_value /\ b.heap[fresh] = Leaf("object")
  <2>1. b.values = a.values /\ b.heap[fresh] = a.heap[fresh]
    BY <1>3, <1>4, Zenon DEF New, Memory
  <2> HIDE DEF F
  <2>2. Sound(b, F \cup {a.next}, TargetTree(o))
    BY <1>4, NewSound, Zenon
  <2> QED
    BY <1>2, <2>1, <2>2, Zenon DEF F
<1> HIDE DEF b
<1>6. /\ fresh \in Roots(b, H) /\ fresh + 1 \in H /\ fresh # fresh + 1
      /\ fresh \notin TargetTree(o) /\ H \ {fresh + 1} = {fresh}
  BY <1>2, <1>3, <1>5 DEF Roots, Sound, Good, Local
<1>7. key \notin DOMAIN b.heap[fresh].members
  BY <1>5 DEF Leaf, JsonValue
<1> HIDE DEF H
<1>8. Sound(w, H \ {fresh + 1}, TargetTree(o))
  BY <1>2, <1>5, <1>6, <1>7, AddSound, Zenon
<1>9. w.values = m_value
  BY <1>5, Zenon DEF Add, Memory
<1> HIDE DEF w
<1> QED
  BY <1>1, <1>6, <1>8, <1>9, BeforeSound, AsNewValueLast

\* A vector has one object or two.
LEMMA VectorObjects ==
    ASSUME NEW s \in Vectors
    PROVE  s[1] \in Objects /\ (Len(s) # 1 => s[2] \in Objects)
BY DEF Vectors

\* NewArray, which copies the elements of the vector,
LEMMA CopiedArraySound ==
    ASSUME JsonIInv, NEW o \in Objects, NEW s \in Vectors
    PROVE  Sound(CopiedArray(s), {fresh}, TargetTree(o)) /\ CopiedArray(s).values = m_value
<1> DEFINE a == New(Before, EmptyArray)
           one == WithCopy(a, fresh, s[1])
<1>1. /\ Sound(a, {fresh}, TargetTree(o)) /\ a.values = m_value
      /\ fresh \notin DOMAIN node /\ a.heap[fresh] = Leaf("array")
  BY NewFirst, Zenon DEF Leaf, EmptyArray
<1>2. CopiedArray(s) = IF Len(s) = 1 THEN one ELSE WithCopy(one, fresh, s[2])
  BY Zenon DEF CopiedArray
<1> HIDE DEF a
<1>3. DOMAIN a.heap[fresh].members = {}
  BY <1>1 DEF Leaf, JsonValue
<1>4. /\ Sound(one, {fresh}, TargetTree(o)) /\ one.values = a.values
      /\ DOMAIN one.heap[fresh].members \subseteq {First}
  BY <1>1, <1>3, VectorObjects, WithCopySound, Zenon
<1> HIDE DEF one
<1>5. ASSUME Len(s) # 1
      PROVE  LET two == WithCopy(one, fresh, s[2])
             IN Sound(two, {fresh}, TargetTree(o)) /\ two.values = one.values
  BY <1>1, <1>4, <1>5, VectorObjects, WithCopySound, Zenon
<1> QED
  BY <1>1, <1>2, <1>4, <1>5, Zenon

\* and which moves them.
LEMMA MovedArraySound ==
    ASSUME JsonIInv, NEW o \in Objects, NEW s \in Vectors
    PROVE  /\ Sound(MovedArray(s), {fresh}, TargetTree(o))
           /\ MovedArray(s).values[o] \in TargetTree(o) \cup {Nothing}
<1> DEFINE a == New(Before, EmptyArray)
           one == WithMoved(a, fresh, s[1])
<1>1. /\ Sound(a, {fresh}, TargetTree(o)) /\ a.values = m_value
      /\ fresh \notin DOMAIN node /\ a.heap[fresh] = Leaf("array")
  BY NewFirst, Zenon DEF Leaf, EmptyArray
<1>2. MovedArray(s) = IF Len(s) = 1 THEN one ELSE WithMoved(one, fresh, s[2])
  BY Zenon DEF MovedArray
<1> HIDE DEF a
<1>3. DOMAIN a.heap[fresh].members = {}
  BY <1>1 DEF Leaf, JsonValue
<1>4. /\ Sound(one, {fresh}, TargetTree(o)) /\ one.values[o] \in {a.values[o], Nothing}
      /\ DOMAIN one.heap[fresh].members \subseteq {First}
  BY <1>1, <1>3, VectorObjects, WithMovedSound, Zenon
<1> HIDE DEF one
<1>5. ASSUME Len(s) # 1
      PROVE  LET two == WithMoved(one, fresh, s[2])
             IN Sound(two, {fresh}, TargetTree(o)) /\ two.values[o] \in {one.values[o], Nothing}
  BY <1>1, <1>4, <1>5, VectorObjects, WithMovedSound, Zenon
<1>6. m_value[o] \in TargetTree(o) \cup {Nothing}
  BY BeforeSound, Zenon
<1> QED
  BY <1>1, <1>2, <1>4, <1>5, <1>6, Zenon

\* The value that is added may be a copy, or come from the object itself.
LEMMA WithSafe ==
    ASSUME JsonIInv, NEW o \in Objects, NEW p \in Objects, NEW key,
           WithObject(o, key, p) \/ WithMovedObject(o, key, p)
    PROVE  \E m : Becomes(o, m) /\ Fine(o, m)
<1>1. /\ m_value[o] \in TargetTree(o) \cup {Nothing}
      /\ m_value \in [Objects -> DOMAIN node \cup {Nothing}]
  BY BeforeSound, Zenon
<1>2. CASE m_value[p] = Nothing
  <2> DEFINE e == New(Before, EmptyObject)
  <2>1. Sound(e, {fresh}, TargetTree(o)) /\ e.values = m_value
    BY NewFirst, Zenon DEF Leaf, EmptyObject
  <2>2. Becomes(o, WithNewKeyValue(e, o, key, fresh))
    BY <1>2, Zenon DEF WithObject, WithMovedObject
  <2> HIDE DEF e
  <2> QED
    BY <1>1, <2>1, <2>2, WithNewKeyValueDone, Zenon DEF Fine
<1>3. CASE m_value[p] # Nothing /\ WithObject(o, key, p)
  <2> DEFINE d == Duplicate(Before, m_value[p])
             n == fresh + m_value[p]
  <2>1. Sound(d, {n}, TargetTree(o)) /\ d.values = m_value
    BY <1>1, <1>3, DuplicateFirst, Zenon
  <2>2. Becomes(o, WithNewKeyValue(d, o, key, n))
    BY <1>3, Zenon DEF WithObject
  <2> HIDE DEF d, n
  <2> QED
    BY <1>1, <2>1, <2>2, WithNewKeyValueDone, Zenon DEF Fine
<1>4. CASE m_value[p] # Nothing /\ WithMovedObject(o, key, p)
  <2> DEFINE d == Own(Before, p, Nothing)
             n == m_value[p]
  <2>1. Sound(d, {} \cup {n}, TargetTree(o))
    BY <1>4, BeforeSound, ReleaseSound, Zenon
  <2>2. d.values[o] \in TargetTree(o) \cup {Nothing}
    BY <1>1, Zenon DEF Own, Memory, Before
  <2>3. Becomes(o, WithNewKeyValue(d, o, key, n))
    BY <1>4, Zenon DEF WithMovedObject
  <2> HIDE DEF d, n
  <2>4. {} \cup {n} = {n}
    BY Zenon
  <2> QED
    BY <2>1, <2>2, <2>3, <2>4, WithNewKeyValueDone, Zenon DEF Fine
<1> QED
  BY <1>2, <1>3, <1>4, Zenon

\* The operations that put a value into an object, and those that put it into a member.
LEMMA NewValueSafe ==
    ASSUME NEW m, NEW n, NEW o \in Objects, Sound(m, {n}, TargetTree(o)),
           m.values[o] \in TargetTree(o) \cup {Nothing},
           \/ Becomes(o, AsNewValue(m, o, n))
           \/ \E key : Becomes(o, WithNewKeyValue(m, o, key, n))
    PROVE  \E w : Becomes(o, w) /\ Fine(o, w)
<1>1. CASE Becomes(o, AsNewValue(m, o, n))
  BY <1>1, AsNewValueLast, Zenon
<1>2. CASE \E key : Becomes(o, WithNewKeyValue(m, o, key, n))
  <2>1. PICK key : Becomes(o, WithNewKeyValue(m, o, key, n))
    BY <1>2, Zenon
  <2> QED
    BY <2>1, WithNewKeyValueDone, Zenon DEF Fine
<1> QED
  BY <1>1, <1>2, Zenon

\* AsString, WithString and the others that make a leaf.
LEMMA LeafSafe ==
    ASSUME JsonIInv, NEW o \in Objects, NEW key, NEW leaf,
           AsLeaf(o, leaf) \/ WithLeaf(o, key, leaf)
    PROVE  \E m : Becomes(o, m) /\ Fine(o, m)
<1> DEFINE w == New(Before, Leaf(leaf))
<1>1. Sound(w, {fresh}, TargetTree(o)) /\ w.values = m_value
  BY NewFirst, Zenon
<1>2. \/ Becomes(o, AsNewValue(w, o, fresh))
      \/ \E k : Becomes(o, WithNewKeyValue(w, o, k, fresh))
  BY Zenon DEF AsLeaf, WithLeaf
<1> HIDE DEF w
<1>3. w.values[o] \in TargetTree(o) \cup {Nothing}
  BY <1>1, BeforeSound, Zenon
<1> QED
  BY <1>1, <1>2, <1>3, NewValueSafe, Zenon

\* AsArray and WithArray, with a vector that is copied or moved.
LEMMA ArraySafe ==
    ASSUME JsonIInv, NEW o \in Objects, NEW key, NEW s \in Vectors,
           \/ AsArray(o, s) \/ AsMovedArray(o, s)
           \/ WithArray(o, key, s) \/ WithMovedArray(o, key, s)
    PROVE  \E m : Becomes(o, m) /\ Fine(o, m)
<1>1. CASE AsArray(o, s) \/ WithArray(o, key, s)
  <2> DEFINE w == CopiedArray(s)
  <2>1. Sound(w, {fresh}, TargetTree(o)) /\ w.values = m_value
    BY CopiedArraySound, Zenon
  <2>2. \/ Becomes(o, AsNewValue(w, o, fresh))
        \/ \E k : Becomes(o, WithNewKeyValue(w, o, k, fresh))
    BY <1>1, Zenon DEF AsArray, WithArray
  <2> HIDE DEF w
  <2>3. w.values[o] \in TargetTree(o) \cup {Nothing}
    BY <2>1, BeforeSound, Zenon
  <2> QED
    BY <2>1, <2>2, <2>3, NewValueSafe, Zenon
<1>2. CASE AsMovedArray(o, s) \/ WithMovedArray(o, key, s)
  <2> DEFINE w == MovedArray(s)
  <2>1. Sound(w, {fresh}, TargetTree(o)) /\ w.values[o] \in TargetTree(o) \cup {Nothing}
    BY MovedArraySound, Zenon
  <2>2. \/ Becomes(o, AsNewValue(w, o, fresh))
        \/ \E k : Becomes(o, WithNewKeyValue(w, o, k, fresh))
    BY <1>2, Zenon DEF AsMovedArray, WithMovedArray
  <2> HIDE DEF w
  <2> QED
    BY <2>1, <2>2, NewValueSafe, Zenon
<1> QED
  BY <1>1, <1>2, Zenon

\* A view that does not dangle finds nodes that are there.
LEMMA MemberThere ==
    ASSUME JsonIInv, NEW v \in Views, m_view[v] # Dangling
    PROVE  /\ m_view[v] \in DOMAIN node \cup {Nothing}
           /\ \A key : Member(v, key) \in DOMAIN node \cup {Nothing}
<1>1. m_view[v] \in DOMAIN node \cup {Nothing}
  BY Zenon DEF JsonIInv
<1>2. Closes(node, DOMAIN node)
  BY Zenon DEF JsonIInv, Good, Forest, Linked, Before, Memory
<1> QED
  BY <1>1, <1>2, Zenon DEF Member, Closes

\* Materialize and GetJsonObjectCopy.
LEMMA ViewCopySafe ==
    ASSUME JsonIInv, NEW o \in Objects, NEW n \in DOMAIN node \cup {Nothing},
           CopyFromView(o, n)
    PROVE  \E m : Becomes(o, m) /\ Fine(o, m)
<1>1. CASE n = Nothing
  <2>1. Becomes(o, Cleared(Before, o))
    BY <1>1, Zenon DEF CopyFromView
  <2> QED
    BY <2>1, ClearedLast, Zenon
<1>2. CASE n # Nothing
  <2> DEFINE d == Duplicate(Before, n)
             c == fresh + n
  <2>1. Sound(d, {c}, TargetTree(o)) /\ d.values = m_value
    BY <1>2, DuplicateFirst, Zenon
  <2>2. Becomes(o, AsNewValue(d, o, c))
    BY <1>2, Zenon DEF CopyFromView
  <2> HIDE DEF d, c
  <2>3. d.values[o] \in TargetTree(o) \cup {Nothing}
    BY <2>1, BeforeSound, Zenon
  <2> QED
    BY <2>1, <2>2, <2>3, NewValueSafe, Zenon
<1> QED
  BY <1>1, <1>2, Zenon

\* So every operation on an object is safe, and one on a view finds a node that is there.
LEMMA StepSafe ==
    ASSUME JsonIInv, JsonNext
    PROVE  \/ \E o \in Objects : \E m : Becomes(o, m) /\ Fine(o, m)
           \/ \E v \in Views, n \in DOMAIN node \cup {Nothing} : Seen(v, n)
<1>1. ASSUME NEW o \in Objects, DestroyObject(o)
      PROVE  \E m : Becomes(o, m) /\ Fine(o, m)
  BY <1>1, ClearedLast, Zenon DEF DestroyObject
<1>2. ASSUME NEW o \in Objects, NEW v \in Views,
             Materialize(o, v) \/ \E key \in Keys : GetJsonObjectCopy(o, v, key)
      PROVE  \E m : Becomes(o, m) /\ Fine(o, m)
  <2>1. PICK n \in DOMAIN node \cup {Nothing} : CopyFromView(o, n)
    BY <1>2, MemberThere, Zenon DEF Materialize, GetJsonObjectCopy
  <2> QED
    BY <2>1, ViewCopySafe, Zenon
<1>3. ASSUME NEW v \in Views, NEW o \in Objects, View(v, o)
      PROVE  \E n \in DOMAIN node \cup {Nothing} : Seen(v, n)
  BY <1>3, BeforeSound, Zenon DEF View
<1>4. ASSUME NEW v \in Views, NEW key, GetJsonObject(v, key)
      PROVE  \E n \in DOMAIN node \cup {Nothing} : Seen(v, n)
  BY <1>4, MemberThere, Zenon DEF GetJsonObject
<1>5. ASSUME NEW o \in Objects,
             \/ DestroyObject(o)
             \/ \E leaf \in Leaves, key \in Keys :
                  AsLeaf(o, leaf) \/ WithLeaf(o, key, leaf) \/ Parse(o, key, leaf)
             \/ \E p \in Objects : CopyAssign(o, p) \/ MoveAssign(o, p)
             \/ \E p \in Objects, key \in Keys : WithObject(o, key, p) \/ WithMovedObject(o, key, p)
             \/ \E s \in Vectors : AsArray(o, s) \/ AsMovedArray(o, s)
             \/ \E s \in Vectors, key \in Keys : WithArray(o, key, s) \/ WithMovedArray(o, key, s)
             \/ \E v \in Views : Materialize(o, v) \/ \E key \in Keys : GetJsonObjectCopy(o, v, key)
      PROVE  \E m : Becomes(o, m) /\ Fine(o, m)
  BY <1>1, <1>2, <1>5, LeafSafe, ParseSafe, CopyAssignSafe, MoveAssignSafe, WithSafe, ArraySafe,
     Zenon
<1> QED
  BY <1>3, <1>4, <1>5, Zenon DEF JsonNext

\* The invariant holds when nothing was made yet.
LEMMA JsonInitIInv == JsonInit => JsonIInv
<1> SUFFICES ASSUME JsonInit PROVE JsonIInv
  BY Zenon
<1>1. /\ Before.heap = <<>> /\ Before.values = [o \in Objects |-> Nothing] /\ Before.next = 1
      /\ DOMAIN node = {}
  BY DEF JsonInit, Before, Memory
<1>2. DOMAIN Before.heap = {}
  BY <1>1
<1>3. Forest(Before.heap, Roots(Before, {}))
  BY <1>2, Zenon DEF Forest, Linked, Closes, OneParent, NoParent, Reached, Roots
<1>4. Good(Before, {})
  BY <1>1, <1>2, <1>3 DEF Good, Below
<1> QED
  BY <1>1, <1>4, Zenon DEF JsonIInv, JsonInit

\* Every step keeps it.
LEMMA JsonNextIInv == JsonIInv /\ [JsonNext]_jsonVars => JsonIInv'
<1> SUFFICES ASSUME JsonIInv, [JsonNext]_jsonVars PROVE JsonIInv'
  BY Zenon
<1>1. m_view \in [Views -> DOMAIN node \cup {Nothing, Dangling}] /\ Good(Before, {})
  BY Zenon DEF JsonIInv
<1>2. ASSUME NEW o \in Objects, NEW m, Becomes(o, m), Fine(o, m)
      PROVE  JsonIInv'
  <2>1. /\ node' = m.heap /\ m_value' = m.values /\ fresh' = m.next
        /\ m_view' = [v \in Views |-> IF m_view[v] \in DOMAIN node \ DOMAIN m.heap
                                      THEN Dangling ELSE m_view[v]]
    BY <1>2, Zenon DEF Becomes
  <2>2. /\ Before'.heap = m.heap /\ Before'.values = m.values /\ Before'.next = m.next
    BY <2>1, Zenon DEF Before, Memory
  <2>3. Good(Before', {})
    BY <1>2, <2>2, Zenon DEF Fine, Good, Roots
  <2>4. m_view' \in [Views -> DOMAIN node' \cup {Nothing, Dangling}]
    BY <1>1, <2>1, Zenon
  <2> QED
    BY <2>3, <2>4, Zenon DEF JsonIInv
<1>3. ASSUME NEW v \in Views, NEW n \in DOMAIN node \cup {Nothing}, Seen(v, n)
      PROVE  JsonIInv'
  <2>1. /\ Before' = Before /\ node' = node
        /\ m_view' \in [Views -> DOMAIN node \cup {Nothing, Dangling}]
    BY <1>1, <1>3, Zenon DEF Seen, Before
  <2> QED
    BY <1>1, <2>1, Zenon DEF JsonIInv
<1>4. CASE UNCHANGED jsonVars
  BY <1>1, <1>4, Zenon DEF jsonVars, JsonIInv, Before
<1> QED
  BY <1>2, <1>3, <1>4, StepSafe, Zenon

\* At all times the JsonObjects have the whole heap between them, a tree each, and every
\* JsonView that no operation has invalidated is of a node that is there.
THEOREM JsonInvariance == JsonSpec => []JsonIInv
BY JsonInitIInv, JsonNextIInv, PTL DEF JsonSpec

\* In such a heap every node has one owner: the object whose root it is, or its parent.
LEMMA ForestIsOwned == JsonIInv => NodesOwnedOnce
<1> SUFFICES ASSUME JsonIInv, NEW n \in DOMAIN node
             PROVE  /\ \E x \in Owners(n) : Owners(n) = {x}
                    /\ \E o \in Objects : m_value[o] # Nothing /\ n \in Tree(node, m_value[o])
  BY Zenon DEF NodesOwnedOnce
<1> DEFINE R == Roots(Before, {})
<1>1. /\ m_value \in [Objects -> DOMAIN node \cup {Nothing}]
      /\ \A o, p \in Objects : m_value[o] = m_value[p] => o = p \/ m_value[o] = Nothing
      /\ Forest(node, R) /\ DOMAIN node \subseteq Nat
      /\ R = {r \in DOMAIN node : \E o \in Objects : m_value[o] = r}
  BY Zenon DEF JsonIInv, Good, Before, Memory, Roots, Forest, Linked
<1> HIDE DEF R
<1>2. Nothing \notin DOMAIN node
  BY <1>1, JsonAssumption, Zenon
<1>3. \E o \in Objects : m_value[o] # Nothing /\ n \in Tree(node, m_value[o])
  <2> DEFINE S == {q \in DOMAIN node :
                    \E o \in Objects : m_value[o] # Nothing /\ q \in Tree(node, m_value[o])}
  <2>1. ASSUME NEW o \in Objects, m_value[o] # Nothing
        PROVE  m_value[o] \in Tree(node, m_value[o]) /\ Closes(node, Tree(node, m_value[o]))
    BY <1>1, <2>1, TreeIsLeast, Zenon DEF Forest
  <2>2. R \subseteq S
    BY <1>1, <1>2, <2>1, Zenon
  <2>3. Closes(node, S)
    BY <1>1, <2>1, Zenon DEF Closes, Forest, Linked
  <2>4. S = DOMAIN node
    BY <1>1, <2>2, <2>3, Zenon DEF Forest, Reached
  <2> QED
    BY <2>4, Zenon
<1>4. \E x \in Owners(n) : Owners(n) = {x}
  <2>1. ASSUME NEW o \in Objects, m_value[o] = n
        PROVE  Owners(n) = {<<o>>}
    <3>1. {q \in Objects : m_value[q] = n} = {o}
      BY <1>1, <1>2, <2>1, Zenon
    <3>2. \A p \in DOMAIN node : {l \in DOMAIN node[p].members : node[p].members[l] = n} = {}
      BY <1>1, <2>1 DEF Forest, NoParent
    <3> QED
      BY <3>1, <3>2 DEF Owners
  <2>2. ASSUME NEW p \in DOMAIN node, NEW k \in DOMAIN node[p].members, node[p].members[k] = n
        PROVE  Owners(n) = {<<p, k>>}
    <3>1. {q \in Objects : m_value[q] = n} = {}
      BY <1>1, <2>2, Zenon DEF Forest, NoParent
    <3>2. {l \in DOMAIN node[p].members : node[p].members[l] = n} = {k}
      BY <1>1, <2>2 DEF Forest, OneParent
    <3>3. \A q \in DOMAIN node \ {p} : {l \in DOMAIN node[q].members : node[q].members[l] = n} = {}
      BY <1>1, <2>2 DEF Forest, OneParent
    <3> QED
      BY <3>1, <3>2, <3>3 DEF Owners
  <2>3. \/ \E o \in Objects : m_value[o] = n
        \/ \E p \in DOMAIN node : \E k \in DOMAIN node[p].members : node[p].members[k] = n
    <3> SUFFICES ASSUME \A o \in Objects : m_value[o] # n,
                        \A p \in DOMAIN node : \A k \in DOMAIN node[p].members :
                            node[p].members[k] # n
                 PROVE  FALSE
      BY Zenon
    <3> DEFINE S == DOMAIN node \ {n}
    <3>1. R \subseteq S /\ S \in SUBSET DOMAIN node
      BY <1>1, Zenon
    <3>2. Closes(node, S)
      BY <1>1, Zenon DEF Closes, Forest, Linked
    <3> QED
      BY <1>1, <3>1, <3>2, Zenon DEF Forest, Reached
  <2>4. \E x : Owners(n) = {x}
    BY <2>1, <2>2, <2>3, Zenon
  <2> QED
    BY <2>4, Zenon
<1> QED
  BY <1>3, <1>4, Zenon

\* Whatever is assigned, copied, moved or put into arrays and members of other values,
\* every aws_json_value has one owner, a JsonObject or the value it is a member of, and is
\* in the tree of some JsonObject: none is freed twice and none is leaked.
THEOREM EveryNodeIsOwnedOnce == JsonSpec => []NodesOwnedOnce
BY JsonInvariance, ForestIsOwned, PTL

\* What a step of OtherViewsStayValid may do.
OtherViewsKept ==
    target' \in Objects =>
        \A v \in Views :
            /\ m_view[v] \in DOMAIN node
            /\ m_value[target'] # Nothing => m_view[v] \notin Tree(node, m_value[target'])
            => /\ m_view'[v] = m_view[v]
               /\ \A n \in Tree(node, m_view[v]) : n \in DOMAIN node' /\ node'[n] = node[n]

\* An operation changes the tree of the object it is called on, and the trees of the
\* others are apart from it.
LEMMA StepKeepsViews == JsonIInv /\ JsonNext => OtherViewsKept
<1> SUFFICES ASSUME JsonIInv, JsonNext, target' \in Objects, NEW v \in Views,
                    m_view[v] \in DOMAIN node,
                    m_value[target'] # Nothing => m_view[v] \notin Tree(node, m_value[target'])
             PROVE  /\ m_view'[v] = m_view[v]
                    /\ \A n \in Tree(node, m_view[v]) : n \in DOMAIN node' /\ node'[n] = node[n]
  BY Zenon DEF OtherViewsKept
<1>1. \A w \in Views, n \in DOMAIN node \cup {Nothing} : ~Seen(w, n)
  BY JsonAssumption, Zenon DEF Seen
<1>2. PICK o \in Objects : \E m : Becomes(o, m) /\ Fine(o, m)
  BY <1>1, StepSafe, Zenon
<1>3. PICK m : Becomes(o, m) /\ Fine(o, m)
  BY <1>2, Zenon
<1>4. /\ node' = m.heap /\ target' = o
      /\ m_view'[v] = IF m_view[v] \in DOMAIN node \ DOMAIN m.heap THEN Dangling ELSE m_view[v]
  BY <1>3, Zenon DEF Becomes
<1>5. \A n \in DOMAIN node \ TargetTree(o) : n \in DOMAIN node' /\ node'[n] = node[n]
  BY <1>3, <1>4, Zenon DEF Fine, Kept
<1>6. /\ Forest(node, Roots(Before, {})) /\ m_value \in [Objects -> DOMAIN node \cup {Nothing}]
      /\ m_value[o] # Nothing => m_value[o] \in Roots(Before, {})
  BY Zenon DEF JsonIInv, Good, Before, Memory, Roots
<1>7. /\ Tree(node, m_view[v]) \subseteq DOMAIN node /\ m_view[v] \in Tree(node, m_view[v])
  BY <1>6, TreeIsLeast, Zenon DEF Forest
<1>8. Tree(node, m_view[v]) \cap TargetTree(o) = {}
  BY <1>4, <1>6, TreesApart, Zenon DEF TargetTree
<1> QED
  BY <1>4, <1>5, <1>7, <1>8, Zenon

\* An operation on a JsonObject invalidates only views of that object: a view of a value
\* that is copied from, moved or left alone stays valid and sees what it saw.
THEOREM ViewsOfOtherObjectsStayValid == JsonSpec => OtherViewsStayValid
<1>1. JsonIInv /\ [JsonNext]_jsonVars => [OtherViewsKept]_jsonVars
  BY StepKeepsViews, Zenon
<1> QED
  BY <1>1, JsonInvariance, PTL DEF JsonSpec, OtherViewsStayValid, OtherViewsKept
=============================================================================
