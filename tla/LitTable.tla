------------------------------ MODULE LitTable ------------------------------
(***************************************************************************)
(* solvers/solver1/decision.c: the AVL tree of the literals to decide on,  *)
(* sorted by score.                                                        *)
(*                                                                         *)
(* A tree is a value: a node holds its children, and a function that       *)
(* changes nodes in place returns the new tree.  The height of a node is   *)
(* the stored one, which need not be the height.  A tree in which the code *)
(* would follow a null pointer is Broken.                                  *)
(***************************************************************************)
EXTENDS Integers, Sequences

NULL == [height |-> 0]
Broken == [height |-> -1]

Taller(a, b) == IF a.height > b.height THEN a.height ELSE b.height

\* The node t with these children and the height they give it.
With(t, left, right) ==
  IF Broken \in {left, right} THEN Broken
  ELSE [t EXCEPT !.left = left, !.right = right, !.height = 1 + Taller(left, right)]

init_node(literal, score) ==
  [literal |-> literal, score |-> score, left |-> NULL, right |-> NULL,
   height |-> 1]

get_balance(t) == IF t = NULL THEN 0 ELSE t.left.height - t.right.height

rotate_right(t) ==
  IF t.left = NULL THEN Broken
  ELSE With(t.left, t.left.left, With(t, t.left.right, t.right))

rotate_left(t) ==
  IF t.right = NULL THEN Broken
  ELSE With(t.right, With(t, t.left, t.right.left), t.right.right)

\* Two rotations: the child first.
RotateLeftRight(t) == LET u == With(t, rotate_left(t.left), t.right)
                      IN IF u = Broken THEN Broken ELSE rotate_right(u)
RotateRightLeft(t) == LET u == With(t, t.left, rotate_right(t.right))
                      IN IF u = Broken THEN Broken ELSE rotate_left(u)

\* The end of insert_literal: which rotation depends on the score inserted.
Rebalanced(t, score) ==
  IF t = Broken THEN Broken
  ELSE CASE get_balance(t) > 1 /\ score < t.left.score -> rotate_right(t)
         [] get_balance(t) > 1 /\ score >= t.left.score -> RotateLeftRight(t)
         [] get_balance(t) < -1 /\ score >= t.right.score -> rotate_left(t)
         [] get_balance(t) < -1 /\ score < t.right.score -> RotateRightLeft(t)
         [] OTHER -> t

\* NULL, and the nodes of a height up to h with children in S below them.
Grown(S, h) ==
  {NULL} \cup {t \in [literal : Int, score : Nat, left : S, right : S, height : 1..h] :
                 t.height > Taller(t.left, t.right)}

\* The trees of a stored height up to h.
Trees[h \in Nat] == IF h = 0 THEN {NULL} ELSE Grown(Trees[h - 1], h)

\* The element of a set of one: a name for a subtree that is computed once.
The(S) == CHOOSE x \in S : TRUE

insert_literal(tree, literal, score) ==
  LET insertion[h \in Nat] ==
        [t \in Trees[h] |->
           IF t = NULL THEN init_node(literal, score)
           ELSE The({Rebalanced(v, score) : v \in
                  IF t.score <= score
                  THEN {With(t, t.left, u) : u \in {insertion[h - 1][t.right]}}
                  ELSE {With(t, u, t.right) : u \in {insertion[h - 1][t.left]}}})]
  IN insertion[tree.height][tree]

\* The node taken out, what is left, and the height the code stores above it:
\* only the parent of the node is rotated, after the heights were computed.
extract_max(tree) ==
  LET extraction[h \in Nat] ==
        [t \in Trees[h] \ {NULL} |->
           IF t.right = NULL THEN [node |-> t, rest |-> t.left, h |-> t.left.height]
           ELSE The({LET n == 1 + Taller(t.left, [height |-> x.h])
                         u == [t EXCEPT !.right = x.rest, !.height = n]
                     IN [node |-> x.node, h |-> n,
                         rest |-> IF /\ t.right.right = NULL
                                     /\ get_balance(u) > 1 /\ get_balance(u.left) >= 0
                                  THEN rotate_right(u) ELSE u]
                       : x \in {extraction[h - 1][t.right]}})]
  IN extraction[tree.height][tree]

\* The literal of the root is the one to remove.
remove_node(t) ==
  IF t.left # NULL /\ t.right # NULL
  THEN The({With(max.node, max.rest, t.right) : max \in {extract_max(t.left)}})
  ELSE IF t.left # NULL THEN t.left ELSE t.right

\* The end of delete_literal.
Settle(t) ==
  IF t \in {NULL, Broken} THEN t
  ELSE LET u == With(t, t.left, t.right)
       IN CASE get_balance(u) > 1 /\ get_balance(u.left) >= 0 -> rotate_right(u)
            [] get_balance(u) > 1 /\ get_balance(u.left) < 0 -> RotateLeftRight(u)
            [] get_balance(u) < -1 /\ get_balance(u.right) <= 0 -> rotate_left(u)
            [] get_balance(u) < -1 /\ get_balance(u.right) > 0 -> RotateRightLeft(u)
            [] OTHER -> u

\* Among equal scores the search goes right only: a rotation may have put the
\* literal on the left, and then it stays.
delete_literal(tree, literal, score) ==
  LET deletion[h \in Nat] ==
        [t \in Trees[h] |->
           IF t = NULL THEN NULL
           ELSE The({Settle(v) : v \in
                  IF t.score > score
                  THEN {With(t, u, t.right) : u \in {deletion[h - 1][t.left]}}
                  ELSE IF t.literal = literal THEN {remove_node(t)}
                  ELSE {With(t, t.left, u) : u \in {deletion[h - 1][t.right]}}})]
  IN deletion[tree.height][tree]

\* The entries in order.
Entries(tree) ==
  LET listing[h \in Nat] ==
        [t \in Trees[h] |->
           IF t = NULL THEN <<>>
           ELSE listing[h - 1][t.left]
                  \o <<[literal |-> t.literal, score |-> t.score]>>
                  \o listing[h - 1][t.right]]
  IN IF tree = Broken THEN <<>> ELSE listing[tree.height][tree]
=============================================================================
