---------------------------------- MODULE Bt --------------------------------
(***************************************************************************)
(* The binary tree of sem_3/ial/proj_2/c402/c402.c, whose traversals do    *)
(* without recursion, with stacks of their own in arrays of MAXSTACK       *)
(* places.  A step is one turn of the loop of a traversal.                 *)
(*                                                                         *)
(* An operator with a suffixed name (InorderDown) is a slip the properties *)
(* must notice.                                                            *)
(***************************************************************************)
EXTENDS Trees

CONSTANTS
  Values,    \* a set of integers
  MAXSTACK,
  NULL

VARIABLES
  tree,     \* the nodes that are allocated: Cont of the node at a place
  RootPtr,  \* the place of the node the root points to, or NULL
  stackPoint, stackBool,
  call,     \* the traversal that is running, or was the last to run
  pc,       \* "idle", "loop", or "wild" after a write beyond the stack
  out       \* what BTWorkOut has printed

vars == << tree, RootPtr, stackPoint, stackBool, call, pc, out >>

Init ==
  /\ tree = << >> /\ RootPtr = NULL
  /\ stackPoint = << >> /\ stackBool = << >> /\ call = "none" /\ pc = "idle" /\ out = << >>

-----------------------------------------------------------------------------
(* A value that is new becomes a leaf, if there is memory for it.          *)
BTInsert(content) ==
  LET p == Where(tree, content) IN
  /\ pc = "idle"
  /\ tree' \in {tree, [q \in DOMAIN tree \cup {p} |-> IF q = p THEN content ELSE tree[q]]}
  /\ RootPtr' = IF tree' = << >> THEN NULL ELSE << >>
  /\ call' = "none" /\ out' = << >>
  /\ UNCHANGED << stackPoint, stackBool, pc >>

(* The stacks are P and B after some pushes.  top counts from 1, and       *)
(* SPushP lets it become MAXSTACK, the first place after the array.        *)
Pushed(P, B) ==
  /\ stackPoint' = P /\ stackBool' = B
  /\ pc' = IF Len(P) >= MAXSTACK THEN "wild" ELSE IF P = << >> THEN "idle" ELSE "loop"

Marks(branch, mark) == [k \in DOMAIN branch |-> mark]

LeftBranch(p) == Branch(DOMAIN tree, p, "L")

Leftmost_Preorder(p, rest) ==
  Pushed(rest \o LeftBranch(p), << >>) /\ out' = out \o LeftBranch(p)

Leftmost_Inorder(p, rest) == Pushed(rest \o LeftBranch(p), << >>)

Leftmost_Postorder(p, P, B) ==
  Pushed(P \o LeftBranch(p), B \o Marks(LeftBranch(p), TRUE))

Starts(traversal) ==
  /\ pc = "idle" /\ RootPtr # NULL
  /\ call' = traversal
  /\ UNCHANGED << tree, RootPtr >>

BTPreorder ==
  Starts("preorder") /\ Pushed(LeftBranch(<< >>), << >>) /\ out' = LeftBranch(<< >>)

BTInorder == Starts("inorder") /\ Leftmost_Inorder(<< >>, << >>) /\ out' = << >>

BTPostorder == Starts("postorder") /\ Leftmost_Postorder(<< >>, << >>, << >>) /\ out' = << >>

Runs(traversal) == pc = "loop" /\ call = traversal /\ UNCHANGED << tree, RootPtr, call >>

Preorder == Runs("preorder") /\ Leftmost_Preorder(RPtr(Last(stackPoint)), Front(stackPoint))

InorderDown ==
  /\ Runs("inorder")
  /\ LET tmp == Last(stackPoint)
     IN  Leftmost_Inorder(RPtr(tmp), Front(stackPoint)) /\ out' = out \o LeftBranch(RPtr(tmp))

Inorder ==
  /\ Runs("inorder")
  /\ LET tmp == Last(stackPoint)
     IN  Leftmost_Inorder(RPtr(tmp), Front(stackPoint)) /\ out' = Append(out, tmp)

PostorderRight ==
  /\ Runs("postorder") /\ Last(stackBool)
  /\ Leftmost_Postorder(RPtr(Last(stackPoint)), stackPoint, Append(Front(stackBool), FALSE))
  /\ UNCHANGED out

PostorderNode ==
  /\ Runs("postorder") /\ ~ Last(stackBool)
  /\ Pushed(Front(stackPoint), Front(stackBool))
  /\ out' = Append(out, Last(stackPoint))

-----------------------------------------------------------------------------
(* The tree is taken apart from the root down the left branch; the right   *)
(* subtrees wait on the stack, and *RootPtr goes from node to node.        *)
BTDisposeTree ==
  /\ pc = "idle" /\ RootPtr # NULL
  /\ call' = "dispose" /\ pc' = "loop" /\ out' = << >>
  /\ UNCHANGED << tree, RootPtr, stackPoint, stackBool >>

To(p, places) == IF p \in places THEN p ELSE NULL

DisposeNode ==
  /\ pc = "loop" /\ call = "dispose" /\ RootPtr # NULL
  /\ LET right == RPtr(RootPtr)
         stack == IF right \in DOMAIN tree THEN Append(stackPoint, right) ELSE stackPoint
         left  == To(LPtr(RootPtr), DOMAIN tree)
     IN  /\ stackPoint' = stack
         /\ RootPtr' = left
         /\ pc' = CASE Len(stack) >= MAXSTACK        -> "wild"
                    [] left = NULL /\ stack = << >>  -> "idle"
                    [] OTHER                         -> "loop"
  /\ tree' = [p \in DOMAIN tree \ {RootPtr} |-> tree[p]]
  /\ UNCHANGED << stackBool, call, out >>

DisposePop ==
  /\ pc = "loop" /\ call = "dispose" /\ RootPtr = NULL
  /\ RootPtr' = Last(stackPoint) /\ stackPoint' = Front(stackPoint)
  /\ UNCHANGED << tree, stackBool, call, pc, out >>

Next ==
  \/ \E content \in Values : BTInsert(content)
  \/ BTPreorder \/ Preorder
  \/ BTInorder \/ Inorder
  \/ BTPostorder \/ PostorderRight \/ PostorderNode
  \/ BTDisposeTree \/ DisposeNode \/ DisposePop

Spec == Init /\ [][Next]_vars

-----------------------------------------------------------------------------
(* Where two paths part, the left one is first in every order; in preorder *)
(* a node is before those below it, in postorder after them.               *)
LeftOf(p, q) ==
  \E k \in DOMAIN p \cap DOMAIN q :
    p[k] = "L" /\ q[k] = "R" /\ SubSeq(p, 1, k - 1) = SubSeq(q, 1, k - 1)

Before(p, q) ==
  CASE call = "preorder"  -> LeftOf(p, q) \/ IsStrictPrefix(p, q)
    [] call = "inorder"   -> tree[p] < tree[q]
    [] call = "postorder" -> LeftOf(p, q) \/ IsStrictPrefix(q, p)

(* A traversal visits every node once and in its order, inorder that of    *)
(* the values; a disposal uses no node it has freed, and frees all; and no *)
(* stack is overrun by a tree lower than its array is long.                *)
Traversals ==
  /\ Height(DOMAIN tree) < MAXSTACK => pc # "wild"
  /\ call \in {"preorder", "inorder", "postorder"} =>
       /\ \A k, l \in DOMAIN out : k < l => Before(out[k], out[l])
       /\ pc = "idle" => ToSet(out) = DOMAIN tree
  /\ call = "dispose" =>
       /\ {RootPtr} \cup ToSet(stackPoint) \subseteq DOMAIN tree \cup {NULL}
       /\ pc = "idle" => tree = << >> /\ RootPtr = NULL
=============================================================================
