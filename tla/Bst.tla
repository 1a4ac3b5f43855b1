--------------------------------- MODULE Bst --------------------------------
(***************************************************************************)
(* The recursive binary search tree of sem_3/ial/proj_2/c401/c401.c.  A    *)
(* call, with those it makes of itself, is a step.                         *)
(*                                                                         *)
(* An operator with a suffixed name (ReplaceByRightmostChild) is a slip    *)
(* the properties must notice.                                             *)
(***************************************************************************)
EXTENDS Trees

CONSTANTS Keys, Values, Done, None

(* Assumed of the constants, by the module that instantiates this one.    *)
BstAssumption == Keys \subseteq Int

VARIABLES
  tree,
  call,  \* the last call, with its arguments
  res    \* what it answered

vars == << tree, call, res >>

Init == tree = << >> /\ call = << "clear" >> /\ res = Done

Found(key) == Where([p \in DOMAIN tree |-> tree[p].Key], key)

Returns(t) == tree' = t /\ res' = Done

BSTSearch(key) ==
  /\ res' = IF Found(key) \in DOMAIN tree THEN tree[Found(key)].BSTNodeCont ELSE None
  /\ UNCHANGED tree

(* A key that is new becomes a leaf, if there is memory for it.            *)
BSTInsert(key, content) ==
  \/ Returns([p \in DOMAIN tree \cup {Found(key)} |->
                IF p = Found(key) THEN [Key |-> key, BSTNodeCont |-> content] ELSE tree[p]])
  \/ Found(key) \notin DOMAIN tree /\ Returns(tree)

ReplaceByRightmostChild(p) == Hoist([tree EXCEPT ![p] = tree[LPtr(p)]], LPtr(p), "L")

(* The rightmost node of the left subtree moves up to p, and its own left  *)
(* subtree into its place.                                                 *)
ReplaceByRightmost(p) ==
  LET rightmost == CHOOSE q \in DownSide(DOMAIN tree, LPtr(p), "R") : RPtr(q) \notin DOMAIN tree
  IN  Hoist([tree EXCEPT ![p] = tree[rightmost]], rightmost, "L")

BSTDelete(key) ==
  LET p == Found(key) IN
  Returns(CASE p \notin DOMAIN tree -> tree
            [] p \in DOMAIN tree /\ RPtr(p) \notin DOMAIN tree -> Hoist(tree, p, "L")
            [] p \in DOMAIN tree /\ RPtr(p) \in DOMAIN tree /\ LPtr(p) \notin DOMAIN tree -> Hoist(tree, p, "R")
            [] OTHER -> ReplaceByRightmost(p))

BSTDispose == Returns(<< >>)

Next ==
  \/ call' = << "clear" >> /\ BSTDispose
  \/ \E key \in Keys :
       \/ call' = << "search", key >> /\ BSTSearch(key)
       \/ call' = << "delete", key >> /\ BSTDelete(key)
       \/ \E content \in Values : call' = << "insert", key, content >> /\ BSTInsert(key, content)

Spec == Init /\ [][Next]_vars

-----------------------------------------------------------------------------
Stored == {tree[p] : p \in DOMAIN tree}

Map == INSTANCE Dictionary WITH
  map <- [key \in {node.Key : node \in Stored} |-> (CHOOSE node \in Stored : node.Key = key).BSTNodeCont]

(* Through all insertions and deletions the tree is a dictionary with one  *)
(* node for a key, and still one a search finds its way in: no deletion    *)
(* leaves a hole above other nodes.                                        *)
DictionarySpec ==
  /\ Map!Spec
  /\ [](\A p, q \in DOMAIN tree : tree[p].Key = tree[q].Key => p = q)
  /\ [](\A p \in DOMAIN tree : p # << >> => Front(p) \in DOMAIN tree)
=============================================================================
