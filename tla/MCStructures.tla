----------------------------- MODULE MCStructures ---------------------------
(* The structures of sem_3/ial, one at a time: which says whose calls are  *)
(* made in a behaviour; the other structures stay as they were initialised.*)
EXTENDS Queue, TLC

CONSTANTS Nodes, NULL, None, Keys, HTSIZE, Numbers, MAXSTACK

VARIABLES
  which,
  dmem, dFirst, dAct, dLast, dcall, dres,
  smem, sFirst, sAct, scall, sres,
  ptrht, hcall, hres,
  bst, bcall, bres,
  bt, RootPtr, stackPoint, stackBool, traversal, pc, out

DL == INSTANCE DList WITH mem <- dmem, First <- dFirst, Act <- dAct, Last <- dLast, call <- dcall, res <- dres
SL == INSTANCE SList WITH mem <- smem, First <- sFirst, Act <- sAct, call <- scall, res <- sres
HT == INSTANCE HashTable WITH call <- hcall, res <- hres, Sum <- [key \in Keys |-> key]
BT == INSTANCE Bt WITH tree <- bt, call <- traversal, Values <- Numbers
BST == INSTANCE Bst WITH tree <- bst, call <- bcall, res <- bres

ASSUME TableAssumption == HT!TableAssumption
ASSUME BstAssumption == BST!BstAssumption
ASSUME ListsAssumption == DL!DListAssumption /\ SL!SListAssumption

dlist == << dmem, dFirst, dAct, dLast, dcall, dres >>
slist == << smem, sFirst, sAct, scall, sres >>
table == << ptrht, hcall, hres >>
searchTree == << bst, bcall, bres >>
binaryTree == << bt, RootPtr, stackPoint, stackBool, traversal, pc, out >>

all == << which, vars, dlist, slist, table, searchTree, binaryTree >>

StructuresInit ==
  /\ which \in {"c203", "c206", "c201", "c016", "c401", "c402"}
  /\ Init /\ DL!Init /\ SL!Init /\ HT!Init /\ BST!Init /\ BT!Init

StructuresNext ==
  \/ which = "c203" /\ Next /\ UNCHANGED << which, dlist, slist, table, searchTree, binaryTree >>
  \/ which = "c206" /\ DL!Next /\ UNCHANGED << which, vars, slist, table, searchTree, binaryTree >>
  \/ which = "c201" /\ SL!Next /\ UNCHANGED << which, vars, dlist, table, searchTree, binaryTree >>
  \/ which = "c016" /\ HT!Next /\ UNCHANGED << which, vars, dlist, slist, searchTree, binaryTree >>
  \/ which = "c401" /\ BST!Next /\ UNCHANGED << which, vars, dlist, slist, table, binaryTree >>
  \/ which = "c402" /\ BT!Next /\ UNCHANGED << which, vars, dlist, slist, table, searchTree >>

Symmetry == Permutations(Nodes)

Structures == StructuresInit /\ [][StructuresNext]_all

-----------------------------------------------------------------------------
(* Both lists are sequences with an active item.                           *)
ListsImplemented == DL!ListSpec /\ SL!ListSpec

(* The hash table and the search tree are dictionaries.                    *)
DictionariesImplemented == HT!DictionarySpec /\ BST!DictionarySpec

(* The traversals without recursion.                                       *)
TraversalsRight == BT!Traversals
=============================================================================
