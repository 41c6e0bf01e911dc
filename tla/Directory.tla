------------------------------ MODULE Directory ------------------------------
(***************************************************************************)
(* What the symbol table of a group promises: a collection of named links. *)
(* Linking adds one link, under a name that may already be in use, and     *)
(* unlinking removes one link of the given name.                           *)
(***************************************************************************)
EXTENDS Bags

CONSTANTS Groups, Names, Objs

VARIABLE dir   \* for each group, the bag of its links

Link == [name : Names, obj : Objs]

Init == dir = [g \in Groups |-> EmptyBag]

AddLink(g, l) == dir' = [dir EXCEPT ![g] = @ (+) SetToBag({l})]

RemoveLink(g, l) == /\ BagIn(l, dir[g])
                    /\ dir' = [dir EXCEPT ![g] = @ (-) SetToBag({l})]

Next == \E g \in Groups, l \in Link : AddLink(g, l) \/ RemoveLink(g, l)

Spec == Init /\ [][Next]_dir
=============================================================================
