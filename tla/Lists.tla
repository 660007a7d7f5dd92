-------------------------------- MODULE Lists --------------------------------
(***************************************************************************)
(* The lists of util/list.h as sequences of the items they link, head      *)
(* first.  An item is on a list at most once.                              *)
(***************************************************************************)
EXTENDS Integers, Sequences, Functions

\* The list without the link of x, if x is on it.
list_remove(list, x) ==
    LET links == {i \in DOMAIN list : list[i] = x}
        k == CHOOSE i \in links : TRUE
    IN  IF links = {} THEN list ELSE SubSeq(list, 1, k - 1) \o SubSeq(list, k + 1, Len(list))
=============================================================================
