--------------------------- MODULE IntrusiveList ----------------------------
(***************************************************************************)
(* TIntrusiveList (util/generic/intrlist.h) as the executor's ready list   *)
(* and the main task's connection list use it: an element is in at most    *)
(* one list, once, and leaves it before it is put anywhere else.           *)
(***************************************************************************)
EXTENDS Naturals, Sequences

(* Unlink: the list without the element, which need not be in it.          *)
Unlink(s, c) ==
    IF \E i \in 1..Len(s) : s[i] = c
    THEN LET k == CHOOSE i \in 1..Len(s) : s[i] = c
         IN  [i \in 1..(Len(s) - 1) |-> IF i < k THEN s[i] ELSE s[i + 1]]
    ELSE s

(* Without unlinking first: the element ends up in the list twice.         *)
PushBackTwice(s, c) == Append(s, c)

PushBack(s, c) == Append(Unlink(s, c), c)
=============================================================================
