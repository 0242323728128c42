------------------------------- MODULE Arrays -------------------------------
(***************************************************************************)
(* The two array helpers of @deepkit/core that the components use on       *)
(* waiting queues, subscription lists and callback lists.                  *)
(***************************************************************************)
EXTENDS Naturals, Sequences

(* The members of a JavaScript array. *)
Items(q) == {q[k] : k \in DOMAIN q}

(* No object occurs twice in the array. *)
Distinct(q) == \A j, k \in DOMAIN q : q[j] = q[k] => j = k

(* x comes before y. *)
Precedes(q, x, y) == \E j, k \in DOMAIN q : j < k /\ q[j] = x /\ q[k] = y

(* array.splice(i, 1): the later items move down by one. *)
Splice(q, i) == [k \in 1 .. Len(q) - 1 |-> IF k < i THEN q[k] ELSE q[k + 1]]

(* array.indexOf(x), for an x that the array holds. *)
IndexOf(q, x) ==
  CHOOSE k \in DOMAIN q : q[k] = x /\ \A j \in DOMAIN q : q[j] = x => k <= j

(* Only the first occurrence is removed; an absent item changes nothing. *)
arrayRemoveItem(q, x) ==
  IF x \in Items(q) THEN Splice(q, IndexOf(q, x)) ELSE q
=============================================================================
