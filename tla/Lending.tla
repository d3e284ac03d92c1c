------------------------------ MODULE Lending ------------------------------
(***************************************************************************)
(* What a pool promises its callers, whatever it does inside: a resource   *)
(* is with at most one borrower, a borrower has at most one resource, and  *)
(* no more than Limit are lent.  It says nothing of how resources are      *)
(* made, kept, queued for or thrown away.  The pool of component instances *)
(* (InstancePool) and the pool of token sessions (SessionPool) implement   *)
(* it.                                                                     *)
(***************************************************************************)
EXTENDS Naturals, FiniteSets, Functions

CONSTANTS
  Resources,  \* what is lent
  Borrowers,  \* to whom
  Limit       \* how many at a time

VARIABLE loan   \* what each borrower that has something has

Borrowing == DOMAIN loan
Free(r) == r \notin Range(loan)

Init == loan = [b \in {} |-> b]

(* A resource in stock, or a new one, is lent.                             *)
Lend(b, r) ==
  /\ b \notin Borrowing /\ Free(r)
  /\ Cardinality(Borrowing) < Limit
  /\ loan' = [x \in Borrowing \cup {b} |-> IF x = b THEN r ELSE loan[x]]

(* It comes back, or is lost.                                              *)
Return(b) ==
  /\ b \in Borrowing
  /\ loan' = [x \in Borrowing \ {b} |-> loan[x]]

(* It comes back and goes straight to somebody else.                       *)
HandOver(b, c) ==
  /\ b \in Borrowing /\ c \notin Borrowing
  /\ loan' = [x \in (Borrowing \ {b}) \cup {c} |-> IF x = c THEN loan[b] ELSE loan[x]]

Next ==
  \/ \E b \in Borrowers, r \in Resources : Lend(b, r)
  \/ \E b \in Borrowers : Return(b)
  \/ \E b, c \in Borrowers : HandOver(b, c)

Spec == Init /\ [][Next]_loan
=============================================================================
