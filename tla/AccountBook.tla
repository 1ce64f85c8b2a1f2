----------------------------- MODULE AccountBook ----------------------------
(* What the account file promises: an account enters the book once, on a     *)
(* line after all the others, and no line ever leaves it.                    *)
EXTENDS Sequences, SequencesExt

CONSTANT Accounts

VARIABLE book                     \* the accounts, in the order of their lines

Init == book = <<>>

Next == \E a \in Accounts \ ToSet(book) : book' = Append(book, a)

Spec == Init /\ [][Next]_book
=============================================================================
