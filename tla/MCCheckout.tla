----------------------------- MODULE MCCheckout -----------------------------
EXTENDS CheckoutProps, TLC

CONSTANTS q1, q2

CheckoutSymmetry == Permutations(Requests) \cup Permutations(Keys) \cup Permutations(Quotes)

MCAmount == [q \in {q1, q2} |-> 2]
=============================================================================
