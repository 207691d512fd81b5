------------------------------ MODULE Rounding ------------------------------
EXTENDS Integers

\* Python's round(n / d): halves go to the even neighbour.
Round(n, d) ==
  LET q == n \div d
      r == 2 * (n % d)
  IN IF r < d \/ (r = d /\ q % 2 = 0) THEN q ELSE q + 1

=============================================================================
