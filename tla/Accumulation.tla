----------------------------- MODULE Accumulation ------------------------------
(***************************************************************************)
(* Sums and concatenations along a sequence, as recursive functions: what  *)
(* a loop that lays rows out one entry after the other is compared with,   *)
(* and the order in which nested loops come by their elements.             *)
(***************************************************************************)
EXTENDS Integers, Sequences

(* n -> the sum of the first n elements.                                   *)
RunningTotal(w) ==
  LET total[n \in 0 .. Len(w)] == IF n = 0 THEN 0 ELSE total[n - 1] + w[n]
  IN  total

Total(w) == RunningTotal(w)[Len(w)]

(* n -> the first n parts, one behind the other.                           *)
Joined(parts) ==
  LET join[n \in 0 .. Len(parts)] == IF n = 0 THEN <<>> ELSE join[n - 1] \o parts[n]
  IN  join

Concatenation(parts) == Joined(parts)[Len(parts)]

=============================================================================
