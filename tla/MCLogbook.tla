----------------------------- MODULE MCLogbook -----------------------------
(* Instances of Logbook: the service alone with its two lanes, and the      *)
(* service with a CLI crawl beside it.                                      *)
EXTENDS Logbook, TLC

CONSTANTS serve, cli, crawl, remote, cliCrawl

ServeOnly == [t \in {crawl, remote} |-> serve]

ServeAndCli == [t \in {crawl, cliCrawl} |-> IF t = crawl THEN serve ELSE cli]

\* Digits in base 2: a size that doubles needs one more, as 10 does in base 10.
BinaryDigits(n) == CHOOSE d \in 0..n : 2^d > n /\ (d = 0 \/ 2^(d - 1) <= n)

Symmetry == Permutations(Labels)
=============================================================================
