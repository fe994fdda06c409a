------------------------------ MODULE MCDaemon ------------------------------
(* Instances of Daemon for TLC.                                            *)
EXTENDS Daemon, TLC

\* No property tells two tasks, two enqueuers, two workers or two starters
\* apart.
Symmetry == Permutations(Tasks) \cup Permutations(Enqueuers)
            \cup Permutations(Workers) \cup Permutations(Starters)

=============================================================================
