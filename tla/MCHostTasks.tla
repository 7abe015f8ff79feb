---------------------------- MODULE MCHostTasks ----------------------------
(***************************************************************************)
(* HostTasks for TLC: the tables a page posts, and a symmetry: the code    *)
(* compares identifiers and names and does nothing else with them.         *)
(***************************************************************************)
EXTENDS HostTasks, TLC

\* Tables with one row, named by the user or not named.
OneRow == UNION {[{id} -> UserName \cup {NoName}] : id \in IDs}

\* Tables with up to two rows; a page posts back the default names it shows.
TwoRows == UNION {[{a, b} -> Name] : a, b \in IDs}

\* For the runs that check invariants only.
Symmetry == Permutations(IDs)
============================================================================
