-------------------------- MODULE MCProductBuild --------------------------
(* Three commits of one tree: the second changes the kernel's inputs, the   *)
(* third the locked archive and the version of the board package.           *)
EXTENDS ProductBuild, TLC

CONSTANT p1

MCKernel == [c \in Commits |-> <<"k1", "k2", "k2">>[c]]
\* Both kernels have one configuration: the receipt does not tell them apart.
MCConfig(inputs) == IF inputs = None THEN None ELSE "config"
MCLock == [c \in Commits |-> <<"a1", "a1", "a2">>[c]]
MCOwnVersion == [c \in Commits |-> <<"1", "1", "2">>[c]]

=============================================================================
