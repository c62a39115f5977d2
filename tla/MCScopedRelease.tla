--------------------------- MODULE MCScopedRelease ---------------------------
(***************************************************************************)
(* ScopedRelease on small instances.  Products, inputs, kernels and bytes  *)
(* are only ever compared for equality.                                    *)
(***************************************************************************)
EXTENDS ScopedRelease, TLC

Offered ==
  {[product |-> releases[i].product, stamp |-> releases[i].stamp,
    generation |-> releases[i].lock.generation, kernel |-> releases[i].lock.kernel,
    rootfs |-> releases[i].lock.rootfs, assets |-> releases[i].files \ LockFiles] : i \in Shipped}

Packages == [version : Versions, inputs : Inputs, bytes : Bytes]

Abstract == INSTANCE ReleaseLine
  WITH line <- Offered, Parts <- Packages \cup [inputs : Kernels, bytes : Bytes]

\* The runs of a board's products, each in many steps and side by side with
\* the others, publish as if each release were one atomic step over the
\* product's last one.
ImplementsReleaseLine == Abstract!LSpec

Symmetry ==
  Permutations(Products) \cup Permutations(Inputs) \cup Permutations(Kernels) \cup Permutations(Bytes)

=============================================================================
