----------------------------- MODULE ReleaseLine -----------------------------
(***************************************************************************)
(* What the releases of a board promise a device that follows one product: *)
(* releases appear whole, one at a time and for good; each is newer than   *)
(* every release of its product so far, by its stamp and by its            *)
(* generation; a part it offers on its own completes the release before.   *)
(***************************************************************************)
EXTENDS Integers, FiniteSets

CONSTANTS Products, Parts   \* Parts: the kernels and root file systems

VARIABLE line   \* the releases a device may be offered

Of(product) == {g \in line : g.product = product}

Newest(product) == {g \in Of(product) : \A h \in Of(product) : h.stamp <= g.stamp}

\* The archives of a release: the image and the full update always, the root
\* or the kernel alone only over an unchanged kernel or root.
Complete(g, earlier) ==
  /\ {"image", "full"} \subseteq g.assets
  /\ "root" \in g.assets => \E h \in earlier : h.kernel = g.kernel
  /\ "kernel" \in g.assets => \E h \in earlier : h.rootfs = g.rootfs

LInit == line = {}

Release(g) ==
  /\ g.product \in Products
  /\ g.kernel \in Parts /\ g.rootfs \in Parts
  /\ \A h \in Of(g.product) : h.stamp < g.stamp /\ h.generation < g.generation
  /\ Complete(g, Newest(g.product))
  /\ line' = line \cup {g}

\* Whatever is added is one such release.
LNext == \E g \in line' : g \notin line /\ Release(g)

LSpec == LInit /\ [][LNext]_line

=============================================================================
