----------------------------- MODULE RootImage -----------------------------
(***************************************************************************)
(* A packed root as the checks of src/verify read it: what is at a path,   *)
(* and which lines a text has.  A root is a function from the places the   *)
(* checks look at to what is found there.  A place is a path or one line   *)
(* of a text; many paths that are always asked together are one place.     *)
(***************************************************************************)
EXTENDS Sequences

\* "linked": a link to where it belongs; "dangling": any other link, which
\* resolves to nothing inside the root; "file": a regular file or a line of one.
Kinds == {"absent", "dangling", "directory", "linked", "file"}

(***************************************************************************)
(* What a product's root is to hold, by the way it can be lacking.         *)
(*   files:       programs and texts that are to be regular files          *)
(*   lines:       lines a text is to have                                  *)
(*   directories: directories a mount or a service needs                   *)
(*   links:       links whose target is what is asked of them              *)
(*   masks:       links to /dev/null, which may be there and need not      *)
(*   names:       names that are to be there, as those of a .wants are     *)
(*   foreign:     files that are not to be there                           *)
(*   unwanted:    names that are not to be there                           *)
(*   unsaid:      lines no text is to have                                 *)
(***************************************************************************)
Nothing == [files |-> {}, lines |-> {}, directories |-> {}, links |-> {}, masks |-> {}, names |-> {},
            foreign |-> {}, unwanted |-> {}, unsaid |-> {}]
Together(a, b) ==
  [files |-> a.files \cup b.files, lines |-> a.lines \cup b.lines,
   directories |-> a.directories \cup b.directories, links |-> a.links \cup b.links, masks |-> a.masks \cup b.masks,
   names |-> a.names \cup b.names, foreign |-> a.foreign \cup b.foreign,
   unwanted |-> a.unwanted \cup b.unwanted, unsaid |-> a.unsaid \cup b.unsaid]
PlacesOf(content) == UNION {content[class] : class \in DOMAIN Nothing}

\* The kind a place has in the root as it was composed, and the kinds it has
\* once something went wrong with it.
Composed(content, p) ==
  CASE p \in content.files \cup content.lines -> "file"
    [] p \in content.directories              -> "directory"
    [] p \in content.links \cup content.names -> "linked"
    [] OTHER                                  -> "absent"
Faults(content, p) ==
  CASE p \in content.files                     -> {"absent", "dangling", "directory"}
    [] p \in content.directories               -> {"absent", "file"}
    [] p \in content.links                     -> {"absent", "dangling", "file"}
    [] p \in content.masks                     -> {"linked", "dangling", "file"}
    [] p \in content.lines \cup content.names  -> {"absent"}
    [] p \in content.unwanted                  -> {"dangling"}
    [] p \in content.foreign \cup content.unsaid -> {"file"}
    [] OTHER                                   -> {}

\* lstat, of the leaf: checks-root.ts entry.
entry(r, p) == r[p] # "absent"
entryIsFile(r, p) == r[p] = "file"

\* stat, inside the root: statInRoot, regularFileInRoot.
statInRoot(r, p) == r[p] \notin {"absent", "dangling"}
regularFileInRoot(r, p) == r[p] \in {"file", "linked"}
isDirectoryInRoot(r, p) == r[p] = "directory"

\* A text that cannot be read has no line: the catch of grepLines.
HasLine(r, file, line) == regularFileInRoot(r, file) /\ r[line] = "file"

\* The verdict of a check (verdict.ts).  A check that throws has none, which is
\* an error of the run.  A text that is read without a guard throws where it is
\* absent, or, read once its name was seen, where it is there and no file.
verdict(ok) == IF ok THEN "pass" ELSE "fail"
Throws(r, file) == entry(r, file) /\ ~regularFileInRoot(r, file)
Guarded(r, file, ok) == IF Throws(r, file) THEN "error" ELSE verdict(ok)
Reading(r, files, ok) ==
  IF \E f \in files : ~regularFileInRoot(r, f) THEN "error" ELSE verdict(ok)

=============================================================================
