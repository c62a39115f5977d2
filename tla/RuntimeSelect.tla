--------------------------- MODULE RuntimeSelect ---------------------------
(***************************************************************************)
(* What of the installed root goes into the root that ships: from the      *)
(* declared roots of the selected packages the closure over links, script  *)
(* interpreters, the libraries a program is loaded with and the licences   *)
(* of the packages that contribute (src/rootfs/runtime/select.ts), and the *)
(* accounts of what stays behind (compose.ts).                             *)
(*                                                                         *)
(* A tree gives every path a node; parent directories follow their files   *)
(* and are left out.  One program is traced at a time, its libraries in    *)
(* the order the loader of the device takes them.                          *)
(***************************************************************************)
EXTENDS Sequences, FiniteSets, Naturals

CONSTANTS
  Paths, Names, Packages, \* paths, names of libraries, packages
  Own,          \* the packages that name themselves mica-
  Trees,        \* the installed roots, each a function from Paths to nodes
  Nil,         \* no path, no name, no package
  Rules,        \* the rules of the declarations: [paths, executable, glob]
  Env,          \* the program that looks for a command: /usr/bin/env
  Generated,    \* paths a rule names as the output of a producer
  Contracts,    \* links the system makes at run time, with what they require
  Excluded,     \* paths that ship apart from the root or not at all
  Pruned,       \* paths the rules leave behind
  Copyright,    \* the licence of each package
  LibPath, PrivatePath, \* a library's path in the system's directories and in
                \* the directory that a RUNPATH or an RPATH names
  UnitOf,       \* the unit a path names, as a file, a link or a drop-in
  Follows       \* the timers and the template that go with a service

\* What a path is, what it names (the target of a link, the interpreter of a script or a
\* program, the program of a unit), the libraries and the name a library has for itself,
\* the command of an env script in each directory of the PATH (none: a form that is not
\* supported).  A mask is a link to /dev/null.
Node == [type: {"absent", "directory", "file", "link"}, body: {"elf", "script", "unit", "data", "mask"},
         to: Paths \cup {Nil}, command: Seq(Paths), needs: SUBSET Names, soname: Names \cup {Nil},
         search: {"none", "rpath", "runpath"}, owner: Packages \cup {Nil}]

ASSUME RuntimeAssumption ==
  /\ IsFiniteSet(Paths) /\ Trees \subseteq [Paths -> Node] /\ Nil \notin Paths \cup Names \cup Packages
  /\ Rules \subseteq [paths: SUBSET Paths, executable: BOOLEAN, glob: BOOLEAN]
  /\ \A l \in DOMAIN Contracts : l \in Paths /\ Contracts[l] \subseteq Paths
  /\ Copyright \in [Packages -> Paths] /\ Own \subseteq Packages
  /\ LibPath \in [Names -> Paths] /\ PrivatePath \in [Names -> Paths]

VARIABLES tree,   \* the installed root
          phase,  \* "roots", "adding", "composed" or "refused"
          unrunnable, leftUnits, \* scripts without an interpreter, the units that start them
          work,   \* the paths still to add: [path, executable, scripts]
          files,  \* the paths the selection carries
          bindings, \* the file of each library name, over all programs
          queue, loaded, seen \* the program being traced: its objects whose needs
                  \* are open, the names it has loaded, the objects met
selectVars == <<tree, phase, unrunnable, leftUnits, work, files, bindings, queue, loaded, seen>>

-----------------------------------------------------------------------------
(* The tree.                                                                *)

Nothing == [n \in Names |-> Nil]
Item(p, executable, scripts) == [path |-> p, executable |-> executable, scripts |-> scripts]

present(p) == tree[p].type # "absent"

\* The path itself and those its links name, one after the other: Nil after a link that
\* names nothing.
onward(t, q) == IF q # Nil /\ t[q].type = "link" THEN t[q].to ELSE q
trail(t, p) ==
  LET walk[n \in 0..Cardinality(Paths)] == IF n = 0 THEN {p} ELSE {onward(t, q) : q \in walk[n - 1]}
  IN walk
links(t, p) == LET walk == trail(t, p) IN (UNION {walk[n] : n \in DOMAIN walk}) \ {Nil}

\* Where a path leads, its last component followed: Nil for a link that leads
\* nowhere or in a circle.
resolve(t, p) ==
  LET ends == {q \in trail(t, p)[Cardinality(Paths)] : q # Nil /\ t[q].type \notin {"absent", "link"}}
  IN IF ends = {} THEN Nil ELSE CHOOSE q \in ends : TRUE

\* The first path that is there.
FirstOf(t, s) ==
  IF \E k \in DOMAIN s : resolve(t, s[k]) # Nil
    THEN s[CHOOSE k \in DOMAIN s : resolve(t, s[k]) # Nil /\ \A j \in 1..(k - 1) : resolve(t, s[j]) = Nil]
    ELSE Nil

\* A script whose interpreter is not in the root, or the command it has env look for.
interpreterMissing(p) ==
  LET q == resolve(tree, p)
  IN /\ q # Nil /\ tree[q].type = "file" /\ tree[q].body = "script" /\ tree[q].to # Nil
     /\ \/ resolve(tree, tree[q].to) = Nil
        \/ tree[q].to = Env /\ tree[q].command # <<>> /\ FirstOf(tree, tree[q].command) = Nil

-----------------------------------------------------------------------------
(* The roots.                                                               *)

\* A glob takes what is there, and leaves a script that cannot run.
Matched(rule) ==
  IF rule.glob THEN {p \in rule.paths : present(p) /\ p \notin Excluded} ELSE rule.paths
Left(rule) == IF rule.glob /\ rule.executable THEN {p \in Matched(rule) : interpreterMissing(p)} ELSE {}
RootsOf(rule) == Matched(rule) \ Left(rule)
Empty(rule) == rule.glob /\ RootsOf(rule) = {}

\* The units among the roots whose program was left, and what goes with them.
Starts(p, left) ==
  /\ tree[p].type = "file" /\ tree[p].body = "unit" /\ tree[p].to # Nil
  /\ tree[p].to \in left \/ resolve(tree, tree[p].to) \in left

\* A mutant: only the service itself is left.
ServicesOnly(roots, left) == {UnitOf[p] : p \in {p \in roots : UnitOf[p] # Nil /\ Starts(p, left)}}

leaveUnits(roots, left) ==
  LET services == {UnitOf[p] : p \in {p \in roots : UnitOf[p] # Nil /\ Starts(p, left)}}
  IN services \cup UNION {Follows[s] : s \in services \cap DOMAIN Follows}

leftUnit(p, units) == UnitOf[p] # Nil /\ UnitOf[p] \in units

Declared == DOMAIN Contracts \cup UNION {RootsOf(rule) : rule \in Rules}
DeclareRoots ==
  /\ phase = "roots"
  /\ unrunnable' = UNION {Left(rule) : rule \in Rules}
  /\ leftUnits' = leaveUnits(Declared, unrunnable')
  /\ work' = {Item(p, FALSE, {}) : p \in {p \in DOMAIN Contracts : ~leftUnit(p, leftUnits')}}
             \cup UNION {{Item(p, rule.executable, {}) : p \in {p \in RootsOf(rule) : ~leftUnit(p, leftUnits')}} :
                           rule \in Rules}
  /\ phase' = IF \E rule \in Rules : Empty(rule) THEN "refused" ELSE "adding"
  /\ UNCHANGED <<tree, files, bindings, queue, loaded, seen>>

-----------------------------------------------------------------------------
(* Adding a path.                                                           *)

\* Carried: not excluded, and of a known origin.
CanRetain(p) == present(p) /\ p \notin Excluded /\ (tree[p].owner # Nil \/ p \in Generated)

Refuse == phase' = "refused" /\ UNCHANGED <<tree, unrunnable, leftUnits, work, files, bindings, queue, loaded, seen>>

NotOfItsChain(i) == i.path \notin i.scripts

Elf(p) == tree[p].type = "file" /\ tree[p].body = "elf"
Mask(p) == tree[p].type = "link" /\ tree[p].body = "mask"

\* A link that leads to a path of the root: not one of the system's, which are made at
\* run time, and not a mask, which is kept as it is.
Leads(p) == tree[p].type = "link" /\ p \notin DOMAIN Contracts /\ ~Mask(p)

\* A mutant: what a library calls itself is not read.
AskedOnly(p, asked) == asked

\* The names of an object: the one it was asked for by and its own.  Each is one file,
\* over all the programs and in the one being traced.
NamesOf(p, asked) == asked \cup ({tree[p].soname} \ {Nil})
Unambiguous(p, asked, in) == \A n \in NamesOf(p, asked) : bindings[n] \in {Nil, p} /\ in[n] \in {Nil, p}
Bound(f, p, asked) == [n \in Names |-> IF n \in NamesOf(p, asked) THEN p ELSE f[n]]

\* What adding one path takes on, by what is there.
Carried(i) ==
  LET n == tree[i.path] IN
  /\ CanRetain(i.path)
  /\ i.path \in DOMAIN Contracts => n.type = "link" /\ ~i.executable
  /\ Mask(i.path) => ~i.executable
  /\ Leads(i.path) => resolve(tree, i.path) # Nil
  /\ i.executable /\ n.type # "link" => n.type = "file" /\ n.body \in {"elf", "script"} /\ NotOfItsChain(i)
  /\ Elf(i.path) => Unambiguous(i.path, {}, Nothing)

\* A mutant: the first line of a script is not checked.
AnyShebang(i) == Carried(i)

Addable(i) ==
  /\ Carried(i)
  /\ tree[i.path].type = "file" /\ tree[i.path].body = "script" =>
       /\ tree[i.path].to # Nil
       /\ tree[i.path].to = Env => FirstOf(tree, tree[i.path].command) # Nil

\* A mutant: the command is left to env.
EnvAlone(n) == {n.to}

\* What a script runs on: its interpreter, and the command it has env look for.
Runners(n) == {n.to} \cup (IF n.to = Env THEN {FirstOf(tree, n.command)} ELSE {})

Beyond(i) ==
  LET n == tree[i.path]
      runners == {Item(p, TRUE, i.scripts \cup {i.path}) : p \in Runners(n)}
  IN CASE i.path \in DOMAIN Contracts           -> {Item(p, FALSE, {}) : p \in Contracts[i.path]}
       [] Leads(i.path)                         -> {Item(n.to, i.executable, i.scripts)}
       [] n.type = "file" /\ n.body = "script"  -> runners
       [] OTHER                                 -> {}

\* An object of a program with what it still needs: the interpreter first.
Traced(p, inherited, scripts) ==
  [path |-> p, interp |-> tree[p].to # Nil, left |-> tree[p].needs, inherited |-> inherited, scripts |-> scripts]

\* The next path to add.  The code goes depth first in the order of the
\* declarations; one order stands for it.
Pending == CHOOSE i \in work : TRUE
Adding == phase = "adding" /\ queue = <<>> /\ work # {}

Add(i) ==
  /\ Adding /\ i = Pending
  /\ Addable(i)
  /\ files' = files \cup {i.path}
  /\ work' = (work \ {i}) \cup Beyond(i)
  /\ IF Elf(i.path)
       THEN /\ queue' = <<Traced(i.path, FALSE, i.scripts)>> /\ seen' = {i.path}
            /\ bindings' = Bound(bindings, i.path, {}) /\ loaded' = Bound(Nothing, i.path, {})
       ELSE UNCHANGED <<queue, loaded, seen, bindings>>
  /\ UNCHANGED <<tree, phase, unrunnable, leftUnits>>

RefuseAdd(i) == Adding /\ i = Pending /\ ~Addable(i) /\ Refuse

-----------------------------------------------------------------------------
(* The libraries of the program.                                            *)

\* A mutant: the RPATH of an object is forgotten for what it loads.
OwnPathOnly(object, n) ==
  IF tree[object.path].search # "none" THEN <<PrivatePath[n], LibPath[n]>> ELSE <<LibPath[n]>>

\* The directories a name is looked for in: a RUNPATH takes the place of every
\* RPATH, and the RPATH of an object holds for what it loads too.
Candidates(object, n) ==
  IF tree[object.path].search # "none" \/ object.inherited THEN <<PrivatePath[n], LibPath[n]>> ELSE <<LibPath[n]>>

Broken(p) == tree[p].type = "link" /\ resolve(tree, p) = Nil

\* What a name is loaded from: what the program has already, else the first
\* that exists.  Nil where the selection is refused.
Found(object, n) ==
  IF loaded[n] # Nil THEN loaded[n]
  ELSE LET s == Candidates(object, n)
           found == FirstOf(tree, s)
       IN IF \E k \in DOMAIN s : Broken(s[k]) /\ \A j \in 1..(k - 1) : resolve(tree, s[j]) = Nil THEN Nil ELSE found

\* A library is an ELF file, and one name is one file over all the programs.
Loadable(p, n) ==
  LET q == resolve(tree, p)
  IN /\ q # Nil /\ Elf(q) /\ Unambiguous(q, {n}, loaded)
     /\ \A l \in links(tree, p) : CanRetain(l) /\ l \notin DOMAIN Contracts

Joined(q, object, rest) == IF q \in seen THEN rest ELSE Append(rest, object)

\* The interpreter of an object joins the program, without its directories.
Interpreter(object) ==
  LET q == resolve(tree, tree[object.path].to)
  IN /\ q # Nil /\ Elf(q) /\ Unambiguous(q, {}, loaded)
     /\ q \notin object.scripts \cup {object.path}
     /\ \A l \in links(tree, tree[object.path].to) : CanRetain(l) /\ l \notin DOMAIN Contracts

LoadInterpreter ==
  LET object == Head(queue)
      q == resolve(tree, tree[object.path].to)
  IN /\ phase = "adding" /\ queue # <<>> /\ object.interp
     /\ IF Interpreter(object)
          THEN /\ files' = files \cup links(tree, tree[object.path].to)
               /\ seen' = seen \cup {q}
               /\ queue' = Joined(q, Traced(q, FALSE, object.scripts \cup {object.path}),
                                  <<[object EXCEPT !.interp = FALSE]>> \o Tail(queue))
               /\ bindings' = Bound(bindings, q, {}) /\ loaded' = Bound(loaded, q, {})
               /\ UNCHANGED <<tree, phase, unrunnable, leftUnits, work>>
          ELSE Refuse

\* The libraries of an object in the order it names them: one order stands for it.
NextNeed(object) == CHOOSE n \in object.left : TRUE
Asked(n) == /\ phase = "adding" /\ queue # <<>> /\ ~Head(queue).interp
            /\ Head(queue).left # {} /\ n = NextNeed(Head(queue))

Load(n) ==
  LET object == Head(queue)
      p == Found(object, n)
      q == resolve(tree, p)
      next == Traced(q, object.inherited \/ tree[object.path].search = "rpath", {})
      rest == <<[object EXCEPT !.left = @ \ {n}]>> \o Tail(queue)
  IN /\ Asked(n)
     /\ p # Nil /\ Loadable(p, n)
     /\ files' = files \cup links(tree, p)
     /\ bindings' = Bound(bindings, q, {n}) /\ loaded' = Bound(loaded, q, {n})
     /\ seen' = seen \cup {q}
     /\ queue' = Joined(q, next, rest)
     /\ UNCHANGED <<tree, phase, unrunnable, leftUnits, work>>

RefuseLoad(n) ==
  LET p == Found(Head(queue), n) IN
  /\ Asked(n)
  /\ p = Nil \/ ~Loadable(p, n)
  /\ Refuse

ObjectLoaded ==
  /\ phase = "adding" /\ queue # <<>> /\ ~Head(queue).interp /\ Head(queue).left = {}
  /\ queue' = Tail(queue)
  /\ UNCHANGED <<tree, phase, unrunnable, leftUnits, work, files, bindings, loaded, seen>>

-----------------------------------------------------------------------------
(* Licences, and the accounts of what stays behind.                         *)

contributors == {tree[p].owner : p \in {p \in files : tree[p].type # "directory"}} \ {Nil}
Unlicensed == {p \in contributors : Copyright[p] \notin files}
Idle == phase = "adding" /\ work = {} /\ queue = <<>>

License ==
  /\ Idle /\ Unlicensed # {}
  /\ work' = {Item(Copyright[p], FALSE, {}) : p \in Unlicensed}
  /\ UNCHANGED <<tree, phase, unrunnable, leftUnits, files, bindings, queue, loaded, seen>>

\* A file of a package that the selection left without a reason.
unaccounted(p) ==
  /\ p \notin files /\ p \notin Excluded /\ tree[p].owner \in Own
  /\ tree[p].type \in {"file", "link"}
  /\ \A n \in Names : p # LibPath[n]
  /\ p \notin unrunnable /\ ~leftUnit(p, leftUnits) /\ p \notin Pruned

compose ==
  /\ Idle /\ Unlicensed = {}
  /\ phase' = IF \E p \in Paths : unaccounted(p) THEN "refused" ELSE "composed"
  /\ UNCHANGED <<tree, unrunnable, leftUnits, work, files, bindings, queue, loaded, seen>>

SelectEnded == phase \in {"composed", "refused"} /\ UNCHANGED selectVars

-----------------------------------------------------------------------------

SelectInit ==
  /\ tree \in Trees /\ phase = "roots"
  /\ unrunnable = {} /\ leftUnits = {} /\ work = {} /\ files = {}
  /\ bindings = Nothing /\ queue = <<>> /\ loaded = Nothing /\ seen = {}

Step ==
  \/ DeclareRoots
  \/ \E i \in work : Add(i) \/ RefuseAdd(i)
  \/ \E n \in Names : Load(n) \/ RefuseLoad(n)
  \/ LoadInterpreter
  \/ ObjectLoaded
  \/ License
  \/ compose
SelectNext == Step \/ SelectEnded

SelectSpec == SelectInit /\ [][SelectNext]_selectVars
SelectFairSpec == SelectSpec /\ WF_selectVars(Step)

-----------------------------------------------------------------------------

Items == [path: Paths, executable: BOOLEAN, scripts: SUBSET Paths]
Objects == [path: Paths, interp: BOOLEAN, left: SUBSET Names, inherited: BOOLEAN, scripts: SUBSET Paths]

SelectTypeOK ==
  /\ tree \in [Paths -> Node] /\ phase \in {"roots", "adding", "composed", "refused"}
  /\ unrunnable \subseteq Paths
  /\ work \subseteq Items /\ files \subseteq Paths
  /\ bindings \in [Names -> Paths \cup {Nil}] /\ loaded \in [Names -> Paths \cup {Nil}]
  /\ queue \in Seq(Objects) /\ seen \subseteq Paths

\* What a carried file refers to is carried: the target of a link that is not
\* one of the system's and not a mask, the interpreter of a script or of a program,
\* the command a script has env look for, every library by the one file of its name,
\* the licence of its package.
Closed ==
  phase = "composed" =>
    \A f \in files :
      /\ Leads(f) => tree[f].to \in files
      /\ tree[f].type = "file" /\ tree[f].body \in {"elf", "script"} /\ tree[f].to # Nil => tree[f].to \in files
      /\ tree[f].type = "file" /\ tree[f].body = "script" /\ tree[f].to = Env =>
           FirstOf(tree, tree[f].command) \in files
      /\ Elf(f) => \A n \in tree[f].needs : bindings[n] \in files
      /\ tree[f].owner # Nil /\ tree[f].type # "directory" => Copyright[tree[f].owner] \in files

\* The loader of the device, over the root that ships: the objects of a program
\* in the order it takes them, each name from what has it for its own among the
\* objects already there, else from the first directory that has it.
Shipped == [p \in Paths |-> IF p \in files THEN tree[p] ELSE [tree[p] EXCEPT !.type = "absent"]]
Libraries == {LibPath[n] : n \in Names} \cup {PrivatePath[n] : n \in Names}
Programs == {p \in files \ Libraries : Elf(p)}

DeviceLoads(program) ==
  LET path(o, n) == IF tree[o.path].search # "none" \/ o.inherited THEN <<PrivatePath[n], LibPath[n]>> ELSE <<LibPath[n]>>
      first(s) == LET there == {k \in DOMAIN s : resolve(Shipped, s[k]) # Nil}
                  IN IF there = {} THEN Nil ELSE resolve(Shipped, s[CHOOSE k \in there : \A j \in there : k <= j])
      names(q) == IF q = Nil THEN {} ELSE {tree[q].soname} \ {Nil}
      object(q, inherited) == [path |-> q, left |-> tree[q].needs, inherited |-> inherited]
      one(s, o, n) ==
        LET q == IF n \in s.asked THEN s.found[n] ELSE first(path(o, n))
            rest == <<[o EXCEPT !.left = @ \ {n}]>> \o Tail(s.open)
            new == ({n} \cup names(q)) \ s.asked
        IN [found |-> [m \in Names |-> IF m \in new THEN q ELSE s.found[m]],
            asked |-> s.asked \cup new, met |-> s.met \cup {q},
            open |-> IF q \in s.met \cup {Nil} THEN rest
                     ELSE Append(rest, object(q, o.inherited \/ tree[o.path].search = "rpath"))]
      interp == IF tree[program].to = Nil THEN Nil ELSE resolve(Shipped, tree[program].to)
      start == [found |-> [n \in Names |-> IF n \in names(program) THEN program ELSE IF n \in names(interp) THEN interp ELSE Nil],
                asked |-> names(program) \cup names(interp),
                met |-> {program, interp}, open |-> <<object(program, FALSE)>>]
      run[k \in 0..((Cardinality(Paths) + 1) * (Cardinality(Names) + 1))] ==
        IF k = 0 THEN start
        ELSE LET s == run[k - 1] IN
             IF s.open = <<>> THEN s
             ELSE IF Head(s.open).left = {} THEN [s EXCEPT !.open = Tail(@)]
             ELSE one(s, Head(s.open), CHOOSE n \in Head(s.open).left : TRUE)
  IN run[(Cardinality(Paths) + 1) * (Cardinality(Names) + 1)]

\* A program of the root that ships loads there what it loaded where it was
\* built: every name is found, and as the file that was traced, though most of
\* the installed root is gone.
LoadsTheSame ==
  phase = "composed" =>
    \A p \in Programs :
      LET there == DeviceLoads(p) IN \A n \in there.asked : there.found[n] # Nil /\ there.found[n] = bindings[n]

\* Whatever the root is, scripts that interpret one another included, the
\* selection comes to an end.
SelectionEnds == <>(phase \in {"composed", "refused"})

\* A unit whose program the root cannot run is left with its timer, its template, its
\* drop-ins and the links that name them, so that nothing starts what cannot run.
\* Excepted is what another carried path leads to, as the code follows it: a link of
\* another name (an alias of the unit), or a link of the system's that requires it.
WithIt(unit) == {unit} \cup (IF unit \in DOMAIN Follows THEN Follows[unit] ELSE {})
LedTo(f) == \E l \in files : (Leads(l) /\ tree[l].to = f) \/ (l \in DOMAIN Contracts /\ f \in Contracts[l])
LeftUnitsStayOut ==
  phase = "composed" =>
    \A p \in Declared : UnitOf[p] # Nil /\ Starts(p, unrunnable) =>
      \A f \in files : UnitOf[f] \in WithIt(UnitOf[p]) => LedTo(f)
=============================================================================
