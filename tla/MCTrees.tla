------------------------------ MODULE MCTrees ------------------------------
(* A tool of the project with a shell and two libraries of the base, over    *)
(* every form each of them may have; a unit with its timer and its link.     *)
EXTENDS TLC

CONSTANTS nil, env, python, tool, sh, bash, ld, gone, privA, privB, libA, libB, service, timer, wants, alias, resolv, docOwn, docBase,
          a, b, own, base

MCPaths == {env, python, tool, sh, bash, ld, gone, privA, privB, libA, libB, service, timer, wants, alias, resolv, docOwn, docBase}

Made(type, body, to, needs, search, owner) ==
  [type |-> type, body |-> body, to |-> to, command |-> <<>>, needs |-> needs, soname |-> nil, search |-> search, owner |-> owner]
Absent == Made("absent", "data", nil, {}, "none", nil)
Program(interp, needs, search, owner) == Made("file", "elf", interp, needs, search, owner)
Library(needs, soname, owner) == [Program(nil, needs, "none", owner) EXCEPT !.soname = soname]
Script(interp, owner) == Made("file", "script", interp, {}, "none", owner)
EnvScript(command, owner) == [Script(env, owner) EXCEPT !.command = command]
Link(to, owner) == Made("link", "data", to, {}, "none", owner)
MaskLink(owner) == Made("link", "mask", nil, {}, "none", owner)
Data(owner) == Made("file", "data", nil, {}, "none", owner)

Tools == {Program(nil, {}, "none", own), Program(ld, {a}, "rpath", own), Program(ld, {a}, "runpath", own), Program(nil, {b, a}, "none", own),
          Script(sh, own), Script(gone, own), Script(nil, own), EnvScript(<<gone, python>>, own), EnvScript(<<>>, own)}
Shells == {Program(ld, {b}, "none", base), Link(bash, base)}
Bashes == {Absent, Program(ld, {b}, "none", base), Script(ld, base), Script(tool, base)}
Loaders == {Library({}, nil, base), Library({}, a, base)}

Tree(t, s, c, l, pa, pb, la, lb, tm, doc, link) ==
  tool :> t @@ sh :> s @@ bash :> c @@ ld :> l @@ gone :> Absent @@ env :> Program(ld, {}, "none", base) @@ python :> Link(bash, base)
    @@ privA :> pa @@ privB :> pb @@ libA :> la @@ libB :> lb
    @@ service :> Made("file", "unit", tool, {}, "none", own) @@ timer :> tm @@ wants :> Link(service, own)
    @@ alias :> link @@ resolv :> Link(nil, base) @@ docOwn :> doc @@ docBase :> Data(base)

\* The tool t with a shell of its own and both libraries of the base.
Usual(t, c, tm, doc, link) ==
  Tree(t, Program(ld, {b}, "none", base), c, Library({}, nil, base), Absent, Absent, Library({}, nil, base), Library({}, nil, base), tm, doc, link)

\* Every form of the parts; a timer that is a mask; a tool without its licence; the unit
\* under a second name.
MCTrees ==
  {Tree(t, s, c, l, pa, pb, la, lb, Data(own), Data(own), Absent) :
     t \in Tools, s \in Shells, c \in Bashes, l \in Loaders, pa \in {Absent, Library({b}, nil, own)},
     pb \in {Absent, Library({}, nil, own)}, la \in {Absent, Library({}, nil, base), Library({}, b, base), Link(privA, base)},
     lb \in {Absent, Library({a}, nil, base)}}
  \cup {Usual(t, Absent, tm, doc, Absent) : t \in Tools, tm \in {Data(own), MaskLink(own)}, doc \in {Absent, Data(own)}}
  \cup {Usual(t, Program(ld, {b}, "none", base), Data(own), Data(own), Link(service, own)) : t \in Tools}

MCRules ==
  {[paths |-> {tool, bash}, executable |-> TRUE, glob |-> TRUE], [paths |-> {sh}, executable |-> TRUE, glob |-> FALSE],
   [paths |-> {service, timer, wants, alias, privB}, executable |-> FALSE, glob |-> TRUE]}
MCContracts == resolv :> {sh}
MCCopyright == own :> docOwn @@ base :> docBase
MCLibPath == a :> libA @@ b :> libB
MCPrivatePath == a :> privA @@ b :> privB
MCUnitOf == [p \in MCPaths |-> CASE p \in {service, wants} -> service [] p = timer -> timer [] p = alias -> alias [] OTHER -> nil]
MCFollows == service :> {timer}
=============================================================================
