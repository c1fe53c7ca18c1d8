-------------------------- MODULE MCReleaseInspection --------------------------
\* Four packages, three of one name: two versions, and one version from two
\* sources.  Two of them may depend on each other in a cycle.
EXTENDS ReleaseInspection

Package(name, number, origin) == [name |-> name, version |-> number, source |-> origin]
MCRoot == Package("root", "1", Absent)
One == Package("a", "1", "registry")
Two == Package("a", "2", "registry")
Git == Package("a", "1", "git")
MCIdentity == {MCRoot, One, Two, Git}

MayNeed == [i \in MCIdentity |->
  CASE i = MCRoot -> {One, Git} [] i = One -> {Two}
    [] i = Two -> {Git} [] i = Git -> {One}]

\* The shortest reference that is not ambiguous, as Cargo writes it.
Reference(all, i) ==
  LET same == {j \in all \ {i} : j.name = i.name}
  IN IF same = {} THEN Package(i.name, Absent, Absent)
     ELSE IF \A j \in same : j.version # i.version THEN Package(i.name, i.version, Absent)
     ELSE i

Format(number) == [version |-> number, rest |-> "none"]

Needs(all) == {f \in [all -> SUBSET MCIdentity] : \A i \in all : f[i] \subseteq MayNeed[i]}

Lock(all, needs, names, metadata, checksum) ==
  [metadata |-> metadata,
   packages |-> [i \in all |->
     [metadata |-> IF i = One THEN checksum ELSE "sum",
      dependencies |-> {IF names THEN Package(j.name, Absent, Absent) ELSE Reference(all, j) :
                          j \in needs[i]}]]]

MCSourceLock == {Lock(MCIdentity, f, FALSE, Format(4), "sum") : f \in Needs(MCIdentity)}

\* Any packages with any dependencies; names alone, other metadata.
MCCrateLock ==
  UNION {{Lock(all, f, v[1], v[2], v[3]) :
            f \in Needs(all),
            v \in {<<FALSE, Format(4), "sum">>, <<TRUE, Format(4), "sum">>}
                   \cup IF all # MCIdentity THEN {}
                        ELSE {<<FALSE, Format(3), "sum">>, <<FALSE, Format(4), "other">>}} :
         all \in SUBSET MCIdentity}

MCIdentifier == {"import", "export", "from", "type", "as", "x"}

Clauses ==
  {<<>>, <<"*">>, <<"*", "as", "x">>, <<"*", "x">>, <<"{", "}">>, <<"{", "x">>,
   <<"{", "x", ",", "from", "}">>, <<"{", "string", "as", "x", "}">>, <<"x">>,
   <<"x", ",", "{", "x", "}">>, <<"(">>}
Declaration ==
  {<<k>> \o t \o c \o f \o <<s>> :
     k \in {"import", "export", "x"}, t \in {<<>>, <<"type">>}, c \in Clauses,
     f \in {<<>>, <<"from">>}, s \in {"dep", "dep/sub"}}
Others ==
  {<<>>, <<"x", "=", "dep">>, <<"=", "/re/">>, <<"/re/">>, <<"x", "/re/">>,
   <<"interpolation">>, <<"import", "(", "template", ")">>, <<"import", "dep">>,
   <<"import", "*", "as", "x", "from", "dep">>, <<"export", "{", "x">>}
MCText ==
  {o \o <<";">> \o d : o \in Others, d \in Declaration}
    \cup {d \o <<";">> \o o : o \in Others, d \in Declaration}

MCVersion == {"none", "range", "exact"}

Of(chosen, sources, crates, texts, versions) ==
  {[channels |-> chosen, source |-> s, packaged |-> c, text |-> t, version |-> v] :
     s \in sources, c \in crates, t \in texts, v \in versions}

\* A package without dependencies, and a crate whose one dependency is ambiguous.
Leaf == Lock({MCRoot}, [i \in {MCRoot} |-> {}], FALSE, Format(4), "sum")
Vague == Lock({MCRoot, One, Two}, [i \in {MCRoot, One, Two} |-> IF i = MCRoot THEN {One} ELSE {}],
              TRUE, Format(4), "sum")

Old == [Leaf EXCEPT !.metadata = Format(2)]

\* All the locks, the same with one left out or of an unknown format, all the texts,
\* and some releases with both.
MCRelease ==
  Of({"cargo"}, MCSourceLock, MCCrateLock, {<<"x">>}, {"none"})
    \cup Of({"cargo"}, {Leaf, Old, Absent}, {Leaf, Old, Vague, Absent}, {<<"x">>}, {"none"})
    \cup Of({"jsr"}, {Leaf}, {Leaf}, MCText, MCVersion \ {"none"})
    \cup Of({"cargo", "jsr"}, {Leaf}, {Leaf, Vague}, Declaration, MCVersion)
=============================================================================
