---------------------------- MODULE ImportRewriting ----------------------------
(***************************************************************************)
(* The one change made to source text on its way to JSR                    *)
(* (adapters/registry_publish.py rewrite_imports): a bare npm dependency    *)
(* becomes npm:<name>@<version> in static import and export declarations.  *)
(* The code has no parser.  It knows a few shapes of token sequences and    *)
(* refuses what it does not know but what may import a dependency.         *)
(*                                                                         *)
(* A text is its sequence of tokens: comments are none, a string, a        *)
(* template or a regular expression is one.  A dependency in quotes is the *)
(* token "dep", and one of its subpaths "dep/sub"; a template may name it  *)
(* too.  Rewritten it is "npm:dep".  One dependency stands for them all:   *)
(* nothing in the code relates two of them.                                *)
(***************************************************************************)
EXTENDS Naturals, Sequences

\* Punctuation, by name.
Open == "{"
Close == "}"
Comma == ","
Semicolon == ";"

CONSTANT
  Identifier  \* the tokens that look like names, keywords included

\* What ends a list of names, or the text, is no name.
ASSUME MarksAreNoNames == {Close, "end"} \cap Identifier = {}

VARIABLES
  text,       \* the tokens as they are in the source, a .ts file
  version,    \* the dependency in the manifest: "exact", a "range", or "none" there
  published,  \* the tokens as they are published
  pass,       \* the pass rewrite_imports comes to, or how it ended
  covered     \* the places of the specifiers to replace

TokenAt(i) == IF i \in DOMAIN text THEN text[i] ELSE "end"

inputs == <<text, version>>

RewriteStart == published = text /\ pass = "slashes" /\ covered = {}

\* Without dependencies no text is looked at.
NoDependencies ==
  /\ pass = "slashes" /\ version = "none"
  /\ pass' = "published"
  /\ UNCHANGED <<inputs, published, covered>>

\* What starts with a slash may be a division, and what is interpolated into a
\* template may import.  A "template" without interpolations, or with identifiers
\* and operators only, is let through.
Ambiguous(i) ==
  \/ /\ TokenAt(i) = "/re/" /\ i > 1
     /\ TokenAt(i - 1) \notin {"(", "=", Comma, "[", ":"}
  \/ TokenAt(i) \in {"/", "interpolation"}

Slashes ==
  /\ pass = "slashes" /\ version # "none"
  /\ pass' = IF \E i \in DOMAIN text : Ambiguous(i) THEN "refused" ELSE "declarations"
  /\ UNCHANGED <<inputs, published, covered>>

\* The first place from i on that holds neither a name nor a comma.
AfterNames(i) ==
  CHOOSE j \in i..(Len(text) + 1) :
    /\ TokenAt(j) \notin Identifier \cup {Comma}
    /\ \A k \in i..(j - 1) : TokenAt(k) \in Identifier \cup {Comma}

\* Mutant: the modifier "type" is not known.
Clause_NoType(i) ==
  CASE TokenAt(i + 1) = Open /\ TokenAt(AfterNames(i + 2)) = Close -> AfterNames(i + 2) + 1
    [] TokenAt(i + 1) = "*" /\ TokenAt(i + 2) = "as" -> i + 4
    [] TokenAt(i + 1) = "*" /\ TokenAt(i + 2) # "as" -> i + 2
    [] OTHER -> 0

\* Where the "from" of the declaration at i has to be; 0 when neither { names }
\* nor * nor * as name comes after i and "type".
Clause(i) ==
  LET start == IF TokenAt(i + 1) = "type" THEN i + 2 ELSE i + 1
  IN CASE TokenAt(start) = Open /\ TokenAt(AfterNames(start + 1)) = Close ->
            AfterNames(start + 1) + 1
       [] TokenAt(start) = "*" /\ TokenAt(start + 1) = "as" -> start + 3
       [] TokenAt(start) = "*" /\ TokenAt(start + 1) # "as" -> start + 1
       [] OTHER -> 0

\* Only an exact version makes a specifier for npm; the first declaration of a
\* dependency that has none is refused.
Declarations ==
  /\ pass = "declarations"
  /\ covered' = {Clause(i) + 1 : i \in
                   {j \in DOMAIN text : /\ text[j] \in {"import", "export"}
                                        /\ Clause(j) # 0
                                        /\ TokenAt(Clause(j)) = "from"
                                        /\ TokenAt(Clause(j) + 1) = "dep"}}
  /\ pass' = IF covered' # {} /\ version = "range" THEN "refused" ELSE "leftovers"
  /\ UNCHANGED <<inputs, published>>

\* Mutant: dynamic imports and imports for side effects are forgotten.
Leftover_FromOnly(i) == TokenAt(i) = "from" /\ TokenAt(i + 1) = "dep" /\ i + 1 \notin covered

\* A dependency in a declaration of another shape, imported for its side effects
\* or dynamically.
Leftover(i) ==
  \/ TokenAt(i) = "from" /\ TokenAt(i + 1) = "dep" /\ i + 1 \notin covered
  \/ /\ TokenAt(i) = "import"
     /\ TokenAt(IF TokenAt(i + 1) = "(" THEN i + 2 ELSE i + 1) = "dep"

Leftovers ==
  /\ pass = "leftovers"
  /\ pass' = IF \E i \in DOMAIN text : Leftover(i) THEN "refused" ELSE "replace"
  /\ UNCHANGED <<inputs, published, covered>>

Replace ==
  /\ pass = "replace"
  /\ published' = [i \in DOMAIN text |-> IF i \in covered THEN "npm:dep" ELSE text[i]]
  /\ pass' = "published"
  /\ UNCHANGED <<inputs, covered>>

RewriteNext == NoDependencies \/ Slashes \/ Declarations \/ Leftovers \/ Replace

-----------------------------------------------------------------------------
\* ES modules with type modifiers, read as a language and not as the code reads
\* them.  Between(i, s): the tokens strictly between two places.
Between(i, s) == SubSeq(text, i + 1, s - 1)

WithoutType(tokens) ==
  IF tokens # <<>> /\ Head(tokens) = "type" THEN {tokens, Tail(tokens)} ELSE {tokens}

Named(tokens) ==
  LET n == Len(tokens)
  IN /\ n >= 2 /\ tokens[1] = Open /\ tokens[n] = Close
     /\ \A k \in 2..(n - 1) : tokens[k] \in Identifier \cup {Comma}

Namespace(tokens) ==
  \/ tokens = <<"*">>
  \/ Len(tokens) = 3 /\ tokens[1] = "*" /\ tokens[2] = "as"

\* A static declaration of the documented kinds, from its keyword at i to its
\* specifier at s: named or namespace, maybe of types only.
Declares(i, s) ==
  /\ i + 2 < s /\ text[i] \in {"import", "export"} /\ text[s - 1] = "from"
  /\ \E tokens \in WithoutType(Between(i, s - 1)) : Named(tokens) \/ Namespace(tokens)

\* Everything else that makes a module load the one named at s: a declaration
\* with a default import or quoted names, side effects, import().
Loads(i, s) ==
  \/ /\ i + 1 < s /\ text[i] \in {"import", "export"} /\ text[s - 1] = "from"
     /\ \A k \in (i + 1)..(s - 2) : text[k] \notin {"dep", "(", Semicolon}
  \/ text[i] = "import" /\ Between(i, s) \in {<<>>, <<"(">>}

\* Published text loads no dependency by its quoted bare name: not by a declaration
\* of any form, for its side effects, nor by import() of that string.  The code looks
\* for whole names in quotes only: a subpath of a dependency, a template in import()
\* and an expression there are published as they are.
NoBareDependency ==
  pass = "published" /\ version # "none" =>
    ~ \E i, s \in DOMAIN published :
        i < s /\ published[s] = "dep" /\ (Declares(i, s) \/ Loads(i, s))

\* The specifiers of the documented declarations are what is rewritten, all of them
\* and nothing else, and to an exact version.  Refused is only a text with ambiguous
\* slashes or templates, one that loads a dependency in another way, or a declaration
\* of a dependency without an exact version (registry-publish.md, "text inside
\* comments, ordinary strings and template strings is retained").
DocumentedAreRewritten ==
  LET declared == {s \in DOMAIN text : text[s] = "dep" /\ \E i \in 1..s : Declares(i, s)}
      loaded == {s \in DOMAIN text : text[s] = "dep" /\ \E i \in 1..s : Loads(i, s)}
      changed == {s \in DOMAIN text : published[s] # text[s]}
  IN /\ pass = "published" /\ version = "none" => changed = {}
     /\ pass = "published" /\ version # "none" =>
          changed = declared /\ (changed # {} => version # "range")
     /\ pass = "refused" => \/ \E i \in DOMAIN text : Ambiguous(i)
                            \/ \E s \in DOMAIN text \ declared :
                                 text[s] = "dep" /\ (s \in loaded \/ TokenAt(s - 1) = "from")
                            \/ declared # {} /\ version = "range"
=============================================================================
