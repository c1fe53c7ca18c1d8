------------------------------ MODULE PackagedLock ------------------------------
(***************************************************************************)
(* The Cargo.lock inside a crate (adapters/registry_publish.py             *)
(* inspect_packaged_lock and cargo_lock_graph).  Packaging one member of a *)
(* workspace prunes the workspace's lock and shortens its references; the  *)
(* publisher accepts the result only when it is the producing package's own *)
(* part of the committed lock, which it walks with a list of pending        *)
(* packages.                                                               *)
(*                                                                         *)
(* Both locks are external input: Cargo wrote the committed one, anything   *)
(* may be in the packaged one.                                              *)
(***************************************************************************)
CONSTANTS
  Identity,    \* the packages: records of a name, a version and a source
  Root,        \* the identity of the producing package
  SourceLock,  \* the locks the producing source may hold
  CrateLock,   \* the locks a crate may hold
  Absent       \* a qualifier that a reference leaves out, no source, no lock at all

VARIABLES
  source,      \* the committed lock: its metadata, format version included, and,
               \* by identity, its packages,
               \* each with metadata (a checksum) and references to dependencies
  packaged,    \* the lock in the crate
  stage,       \* where inspect_packaged_lock is
  reachable,   \* the packages it has visited
  pending      \* those it has yet to visit; their order does not matter

locks == <<source, packaged>>
lockVars == <<source, packaged, stage, reachable, pending>>

Packages(lock) == DOMAIN lock.packages

\* What a reference, name [version [(source)]], can mean in a lock.
Candidates(lock, reference) ==
  {identity \in Packages(lock) :
     /\ identity.name = reference.name
     /\ reference.version \in {Absent, identity.version}
     /\ reference.source \in {Absent, identity.source}}

\* cargo_lock_graph refuses a format it does not know, a reference that is missing or
\* ambiguous, and a second one to the same package.
Resolves(lock) ==
  /\ lock.metadata.version \in {3, 4}
  /\ \A identity \in Packages(lock) :
       LET references == lock.packages[identity].dependencies
       IN /\ \A reference \in references :
               \E one \in Packages(lock) : Candidates(lock, reference) = {one}
          /\ \A first, second \in references :
               Candidates(lock, first) = Candidates(lock, second) => first = second

\* The edges of the graph.
Edges(lock, identity) ==
  UNION {Candidates(lock, reference) :
           reference \in lock.packages[identity].dependencies}

Start == stage = "parse" /\ reachable = {} /\ pending = {}

LockInit == source \in SourceLock /\ packaged \in CrateLock /\ Start

Parse ==
  /\ stage = "parse"
  /\ IF /\ Resolves(source) /\ Resolves(packaged)
        /\ packaged.metadata = source.metadata
        /\ Root \in Packages(source)
     THEN stage' = "walk" /\ pending' = {Root}
     ELSE stage' = "refused" /\ UNCHANGED pending
  /\ UNCHANGED <<locks, reachable>>

\* Mutant: a package's dependencies replace what else was pending.
Visit_DropsPending ==
  /\ stage = "walk"
  /\ \E identity \in pending :
       /\ reachable' = reachable \cup {identity}
       /\ pending' = IF identity \in reachable THEN pending \ {identity}
                     ELSE Edges(source, identity)
  /\ UNCHANGED <<locks, stage>>

Visit ==
  /\ stage = "walk"
  /\ \E identity \in pending :
       /\ reachable' = reachable \cup {identity}
       /\ pending' = IF identity \in reachable THEN pending \ {identity}
                     ELSE (pending \ {identity}) \cup Edges(source, identity)
  /\ UNCHANGED <<locks, stage>>

\* Mutant: the crate may hold more than is needed.
Compare_Superset ==
  /\ stage = "walk" /\ pending = {}
  /\ stage' = IF /\ reachable \subseteq Packages(packaged)
                 /\ Packages(packaged) \subseteq Packages(source)
                 /\ \A identity \in Packages(packaged) :
                      /\ packaged.packages[identity].metadata =
                           source.packages[identity].metadata
                      /\ Edges(packaged, identity) = Edges(source, identity)
              THEN "accepted" ELSE "refused"
  /\ UNCHANGED <<locks, reachable, pending>>

Compare ==
  /\ stage = "walk" /\ pending = {}
  /\ stage' = IF /\ Packages(packaged) = reachable
                 /\ \A identity \in reachable :
                      /\ packaged.packages[identity].metadata =
                           source.packages[identity].metadata
                      /\ Edges(packaged, identity) = Edges(source, identity)
              THEN "accepted" ELSE "refused"
  /\ UNCHANGED <<locks, reachable, pending>>

LockNext == Parse \/ Visit \/ Compare

LockSpec == LockInit /\ [][LockNext]_lockVars

-----------------------------------------------------------------------------
\* The packages the producing package needs: the least set with it in it that
\* has the dependencies of its members.
Closed(set) == \A identity \in set : Edges(source, identity) \subseteq set

Needed(set) ==
  /\ Root \in set
  /\ Closed(set)
  /\ \A other \in SUBSET Packages(source) :
       Root \in other /\ Closed(other) => set \subseteq other

\* The crate's lock is the committed one, cut down to what is needed, however its
\* references are shortened.
Exact ==
  /\ packaged.metadata = source.metadata
  /\ Packages(packaged) \subseteq Packages(source)
  /\ Needed(Packages(packaged))
  /\ \A identity \in Packages(packaged) :
       /\ packaged.packages[identity].metadata = source.packages[identity].metadata
       /\ Edges(packaged, identity) = Edges(source, identity)

\* The walk accepts nothing but that.
LockSound == stage = "accepted" => Exact

\* Nothing else is refused: shortened unambiguous references are allowed
\* (registry-publish.md), in a lock that prunes away what made them ambiguous too.
\* Without a committed lock there is nothing that a crate's could be a part of.
LockComplete ==
  stage = "refused" => \/ source = Absent
                       \/ ~(Exact /\ Resolves(source) /\ Resolves(packaged))
=============================================================================
