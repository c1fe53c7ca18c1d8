------------------------------ MODULE MCReleaseRun ------------------------------
\* Two preparations of two commits; a package for JSR and a wheel and an sdist
\* for PyPI.
EXTENDS ReleaseRun, TLC

MCCommitOf == <<"commit1", "commit2">>
MCUnits == <<"source", "sdist", "wheel">>
MCRegistryOf == [unit \in {"source", "sdist", "wheel"} |->
  IF unit = "source" THEN "jsr" ELSE "pypi"]
Symmetry == Permutations(Runner) \cup Permutations(Importer)
=============================================================================
