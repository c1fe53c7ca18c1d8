-------------------------- MODULE CheckSequenceProofs --------------------------
(***************************************************************************)
(* Proofs about the checks of a run, in the Rust program and in the        *)
(* standalone one, for any manifest, selection and set of native checks:   *)
(* each Nix check goes by a renewed inventory, a success has done all that *)
(* is owed, and what the Rust program has validated goes wrong by a        *)
(* toolchain only.                                                         *)
(***************************************************************************)
EXTENDS StandaloneSequence, SequenceTheorems, WellFoundedInduction, TLAPS

\* The inventory is out of date only while custom commands run, and then it is
\* not there.
InventoryInv ==
  /\ flake \in since
  /\ inventory # None => inventory \in since
  /\ phase = "run" /\ Current.kind = "commands" => inventory = None

\* Only nix_check evaluates and judges.
PlaceInv == phase \in {"evaluate", "judge"} => Current.kind = "nix"

IInv == InventoryInv /\ PlaceInv /\ InventoryRenewed

LEMMA InitImpliesIInv == Init => IInv
  BY DEF Init, IInv, InventoryInv, PlaceInv, InventoryRenewed

\* What a step that leaves the inventory alone must not do.
LEMMA InventoryKept ==
  ASSUME IInv, UNCHANGED <<flake, inventory, since>>,
         phase' \notin {"evaluate", "judge"},
         phase' = "run" /\ Current'.kind = "commands" => inventory = None
  PROVE  IInv'
  BY DEF IInv, InventoryInv, PlaceInv, InventoryRenewed

LEMMA RunKeepsIInv ==
  ASSUME IInv, Run
  PROVE  IInv'
<1>1. flake' \in since'
  BY DEF Run
<1>2. inventory' # None => inventory' \in since'
  <2>1. CASE Current.kind = "commands"
    BY <2>1 DEF Run, IInv, InventoryInv
  <2>2. CASE Current.kind # "commands"
    BY <2>2 DEF Run, IInv, InventoryInv
  <2> QED BY <2>1, <2>2
<1>3. phase' = "run" /\ Current'.kind = "commands" => inventory' = None
  BY DEF Run, IInv, InventoryInv, Current, given
<1>4. phase' \notin {"evaluate", "judge"}
  BY DEF Run
<1> QED BY <1>1, <1>2, <1>3, <1>4 DEF IInv, InventoryInv, PlaceInv, InventoryRenewed

LEMMA NextKeepsIInv ==
  ASSUME IInv, [Next]_vars
  PROVE  IInv'
<1>1. CASE Select
  BY <1>1, InventoryKept DEF Select, history
<1>2. CASE StartCargo
  BY <1>2, InventoryKept DEF StartCargo, Begin, BeginNot, Current, given, history
<1>3. CASE StartJavaScript
  BY <1>3, InventoryKept DEF StartJavaScript, Begin, BeginNot, Current, given, history
<1>4. CASE StartCommands
  BY <1>4 DEF StartCommands, Begin, BeginNot, Current, given, history,
              IInv, InventoryInv, PlaceInv, InventoryRenewed
<1>5. CASE StartNix
  BY <1>5 DEF StartNix, Current, given, history,
              IInv, InventoryInv, PlaceInv, InventoryRenewed
<1>6. CASE Evaluate
  BY <1>6 DEF Evaluate, Current, given, IInv, InventoryInv, PlaceInv, InventoryRenewed
<1>7. CASE Refuse
  BY <1>7, InventoryKept DEF Refuse, history
<1>8. CASE Accept
  <2>1. Current.kind = "nix"
    BY <1>8 DEF Accept, IInv, PlaceInv
  <2>2. phase' = "run" => Current' = Current
    BY <1>8 DEF Accept, Current, given
  <2> QED BY <1>8, <2>1, <2>2, InventoryKept DEF Accept
<1>9. CASE Run
  BY <1>9, RunKeepsIInv
<1>10. CASE RunNot
  BY <1>10, InventoryKept DEF RunNot, history
<1>11. CASE Fail
  BY <1>11, InventoryKept DEF Fail, history
<1>12. CASE Finish
  BY <1>12, InventoryKept DEF Finish, history
<1>13. CASE UNCHANGED vars
  BY <1>13 DEF vars, given, Current, IInv, InventoryInv, PlaceInv, InventoryRenewed
<1> QED
  BY <1>1, <1>2, <1>3, <1>4, <1>5, <1>6, <1>7, <1>8, <1>9, <1>10, <1>11, <1>12,
     <1>13 DEF Next

\* A Nix check never goes by an inventory from before the last custom command,
\* whatever the commands of the repository do to the flake.
THEOREM InventoryIsRenewed == Spec => []InventoryRenewed
<1>1. Init => IInv
  BY InitImpliesIInv
<1>2. IInv /\ [Next]_vars => IInv'
  BY NextKeepsIInv
<1>3. IInv => InventoryRenewed
  BY DEF IInv
<1> QED BY <1>1, <1>2, <1>3, PTL DEF Spec

LEMMA StandaloneKeepsIInv ==
  ASSUME IInv, StandaloneNext
  PROVE  IInv'
<1>1. CASE StandaloneSelect
  BY <1>1, InventoryKept DEF StandaloneSelect, history
<1>2. CASE StandaloneCargo
  BY <1>2, InventoryKept DEF StandaloneCargo, Begin, Current, given, history
<1>3. CASE StandaloneJavaScript
  BY <1>3, InventoryKept DEF StandaloneJavaScript, Begin, BeginNot, Current, given, history
<1>4. CASE StandaloneNix
  BY <1>4 DEF StandaloneNix, Current, given, history,
              IInv, InventoryInv, PlaceInv, InventoryRenewed
<1>5. CASE RefuseMode \/ RefuseKind
  BY <1>5, InventoryKept DEF RefuseMode, RefuseKind, history
<1>6. CASE StartCommands \/ Evaluate \/ Refuse \/ Accept \/ Run \/ RunNot \/ Fail \/ Finish
  BY <1>6, NextKeepsIInv DEF Next
<1> QED
  BY <1>1, <1>2, <1>3, <1>4, <1>5, <1>6 DEF StandaloneNext, StandaloneAccept

\* The same of either program.
THEOREM BothRenewInventory == BothSpec => []InventoryRenewed
<1>1. BothInit => IInv
  BY InitImpliesIInv DEF BothInit
<1>2. IInv /\ [BothNext]_bothVars => IInv'
  BY NextKeepsIInv, StandaloneKeepsIInv DEF BothNext, bothVars
<1>3. IInv => InventoryRenewed
  BY DEF IInv
<1> QED BY <1>1, <1>2, <1>3, PTL DEF BothSpec

-----------------------------------------------------------------------------
(* What the operators on sequences return.  Facts about every number up to *)
(* a bound are proved of the least one that would have it otherwise.       *)

LEMMA LeastNumber ==
  ASSUME NEW S \in SUBSET Nat, S # {}
  PROVE  \E n \in S : \A m \in S : n <= m
<1>1. PICK n \in S : \A m \in S : ~(<<m, n>> \in OpToRel(<,Nat))
  BY WFMin, NatLessThanWellFounded, Zenon
<1>2. \A m \in S : ~(m < n)
  BY <1>1 DEF OpToRel
<1> QED
  BY <1>2

\* Induction from low to high, on a set in the place of a predicate.
LEMMA UpTo ==
  ASSUME NEW low \in Nat, NEW high \in Nat, NEW Good,
         low <= high => low \in Good,
         \A n \in low..(high - 1) : n \in Good => n + 1 \in Good
  PROVE  low..high \subseteq Good
<1> DEFINE Bad == (low..high) \ Good
<1> SUFFICES ASSUME Bad # {} PROVE FALSE
  OBVIOUS
<1>1. PICK n \in Bad : \A m \in Bad : n <= m
  <2>1. Bad \in SUBSET Nat
    OBVIOUS
  <2> HIDE DEF Bad
  <2> QED BY <2>1, LeastNumber
<1>2. n \in low..high /\ n \notin Good
  BY <1>1
<1>3. n # low
  BY <1>2
<1>4. n - 1 \in low..(high - 1) /\ n - 1 \notin Bad
  BY <1>1, <1>2, <1>3
<1>5. n - 1 \in Good
  BY <1>4
<1> QED BY <1>2, <1>4, <1>5

LEMMA SeqOfItsElements ==
  ASSUME NEW S, NEW s \in Seq(S)
  PROVE  s \in Seq(ToSet(s)) /\ ToSet(s) \subseteq S
<1>1. /\ Len(s) \in Nat /\ DOMAIN s = 1..Len(s)
      /\ s \in [1..Len(s) -> S]
  BY LenProperties
<1>2. s \in [1..Len(s) -> ToSet(s)]
  BY <1>1 DEF ToSet
<1>3. s \in Seq(ToSet(s))
  BY <1>1, <1>2, SeqDef
<1> QED
  BY <1>1, <1>3 DEF ToSet

LEMMA AppendElements ==
  ASSUME NEW S, NEW s \in Seq(S), NEW e \in S
  PROVE  ToSet(Append(s, e)) = ToSet(s) \cup {e}
<1>1. /\ Len(s) \in Nat /\ DOMAIN s = 1..Len(s)
  BY LenProperties
<1>2. /\ Append(s, e) \in Seq(S) /\ Len(Append(s, e)) = Len(s) + 1
      /\ \A i \in 1..Len(s) : Append(s, e)[i] = s[i]
      /\ Append(s, e)[Len(s) + 1] = e
  BY AppendProperties
<1>3. DOMAIN Append(s, e) = 1..(Len(s) + 1)
  BY <1>2, LenProperties
<1> DEFINE t == Append(s, e)
<1> HIDE DEF t
<1>4. DOMAIN t = 1..(Len(s) + 1) /\ t[Len(s) + 1] = e /\ \A i \in 1..Len(s) : t[i] = s[i]
  BY <1>2, <1>3 DEF t
<1>5. ToSet(t) = ToSet(s) \cup {e}
  BY <1>1, <1>4 DEF ToSet
<1> QED BY <1>5 DEF t

LEMMA ConcatElements ==
  ASSUME NEW S, NEW s \in Seq(S), NEW t \in Seq(S)
  PROVE  ToSet(s \o t) = ToSet(s) \cup ToSet(t)
<1>1. /\ Len(s) \in Nat /\ DOMAIN s = 1..Len(s)
      /\ Len(t) \in Nat /\ DOMAIN t = 1..Len(t)
  BY LenProperties
<1>2. /\ s \o t \in Seq(S) /\ Len(s \o t) = Len(s) + Len(t)
      /\ \A i \in 1..(Len(s) + Len(t)) :
           (s \o t)[i] = IF i <= Len(s) THEN s[i] ELSE t[i - Len(s)]
  BY ConcatProperties
<1>3. DOMAIN (s \o t) = 1..(Len(s) + Len(t))
  BY <1>2, LenProperties
<1> DEFINE u == s \o t
<1> HIDE DEF u
<1>4. /\ DOMAIN u = 1..(Len(s) + Len(t))
      /\ \A i \in 1..(Len(s) + Len(t)) :
           u[i] = IF i <= Len(s) THEN s[i] ELSE t[i - Len(s)]
  BY <1>2, <1>3 DEF u
<1>5. ToSet(u) \subseteq ToSet(s) \cup ToSet(t)
  BY <1>1, <1>4 DEF ToSet
<1>6. ToSet(s) \subseteq ToSet(u)
  BY <1>1, <1>4 DEF ToSet
<1>7. ASSUME NEW i \in 1..Len(t)
      PROVE  t[i] \in ToSet(u)
  <2>1. i + Len(s) \in DOMAIN u /\ u[i + Len(s)] = t[i]
    BY <1>1, <1>4
  <2> QED BY <2>1 DEF ToSet
<1>8. ToSet(t) \subseteq ToSet(u)
  BY <1>1, <1>7 DEF ToSet
<1> QED BY <1>5, <1>6, <1>8 DEF u

LEMMA TailElements ==
  ASSUME NEW S, NEW s \in Seq(S), s # <<>>
  PROVE  /\ Head(s) \in ToSet(s) /\ Head(s) = s[1]
         /\ Tail(s) \in Seq(S)
         /\ ToSet(s) = ToSet(Tail(s)) \cup {Head(s)}
<1>1. Len(s) \in Nat \ {0} /\ DOMAIN s = 1..Len(s)
  BY LenProperties, EmptySeq
<1>2. /\ Tail(s) \in Seq(S) /\ Len(Tail(s)) = Len(s) - 1
      /\ \A i \in 1..Len(Tail(s)) : Tail(s)[i] = s[i + 1]
  BY HeadTailProperties
<1>3. DOMAIN Tail(s) = 1..(Len(s) - 1)
  BY <1>2, LenProperties
<1>4. Head(s) = s[1]
  BY <1>1
<1> DEFINE t == Tail(s)
<1> HIDE DEF t
<1>5. DOMAIN t = 1..(Len(s) - 1) /\ \A i \in 1..(Len(s) - 1) : t[i] = s[i + 1]
  BY <1>2, <1>3 DEF t
<1>6. ToSet(t) \subseteq ToSet(s) /\ s[1] \in ToSet(s)
  BY <1>1, <1>5 DEF ToSet
<1>7. ASSUME NEW i \in 1..Len(s), i # 1
      PROVE  s[i] \in ToSet(t)
  <2>1. i - 1 \in DOMAIN t /\ t[i - 1] = s[i]
    BY <1>1, <1>5, <1>7
  <2> QED BY <2>1 DEF ToSet
<1>8. ToSet(s) \subseteq ToSet(t) \cup {s[1]}
  BY <1>1, <1>7 DEF ToSet
<1> QED BY <1>2, <1>4, <1>6, <1>8 DEF t

LEMMA Flattened ==
  ASSUME NEW S, NEW seqs \in Seq(Seq(S)), seqs # <<>>
  PROVE  /\ FlattenSeq(seqs) \in Seq(S)
         /\ ToSet(FlattenSeq(seqs)) = UNION {ToSet(seqs[i]) : i \in DOMAIN seqs}
<1> DEFINE N == Len(seqs)
           Flat(f, n) == f = [i \in 1..n |-> IF i = 1 THEN seqs[i] ELSE f[i - 1] \o seqs[i]]
           flat == CHOOSE f : Flat(f, N)
<1>1. N \in Nat /\ 1 <= N /\ DOMAIN seqs = 1..N /\ \A i \in 1..N : seqs[i] \in Seq(S)
  BY LenProperties, EmptySeq, ElementOfSeq
<1>2. FlattenSeq(seqs) = flat[N]
  BY <1>1 DEF FlattenSeq
<1> HIDE DEF N
<1>3. \E f : Flat(f, 1)
  <2>1. Flat([i \in 1..1 |-> seqs[i]], 1)
    OBVIOUS
  <2> QED BY <2>1
<1>4. ASSUME NEW n \in 1..(N - 1), \E f : Flat(f, n)
      PROVE  \E f : Flat(f, n + 1)
  <2>1. PICK g : Flat(g, n)
    BY <1>4
  <2> DEFINE f == [i \in 1..(n + 1) |-> IF i = n + 1 THEN g[n] \o seqs[n + 1] ELSE g[i]]
  <2>2. \A i \in 1..(n + 1) : f[i] = IF i = n + 1 THEN g[n] \o seqs[n + 1] ELSE g[i]
    OBVIOUS
  <2>3. \A i \in 1..n : g[i] = IF i = 1 THEN seqs[i] ELSE g[i - 1] \o seqs[i]
    BY <2>1
  <2>4. f = [i \in 1..(n + 1) |-> f[i]]
    OBVIOUS
  <2> HIDE DEF f
  <2>5. \A i \in 1..(n + 1) : f[i] = IF i = 1 THEN seqs[i] ELSE f[i - 1] \o seqs[i]
    <3> SUFFICES ASSUME NEW i \in 1..(n + 1)
                 PROVE  f[i] = IF i = 1 THEN seqs[i] ELSE f[i - 1] \o seqs[i]
      OBVIOUS
    <3>1. CASE i = n + 1
      BY <1>1, <2>2, <3>1
    <3>2. CASE i # n + 1
      BY <1>1, <2>2, <2>3, <3>2
    <3> QED BY <3>1, <3>2
  <2>6. Flat(f, n + 1)
    BY <2>4, <2>5
  <2> QED BY <2>6
<1>5. \E f : Flat(f, N)
  <2> HIDE DEF Flat
  <2> DEFINE Good == {n \in 1..N : \E f : Flat(f, n)}
  <2>1. 1 \in Good
    BY <1>1, <1>3
  <2>2. ASSUME NEW n \in 1..(N - 1), n \in Good PROVE n + 1 \in Good
    <3>1. n + 1 \in 1..N
      BY <1>1
    <3> QED BY <1>4, <2>2, <3>1
  <2> HIDE DEF Good
  <2>3. N \in Good
    <3>1. 1..N \subseteq Good
      BY <1>1, <2>1, <2>2, UpTo
    <3> QED BY <1>1, <3>1
  <2> QED BY <2>3 DEF Good
<1>6. Flat(flat, N)
  BY <1>5
<1> HIDE DEF flat
<1>7. \A i \in 1..N : flat[i] = IF i = 1 THEN seqs[i] ELSE flat[i - 1] \o seqs[i]
  BY <1>6
<1> DEFINE Holds(n) == /\ flat[n] \in Seq(S)
                       /\ ToSet(flat[n]) = UNION {ToSet(seqs[i]) : i \in 1..n}
<1>8. Holds(1)
  BY <1>1, <1>7
<1>9. ASSUME NEW n \in 1..(N - 1), Holds(n)
      PROVE  Holds(n + 1)
  <2>1. flat[n + 1] = flat[n] \o seqs[n + 1] /\ seqs[n + 1] \in Seq(S)
    <3>1. n + 1 \in 1..N /\ n + 1 # 1 /\ (n + 1) - 1 = n
      BY <1>1
    <3> QED BY <1>1, <1>7, <3>1
  <2>2. /\ flat[n + 1] \in Seq(S)
        /\ ToSet(flat[n + 1]) = ToSet(flat[n]) \cup ToSet(seqs[n + 1])
    BY <1>9, <2>1, ConcatProperties, ConcatElements
  <2>3. 1..(n + 1) = 1..n \cup {n + 1}
    OBVIOUS
  <2> QED BY <1>9, <2>2, <2>3
<1>10. Holds(N)
  <2> HIDE DEF Holds
  <2> DEFINE Good == {n \in 1..N : Holds(n)}
  <2>1. 1 \in Good
    BY <1>1, <1>8
  <2>2. ASSUME NEW n \in 1..(N - 1), n \in Good PROVE n + 1 \in Good
    <3>1. n + 1 \in 1..N
      BY <1>1
    <3> QED BY <1>9, <2>2, <3>1
  <2> HIDE DEF Good
  <2>3. N \in Good
    <3>1. 1..N \subseteq Good
      BY <1>1, <2>1, <2>2, UpTo
    <3> QED BY <1>1, <3>1
  <2> QED BY <2>3 DEF Good
<1> QED BY <1>1, <1>2, <1>10

\* Every name is selected once, and the one that is mentioned first comes first.
LEMMA DistinctNames ==
  ASSUME NEW S, NEW names \in Seq(S)
  PROVE  /\ Distinct(names) \in Seq(S)
         /\ ToSet(Distinct(names)) = ToSet(names)
         /\ \A k, l \in DOMAIN Distinct(names), i \in DOMAIN names :
              k < l /\ names[i] = Distinct(names)[l] =>
                \E j \in 1..(i - 1) : names[j] = Distinct(names)[k]
<1> DEFINE N == Len(names)
           first == {i \in DOMAIN names : \A j \in 1..(i - 1) : names[j] # names[i]}
           Add(p, i) == IF i \in first THEN Append(p, names[i]) ELSE p
           Place(f, n) == f = [i \in 0..n |-> IF i = 0 THEN <<>>
                                              ELSE IF i \in first THEN Append(f[i - 1], names[i])
                                                   ELSE f[i - 1]]
           place == CHOOSE f : Place(f, N)
<1>1. N \in Nat /\ DOMAIN names = 1..N /\ \A i \in 1..N : names[i] \in S
  BY LenProperties, ElementOfSeq
<1>2. Distinct(names) = place[N]
  BY DEF Distinct
<1>3. \A i \in 1..N : i \in first <=> \A j \in 1..(i - 1) : names[j] # names[i]
  BY <1>1
<1> HIDE DEF N, first
<1>4. \E f : Place(f, 0)
  <2>1. Place([i \in 0..0 |-> <<>>], 0)
    OBVIOUS
  <2> QED BY <2>1
<1>5. ASSUME NEW n \in 0..(N - 1), \E f : Place(f, n)
      PROVE  \E f : Place(f, n + 1)
  <2>1. PICK g : Place(g, n)
    BY <1>5
  <2> DEFINE f == [i \in 0..(n + 1) |-> IF i = n + 1 THEN Add(g[n], n + 1) ELSE g[i]]
  <2>2. \A i \in 0..(n + 1) : f[i] = IF i = n + 1 THEN Add(g[n], n + 1) ELSE g[i]
    OBVIOUS
  <2>3. \A i \in 0..n : g[i] = IF i = 0 THEN <<>> ELSE Add(g[i - 1], i)
    BY <2>1
  <2>4. f = [i \in 0..(n + 1) |-> f[i]]
    OBVIOUS
  <2> HIDE DEF f, Add
  <2>5. \A i \in 0..(n + 1) : f[i] = IF i = 0 THEN <<>> ELSE Add(f[i - 1], i)
    <3> SUFFICES ASSUME NEW i \in 0..(n + 1)
                 PROVE  f[i] = IF i = 0 THEN <<>> ELSE Add(f[i - 1], i)
      OBVIOUS
    <3>1. CASE i = n + 1
      BY <1>1, <2>2, <3>1
    <3>2. CASE i # n + 1
      BY <1>1, <2>2, <2>3, <3>2
    <3> QED BY <3>1, <3>2
  <2>6. Place(f, n + 1)
    BY <2>4, <2>5 DEF Add
  <2> QED BY <2>6
<1>6. \E f : Place(f, N)
  <2> HIDE DEF Place
  <2> DEFINE Good == {n \in 0..N : \E f : Place(f, n)}
  <2>1. 0 \in Good
    BY <1>1, <1>4
  <2>2. ASSUME NEW n \in 0..(N - 1), n \in Good PROVE n + 1 \in Good
    <3>1. n + 1 \in 0..N
      BY <1>1
    <3> QED BY <1>5, <2>2, <3>1
  <2> HIDE DEF Good
  <2>3. N \in Good
    <3>1. 0..N \subseteq Good
      BY <1>1, <2>1, <2>2, UpTo
    <3> QED BY <1>1, <3>1
  <2> QED BY <2>3 DEF Good
<1>7. Place(place, N)
  BY <1>6
<1> HIDE DEF place
<1>8. \A i \in 0..N : place[i] = IF i = 0 THEN <<>> ELSE Add(place[i - 1], i)
  BY <1>7
<1> DEFINE Holds(n) ==
      /\ place[n] \in Seq(S)
      /\ ToSet(place[n]) = {names[j] : j \in 1..n}
      /\ \A k, l \in DOMAIN place[n], i \in 1..N :
           k < l /\ names[i] = place[n][l] => \E j \in 1..(i - 1) : names[j] = place[n][k]
<1>9. Holds(0)
  <2>1. place[0] = <<>>
    BY <1>1, <1>8
  <2> QED BY <2>1 DEF ToSet
<1>10. ASSUME NEW n \in 0..(N - 1), Holds(n)
       PROVE  Holds(n + 1)
  <2>1. n + 1 \in 1..N /\ n \in Nat /\ place[n + 1] = Add(place[n], n + 1)
    <3>1. n + 1 \in 0..N /\ n + 1 # 0 /\ (n + 1) - 1 = n
      BY <1>1
    <3> QED BY <1>1, <1>8, <3>1
  <2>2. {names[j] : j \in 1..(n + 1)} = {names[j] : j \in 1..n} \cup {names[n + 1]}
    <3>1. 1..(n + 1) = 1..n \cup {n + 1}
      BY <2>1
    <3> QED BY <3>1
  <2>3. CASE n + 1 \notin first
    <3>1. place[n + 1] = place[n]
      BY <2>1, <2>3
    <3>2. PICK j \in 1..n : names[j] = names[n + 1]
      BY <1>3, <2>1, <2>3
    <3>3. {names[i] : i \in 1..(n + 1)} = {names[i] : i \in 1..n}
      BY <2>2, <3>2
    <3> QED BY <1>10, <3>1, <3>3
  <2>4. CASE n + 1 \in first
    <3> DEFINE p == place[n]
               q == place[n + 1]
    <3>1. q = Append(p, names[n + 1]) /\ names[n + 1] \in S
      BY <1>1, <2>1, <2>4
    <3>2. p \in Seq(S) /\ ToSet(p) = {names[j] : j \in 1..n}
      BY <1>10
    <3>3. \A k, l \in DOMAIN p, i \in 1..N :
            k < l /\ names[i] = p[l] => \E j \in 1..(i - 1) : names[j] = p[k]
      BY <1>10
    <3> HIDE DEF p, q, Add
    <3>4. q \in Seq(S) /\ ToSet(q) = ToSet(p) \cup {names[n + 1]}
      BY <3>1, <3>2, AppendProperties, AppendElements
    <3>5. /\ Len(p) \in Nat /\ DOMAIN p = 1..Len(p) /\ DOMAIN q = 1..(Len(p) + 1)
          /\ q[Len(p) + 1] = names[n + 1] /\ \A k \in 1..Len(p) : q[k] = p[k]
      BY <3>1, <3>2, AppendProperties, LenProperties
    <3>6. ASSUME NEW k \in DOMAIN q, NEW l \in DOMAIN q, NEW i \in 1..N,
                 k < l, names[i] = q[l]
          PROVE  \E j \in 1..(i - 1) : names[j] = q[k]
      <4>1. k \in DOMAIN p /\ q[k] = p[k] /\ p[k] \in ToSet(p)
        BY <3>5, <3>6 DEF ToSet
      <4>2. CASE l \in DOMAIN p
        BY <3>3, <3>5, <3>6, <4>1, <4>2
      <4>3. CASE l \notin DOMAIN p
        <5>1. names[i] = names[n + 1]
          BY <3>5, <3>6, <4>3
        <5>2. i >= n + 1
          BY <1>3, <2>1, <2>4, <5>1
        <5>3. PICK j \in 1..n : names[j] = p[k]
          BY <3>2, <4>1
        <5>4. j \in 1..(i - 1)
          BY <2>1, <5>2, <5>3
        <5> QED BY <4>1, <5>3, <5>4
      <4> QED BY <4>2, <4>3
    <3> QED BY <2>2, <3>2, <3>4, <3>6 DEF p, q
  <2> QED BY <2>3, <2>4
<1>11. Holds(N)
  <2> HIDE DEF Holds
  <2> DEFINE Good == {n \in 0..N : Holds(n)}
  <2>1. 0 \in Good
    BY <1>1, <1>9
  <2>2. ASSUME NEW n \in 0..(N - 1), n \in Good PROVE n + 1 \in Good
    <3>1. n + 1 \in 0..N
      BY <1>1
    <3> QED BY <1>10, <2>2, <3>1
  <2> HIDE DEF Good
  <2>3. N \in Good
    <3>1. 0..N \subseteq Good
      BY <1>1, <2>1, <2>2, UpTo
    <3> QED BY <1>1, <3>1
  <2> QED BY <2>3 DEF Good
<1>12. ToSet(names) = {names[j] : j \in 1..N}
  BY <1>1 DEF ToSet
<1> QED BY <1>1, <1>2, <1>11, <1>12

-----------------------------------------------------------------------------
(* What the builders of commands return.                                   *)

\* What the commands of a check have done when all of them succeed.
Work(check, commands) ==
  /\ \A does \in Owed(check) : \E command \in commands :
       Examines(command) /\ command.does = does
  /\ \/ \E command \in commands : Examines(command)
     \/ check.kind = "nix" /\ check.mode = "list"

\* Commands to begin a check with: they do the work of it, unless one of them cannot
\* be run, and ask for the version of Rust once.
Ready(check, commands) ==
  /\ commands \in Seq(ToSet(commands)) /\ commands # <<>>
  /\ \/ \E command \in ToSet(commands) : ~Runnable(command)
     \/ Work(check, ToSet(commands))
  /\ \A i, j \in DOMAIN commands : Rustc(commands[i]) /\ Rustc(commands[j]) => i = j

\* What the Rust program begins, it can run, but for a toolchain it cannot name.
Begun(check, commands) ==
  \A command \in ToSet(commands) :
    \/ Runnable(command)
    \/ check.kind = "cargo" /\ check.toolchain = Nul

\* Work that is in part preparation.
LEMMA ReadyWhenPrepared ==
  ASSUME NEW check, NEW P, NEW prefix \in Seq(P), NEW Q, NEW commands \in Seq(Q),
         commands # <<>>,
         \A i, j \in DOMAIN prefix : Rustc(prefix[i]) /\ Rustc(prefix[j]) => i = j,
         \A command \in ToSet(commands) : Examines(command),
         \/ \E command \in ToSet(commands) : ~Runnable(command)
         \/ \A does \in Owed(check) : \E command \in ToSet(commands) : command.does = does
  PROVE  Ready(check, prefix \o commands)
<1> DEFINE all == prefix \o commands
           S == P \cup Q
<1>0. prefix \in Seq(S) /\ commands \in Seq(S)
  BY SeqMonotonic
<1> HIDE DEF S
<1>1. all \in Seq(S) /\ ToSet(all) = ToSet(prefix) \cup ToSet(commands)
  BY <1>0, ConcatProperties, ConcatElements
<1>2. /\ Len(prefix) \in Nat /\ DOMAIN prefix = 1..Len(prefix)
      /\ Len(commands) \in Nat /\ Len(commands) # 0 /\ DOMAIN commands = 1..Len(commands)
  BY LenProperties, EmptySeq
<1>3. /\ DOMAIN all = 1..(Len(prefix) + Len(commands))
      /\ Len(all) = Len(prefix) + Len(commands)
      /\ \A i \in 1..(Len(prefix) + Len(commands)) :
           all[i] = IF i <= Len(prefix) THEN prefix[i] ELSE commands[i - Len(prefix)]
  BY <1>0, <1>1, ConcatProperties, LenProperties
<1> HIDE DEF all
<1>4. all # <<>> /\ all \in Seq(ToSet(all))
  BY <1>1, <1>2, <1>3, SeqOfItsElements
<1>5. ASSUME NEW i \in DOMAIN all, Rustc(all[i])
      PROVE  i \in DOMAIN prefix /\ all[i] = prefix[i]
  <2>1. i <= Len(prefix)
    <3> SUFFICES ASSUME ~(i <= Len(prefix)) PROVE FALSE
      OBVIOUS
    <3>1. i - Len(prefix) \in DOMAIN commands /\ all[i] = commands[i - Len(prefix)]
      BY <1>2, <1>3
    <3>2. all[i] \in ToSet(commands)
      BY <3>1 DEF ToSet
    <3> QED BY <1>5, <3>2 DEF Examines, Rustc
  <2> QED BY <1>2, <1>3, <2>1
<1>6. \A i, j \in DOMAIN all : Rustc(all[i]) /\ Rustc(all[j]) => i = j
  BY <1>5
<1>7. commands[1] \in ToSet(commands)
  BY <1>2 DEF ToSet
<1>8. Work(check, ToSet(all)) \/ \E command \in ToSet(all) : ~Runnable(command)
  BY <1>1, <1>7 DEF Work
<1>9. Ready(check, all)
  BY <1>4, <1>6, <1>8 DEF Ready
<1> QED BY <1>9 DEF all

LEMMA CommandHas ==
  ASSUME NEW tool, NEW does
  PROVE  /\ Command(tool, does).tool = tool /\ Command(tool, does).does = does
         /\ Command(tool, does).prepares = FALSE
         /\ Preparation(tool, does).tool = tool /\ Preparation(tool, does).does = does
         /\ Preparation(tool, does).prepares = TRUE
  BY DEF Command, Preparation

LEMMA RefusedIsNot == ~Runnable(Refused) /\ Examines(Refused)
  BY CommandHas DEF Runnable, Refused, Examines

LEMMA NoWord == Nul \notin Word /\ None \notin Word /\ Error \notin Word
  BY ManifestAssumption

\* What an action owes.
OwedBy(check, action) ==
  IF action = "test" /\ check.runner = "nextest" THEN {"nextest", "doctests"} ELSE {action}

LEMMA ActionOwed ==
  ASSUME NEW check, NEW action, CargoAction(check, action) # Error
  PROVE  /\ CargoAction(check, action) \in Seq({Command("cargo", does) : does \in Word})
         /\ \A does \in OwedBy(check, action) :
              \E command \in ToSet(CargoAction(check, action)) : command.does = does
<1> DEFINE S == {Command("cargo", does) : does \in Word}
           commands == CargoAction(check, action)
<1>1. ASSUME NEW d \in Word, commands = <<Command("cargo", d)>>, OwedBy(check, action) = {d}
      PROVE  /\ commands \in Seq(S)
             /\ \A does \in OwedBy(check, action) :
                  \E command \in ToSet(commands) : command.does = does
  <2> DEFINE e == Command("cargo", d)
  <2>1. e \in S /\ e.does = d /\ commands = <<e>>
    <3>1. e.does = d
      BY DEF Command
    <3>2. e \in S
      OBVIOUS
    <3> QED BY <1>1, <3>1, <3>2
  <2> HIDE DEF S, e, commands
  <2>2. commands \in Seq(S) /\ e \in ToSet(commands)
    BY <2>1 DEF ToSet
  <2> QED BY <1>1, <2>1, <2>2
<1>2. ASSUME commands = Nextest, OwedBy(check, action) = {"nextest", "doctests"}
      PROVE  /\ commands \in Seq(S)
             /\ \A does \in OwedBy(check, action) :
                  \E command \in ToSet(commands) : command.does = does
  <2> DEFINE e == Command("cargo", "nextest")
             f == Command("cargo", "doctests")
  <2>1. e \in S /\ f \in S
    BY Zenon DEF Word
  <2>2. commands = <<e, f>>
    BY <1>2, Zenon DEF Nextest
  <2>3. e.does = "nextest" /\ f.does = "doctests"
    BY DEF Command
  <2> HIDE DEF S, e, f, commands
  <2>4. commands \in Seq(S) /\ e \in ToSet(commands) /\ f \in ToSet(commands)
    BY <2>1, <2>2 DEF ToSet
  <2> QED BY <1>2, <2>3, <2>4
<1>3. CASE action \in {"fmt", "clippy", "check", "build"}
  <2>1. commands = <<Command("cargo", action)>>
    BY <1>3, Zenon DEF CargoAction
  <2>2. action \in Word
    BY <1>3, Zenon DEF Word
  <2>3. OwedBy(check, action) = {action}
    BY <1>3 DEF OwedBy
  <2> QED BY <1>1, <2>1, <2>2, <2>3
<1>4. CASE action = "test" /\ check.runner = "nextest"
  <2>1. check.runner \notin {None, "cargo"}
    BY <1>4, NoWord, Zenon DEF Word
  <2>2. commands = Nextest
    BY <1>4, <2>1 DEF CargoAction
  <2>3. OwedBy(check, action) = {"nextest", "doctests"}
    BY <1>4 DEF OwedBy
  <2> QED BY <1>2, <2>2, <2>3
<1>5. CASE action = "test" /\ check.runner # "nextest"
  <2>1. commands = <<Command("cargo", "test")>>
    BY <1>5 DEF CargoAction
  <2>2. "test" \in Word
    BY Zenon DEF Word
  <2>3. OwedBy(check, action) = {"test"}
    BY <1>5 DEF OwedBy
  <2> QED BY <1>1, <2>1, <2>2, <2>3
<1> QED
  BY <1>3, <1>4, <1>5 DEF CargoAction

\* Without a list of its own a Cargo check has three actions.
ActionsOf(check) == OrElse(check.actions, <<"fmt", "test", "clippy">>)

LEMMA ActionsAreASequence ==
  ASSUME NEW check \in Check
  PROVE  /\ ActionsOf(check) \in Seq(ToSet(ActionsOf(check)))
         /\ DOMAIN ActionsOf(check) = 1..Len(ActionsOf(check))
         /\ Len(ActionsOf(check)) \in Nat
<1>1. CASE check.actions = None
  <2>1. ActionsOf(check) = <<"fmt", "test", "clippy">>
    BY <1>1 DEF ActionsOf, OrElse
  <2>2. ActionsOf(check) \in Seq({"fmt", "test", "clippy"})
    BY <2>1
  <2>3. ActionsOf(check) \in Seq(ToSet(ActionsOf(check)))
    BY <2>2, SeqOfItsElements
  <2> QED BY <2>3, LenProperties
<1>2. CASE check.actions # None
  <2>1. ActionsOf(check) = check.actions
    BY <1>2 DEF ActionsOf, OrElse
  <2>2. ActionsOf(check) \in Seq(ToSet(ActionsOf(check)))
    BY <1>2, <2>1, ManifestAssumption
  <2> QED BY <2>2, LenProperties
<1> QED BY <1>1, <1>2

LEMMA CargoOwes ==
  ASSUME NEW check, check.kind = "cargo", NEW does \in Owed(check)
  PROVE  \E i \in DOMAIN ActionsOf(check) : does \in OwedBy(check, ActionsOf(check)[i])
<1> DEFINE actions == ToSet(ActionsOf(check))
<1>1. Owed(check) = IF "test" \in actions /\ check.runner = "nextest"
                    THEN (actions \ {"test"}) \cup {"nextest", "doctests"}
                    ELSE actions
  BY DEF Owed, ActionsOf
<1>2. \A action \in actions : \E i \in DOMAIN ActionsOf(check) : ActionsOf(check)[i] = action
  BY DEF ToSet
<1> HIDE DEF actions
<1>3. CASE "test" \in actions /\ check.runner = "nextest"
  <2>1. CASE does \in actions \ {"test"}
    BY <1>2, <1>3, <2>1 DEF OwedBy
  <2>2. CASE does \in {"nextest", "doctests"}
    BY <1>2, <1>3, <2>2 DEF OwedBy
  <2> QED BY <1>1, <1>3, <2>1, <2>2
<1>4. CASE ~ ("test" \in actions /\ check.runner = "nextest")
  <2>1. does \in actions
    BY <1>1, <1>4
  <2>2. PICK i \in DOMAIN ActionsOf(check) : ActionsOf(check)[i] = does
    BY <1>2, <2>1
  <2> QED BY <1>4, <2>1, <2>2 DEF OwedBy
<1> QED BY <1>3, <1>4

CargoCommand == {Command("cargo", does) : does \in Word}

LEMMA CargoCommandExamines == \A command \in CargoCommand : Examines(command)
  BY DEF CargoCommand, Command, Examines

LEMMA CargoBuilt ==
  ASSUME NEW check \in Check, check.kind = "cargo", CargoCommands(check) # Error
  PROVE  /\ CargoCommands(check) \in Seq(CargoCommand) /\ CargoCommands(check) # <<>>
         /\ \A does \in Owed(check) :
              \E command \in ToSet(CargoCommands(check)) : command.does = does
<1> DEFINE actions == ActionsOf(check)
           each == [i \in DOMAIN actions |-> CargoAction(check, actions[i])]
<1>1. actions # <<>> /\ Error \notin ToSet(each) /\ CargoCommands(check) = FlattenSeq(each)
  BY DEF CargoCommands, ActionsOf
<1>2. Len(actions) \in Nat /\ DOMAIN actions = 1..Len(actions) /\ Len(actions) # 0
  BY <1>1, ActionsAreASequence, EmptySeq
<1>3. \A i \in DOMAIN actions : each[i] = CargoAction(check, actions[i]) /\ each[i] # Error
  BY <1>1 DEF ToSet
<1>4. DOMAIN each = 1..Len(actions)
  BY <1>2
<1>5. each = [i \in 1..Len(actions) |-> each[i]]
  BY <1>2
<1> HIDE DEF each, actions
<1>6. \A i \in 1..Len(actions) :
        /\ each[i] \in Seq(CargoCommand)
        /\ \A does \in OwedBy(check, actions[i]) :
             \E command \in ToSet(each[i]) : command.does = does
  BY <1>2, <1>3, ActionOwed DEF CargoCommand
<1>7. each \in Seq(Seq(CargoCommand)) /\ each # <<>>
  <2>1. each \in [1..Len(actions) -> Seq(CargoCommand)]
    BY <1>5, <1>6
  <2>2. each \in Seq(Seq(CargoCommand))
    BY <1>2, <2>1, SeqDef
  <2> QED BY <1>2, <1>4, <2>2, LenProperties
<1>8. /\ FlattenSeq(each) \in Seq(CargoCommand)
      /\ ToSet(FlattenSeq(each)) = UNION {ToSet(each[i]) : i \in DOMAIN each}
  BY <1>7, Flattened
<1>9. ASSUME NEW does \in Owed(check)
      PROVE  \E command \in ToSet(CargoCommands(check)) : command.does = does
  <2>1. PICK i \in DOMAIN actions : does \in OwedBy(check, actions[i])
    BY CargoOwes DEF actions
  <2>2. PICK command \in ToSet(each[i]) : command.does = does
    BY <1>2, <1>6, <2>1
  <2> QED BY <1>1, <1>2, <1>4, <1>8, <2>1, <2>2
<1>10. FlattenSeq(each) # <<>>
  <2>1. 1 \in DOMAIN each /\ each[1] \in Seq(CargoCommand) /\ 1 \in DOMAIN actions
    BY <1>2, <1>4, <1>6
  <2>2. \E does : does \in OwedBy(check, actions[1])
    BY DEF OwedBy
  <2>3. ToSet(each[1]) # {}
    BY <1>2, <1>6, <2>1, <2>2
  <2>4. ToSet(FlattenSeq(each)) # {}
    BY <1>8, <2>1, <2>3
  <2> QED BY <2>4 DEF ToSet
<1> QED BY <1>1, <1>8, <1>9, <1>10

LEMMA PrefixAsksOnce ==
  ASSUME NEW check
  PROVE  /\ CargoPrefix(check) \in Seq(ToSet(CargoPrefix(check)))
         /\ \A i, j \in DOMAIN CargoPrefix(check) :
              Rustc(CargoPrefix(check)[i]) /\ Rustc(CargoPrefix(check)[j]) => i = j
         /\ \A command \in ToSet(CargoPrefix(check)) :
              \/ command = Preparation("mold", "--version")
              \/ command = Preparation("rustc", OrElse(check.toolchain, "system"))
<1> DEFINE first == Preparation("mold", "--version")
           second == Preparation("rustc", OrElse(check.toolchain, "system"))
<1>1. CargoPrefix(check) = IF linker = "mold" THEN <<first, second>> ELSE <<second>>
  BY Zenon DEF CargoPrefix
<1>2. ~Rustc(first)
  BY DEF Rustc, Preparation
<1> HIDE DEF first, second
<1>3. CargoPrefix(check) \in Seq({first, second})
  <2>1. <<first, second>> \in Seq({first, second})
    OBVIOUS
  <2>2. <<second>> \in Seq({first, second})
    OBVIOUS
  <2> QED BY <1>1, <2>1, <2>2
<1>4. CargoPrefix(check) \in Seq(ToSet(CargoPrefix(check)))
      /\ ToSet(CargoPrefix(check)) \subseteq {first, second}
  BY <1>3, SeqOfItsElements
<1>5. \A i, j \in DOMAIN CargoPrefix(check) :
        Rustc(CargoPrefix(check)[i]) /\ Rustc(CargoPrefix(check)[j]) => i = j
  BY <1>1, <1>2
<1> QED BY <1>4, <1>5 DEF first, second

LEMMA CargoReady ==
  ASSUME NEW check \in Check, check.kind = "cargo", CargoCommands(check) # Error
  PROVE  Ready(check, CargoPrefix(check) \o CargoCommands(check))
<1>1. \A command \in ToSet(CargoCommands(check)) : Examines(command)
  BY CargoBuilt, SeqOfItsElements, CargoCommandExamines
<1> QED BY <1>1, PrefixAsksOnce, CargoBuilt, ReadyWhenPrepared

\* An action is done or refused.
LEMMA TurnsBuilt ==
  ASSUME NEW check \in Check, check.kind = "cargo"
  PROVE  /\ CargoTurns(check) \in Seq(CargoCommand \cup {Refused}) /\ CargoTurns(check) # <<>>
         /\ \/ Refused \in ToSet(CargoTurns(check))
            \/ \A does \in Owed(check) :
                 \E command \in ToSet(CargoTurns(check)) : command.does = does
<1> DEFINE S == CargoCommand \cup {Refused}
           actions == ActionsOf(check)
           each == [i \in DOMAIN actions |-> Turn(check, actions[i])]
<1>1. <<Refused>> \in Seq(S) /\ ToSet(<<Refused>>) = {Refused}
  <2> DEFINE e == Refused
  <2>1. e \in S
    OBVIOUS
  <2> HIDE DEF e, S
  <2>2. <<e>> \in Seq(S) /\ ToSet(<<e>>) = {e}
    BY <2>1 DEF ToSet
  <2> QED BY <2>2 DEF e
<1>2. CASE actions = <<>>
  <2>1. CargoTurns(check) = <<Refused>>
    BY <1>2 DEF CargoTurns, ActionsOf
  <2> QED BY <1>1, <2>1
<1>3. CASE actions # <<>>
  <2>1. CargoTurns(check) = FlattenSeq(each)
    BY <1>3 DEF CargoTurns, ActionsOf
  <2>2. Len(actions) \in Nat /\ DOMAIN actions = 1..Len(actions) /\ Len(actions) # 0
    BY <1>3, ActionsAreASequence, EmptySeq
  <2>3. /\ \A i \in DOMAIN actions : each[i] = Turn(check, actions[i])
        /\ each = [i \in 1..Len(actions) |-> each[i]] /\ DOMAIN each = 1..Len(actions)
    BY <2>2
  <2> HIDE DEF each, actions, S
  <2>4. ASSUME NEW i \in 1..Len(actions)
        PROVE  /\ each[i] \in Seq(S) /\ ToSet(each[i]) # {}
               /\ \/ Refused \in ToSet(each[i])
                  \/ \A does \in OwedBy(check, actions[i]) :
                       \E command \in ToSet(each[i]) : command.does = does
    <3>1. CASE CargoAction(check, actions[i]) = Error
      <4>1. each[i] = <<Refused>>
        BY <2>2, <2>3, <3>1 DEF Turn
      <4> QED BY <1>1, <4>1
    <3>2. CASE CargoAction(check, actions[i]) # Error
      <4>1. each[i] = CargoAction(check, actions[i])
        BY <2>2, <2>3, <3>2 DEF Turn
      <4>2. /\ each[i] \in Seq(CargoCommand)
            /\ \A does \in OwedBy(check, actions[i]) :
                 \E command \in ToSet(each[i]) : command.does = does
        BY <3>2, <4>1, ActionOwed DEF CargoCommand
      <4>3. \E does : does \in OwedBy(check, actions[i])
        BY DEF OwedBy
      <4> QED BY <4>2, <4>3, SeqMonotonic DEF S
    <3> QED BY <3>1, <3>2
  <2>5. each \in Seq(Seq(S)) /\ each # <<>>
    <3>1. each \in [1..Len(actions) -> Seq(S)]
      BY <2>3, <2>4
    <3>2. each \in Seq(Seq(S))
      BY <2>2, <3>1, SeqDef
    <3> QED BY <2>2, <2>3, <3>2, LenProperties
  <2>6. /\ FlattenSeq(each) \in Seq(S)
        /\ ToSet(FlattenSeq(each)) = UNION {ToSet(each[i]) : i \in DOMAIN each}
    BY <2>5, Flattened
  <2>7. FlattenSeq(each) # <<>>
    <3>1. 1 \in DOMAIN each /\ ToSet(each[1]) # {}
      <4>1. 1 \in 1..Len(actions)
        BY <2>2
      <4> QED BY <2>3, <2>4, <4>1
    <3>2. ToSet(FlattenSeq(each)) # {}
      BY <2>6, <3>1
    <3> QED BY <3>2 DEF ToSet
  <2>8. ASSUME Refused \notin ToSet(CargoTurns(check)), NEW does \in Owed(check)
        PROVE  \E command \in ToSet(CargoTurns(check)) : command.does = does
    <3>1. PICK i \in DOMAIN actions : does \in OwedBy(check, actions[i])
      BY CargoOwes DEF actions
    <3>2. ToSet(each[i]) \subseteq ToSet(CargoTurns(check))
      BY <2>1, <2>2, <2>3, <2>6, <3>1
    <3>3. PICK command \in ToSet(each[i]) : command.does = does
      BY <2>2, <2>4, <2>8, <3>1, <3>2
    <3> QED BY <3>2, <3>3
  <2> QED BY <2>1, <2>6, <2>7, <2>8 DEF S
<1> QED BY <1>2, <1>3

\* The prefix of the standalone program.
LEMMA NonemptyPrefix ==
  ASSUME NEW prefix, prefix \in Seq(ToSet(prefix)),
         \A i, j \in DOMAIN prefix : Rustc(prefix[i]) /\ Rustc(prefix[j]) => i = j
  PROVE  LET sent == [k \in DOMAIN prefix |-> Nonempty(prefix[k])]
         IN /\ sent \in Seq(ToSet(sent))
            /\ \A i, j \in DOMAIN sent : Rustc(sent[i]) /\ Rustc(sent[j]) => i = j
<1> DEFINE sent == [k \in DOMAIN prefix |-> Nonempty(prefix[k])]
<1>1. Len(prefix) \in Nat /\ DOMAIN prefix = 1..Len(prefix)
  BY LenProperties
<1>2. /\ sent = [k \in 1..Len(prefix) |-> sent[k]]
      /\ DOMAIN sent = DOMAIN prefix /\ \A k \in DOMAIN prefix : sent[k] = Nonempty(prefix[k])
  BY <1>1
<1> HIDE DEF sent
<1>3. sent \in [1..Len(prefix) -> ToSet(sent)]
  BY <1>1, <1>2 DEF ToSet
<1>4. sent \in Seq(ToSet(sent))
  BY <1>1, <1>3, SeqDef
<1>5. ~Rustc(Refused)
  BY DEF Rustc, Refused, Command
<1>6. \A k \in DOMAIN prefix : Rustc(sent[k]) => Rustc(prefix[k])
  BY <1>2, <1>5 DEF Nonempty
<1>7. \A i, j \in DOMAIN sent : Rustc(sent[i]) /\ Rustc(sent[j]) => i = j
  BY <1>2, <1>6
<1> QED BY <1>4, <1>7 DEF sent

LEMMA StandaloneCargoReady ==
  ASSUME NEW check \in Check, check.kind = "cargo"
  PROVE  LET prefix == CargoPrefix(check)
         IN Ready(check, [k \in DOMAIN prefix |-> Nonempty(prefix[k])] \o CargoTurns(check))
<1> DEFINE prefix == CargoPrefix(check)
           sent == [k \in DOMAIN prefix |-> Nonempty(prefix[k])]
<1>1. /\ sent \in Seq(ToSet(sent))
      /\ \A i, j \in DOMAIN sent : Rustc(sent[i]) /\ Rustc(sent[j]) => i = j
  BY PrefixAsksOnce, NonemptyPrefix
<1>2. \A command \in ToSet(CargoTurns(check)) : Examines(command)
  BY TurnsBuilt, SeqOfItsElements, CargoCommandExamines, RefusedIsNot
<1> HIDE DEF sent
<1>3. Ready(check, sent \o CargoTurns(check))
  BY <1>1, <1>2, TurnsBuilt, RefusedIsNot, ReadyWhenPrepared
<1> QED BY <1>3 DEF sent

LEMMA ScriptsAreASequence ==
  ASSUME NEW check \in Check
  PROVE  /\ ScriptsOf(check) \in Seq(ToSet(ScriptsOf(check)))
         /\ Len(ScriptsOf(check)) \in Nat /\ DOMAIN ScriptsOf(check) = 1..Len(ScriptsOf(check))
<1>1. CASE check.scripts = None
  <2>1. ScriptsOf(check) = <<"test">>
    BY <1>1 DEF ScriptsOf, OrElse
  <2>2. ScriptsOf(check) \in Seq({"test"})
    BY <2>1
  <2>3. ScriptsOf(check) \in Seq(ToSet(ScriptsOf(check)))
    BY <2>2, SeqOfItsElements
  <2> QED BY <2>3, LenProperties
<1>2. CASE check.scripts # None
  <2>1. ScriptsOf(check) = check.scripts
    BY <1>2 DEF ScriptsOf, OrElse
  <2>2. ScriptsOf(check) \in Seq(ToSet(ScriptsOf(check)))
    BY <1>2, <2>1, ManifestAssumption
  <2> QED BY <2>2, LenProperties
<1> QED BY <1>1, <1>2

\* Scripts that are all that is owed, or have a name that no argument can be.
LEMMA JavaScriptReady ==
  ASSUME NEW check, check.kind = "javascript", NEW T, NEW scripts \in Seq(T),
         JavaScriptRuns(check, scripts) # Error,
         Nul \in ToSet(scripts) \/ Owed(check) \subseteq ToSet(scripts)
  PROVE  Ready(check, JavaScriptRuns(check, scripts))
<1> DEFINE manager == OrElse(check.manager, "npm")
           first == Preparation(manager, "install")
           install == IF OrElse(check.install, TRUE) THEN <<first>> ELSE <<>>
           runs == [i \in DOMAIN scripts |-> Command(manager, scripts[i])]
<1>1. scripts # <<>> /\ JavaScriptRuns(check, scripts) = install \o runs
  BY DEF JavaScriptRuns
<1>2. Len(scripts) \in Nat /\ Len(scripts) # 0 /\ DOMAIN scripts = 1..Len(scripts)
  BY <1>1, LenProperties, EmptySeq
<1>3. /\ runs = [i \in 1..Len(scripts) |-> runs[i]] /\ DOMAIN runs = 1..Len(scripts)
      /\ \A i \in 1..Len(scripts) : runs[i] = Command(manager, scripts[i])
  BY <1>2
<1>4. /\ install \in Seq({first})
      /\ \A i, j \in DOMAIN install : Rustc(install[i]) /\ Rustc(install[j]) => i = j
  <2>1. install = <<first>> \/ install = <<>>
    OBVIOUS
  <2> HIDE DEF install, first
  <2>2. <<first>> \in Seq({first}) /\ DOMAIN <<first>> = {1}
    OBVIOUS
  <2>3. <<>> \in Seq({first}) /\ DOMAIN <<>> = {}
    OBVIOUS
  <2>4. CASE install = <<first>>
    <3>1. install \in Seq({first}) /\ DOMAIN install = {1}
      BY <2>2, <2>4, Zenon
    <3> QED BY <3>1
  <2>5. CASE install = <<>>
    <3>1. install \in Seq({first}) /\ DOMAIN install = {}
      BY <2>3, <2>5, Zenon
    <3> QED BY <3>1
  <2> QED BY <2>1, <2>4, <2>5
<1> HIDE DEF install, runs
<1>5. runs \in Seq(ToSet(runs)) /\ runs # <<>>
  <2>1. runs \in [1..Len(scripts) -> ToSet(runs)]
    BY <1>2, <1>3 DEF ToSet
  <2>2. runs \in Seq(ToSet(runs))
    BY <1>2, <2>1, SeqDef
  <2> QED BY <1>2, <1>3, <2>2, LenProperties
<1>6. \A command \in ToSet(runs) : Examines(command)
  BY <1>3 DEF ToSet, Examines, Command
<1>7. ASSUME NEW script \in ToSet(scripts)
      PROVE  \E command \in ToSet(runs) : command.does = script
  <2>1. PICK i \in 1..Len(scripts) : scripts[i] = script
    BY <1>2 DEF ToSet
  <2>2. runs[i] \in ToSet(runs)
    BY <1>3, <2>1 DEF ToSet
  <2>3. runs[i].does = script
    BY <1>3, <2>1 DEF Command
  <2> QED BY <2>2, <2>3
<1>8. \/ \E command \in ToSet(runs) : ~Runnable(command)
      \/ \A does \in Owed(check) : \E command \in ToSet(runs) : command.does = does
  BY <1>7 DEF Runnable
<1> QED BY <1>1, <1>4, <1>5, <1>6, <1>8, ReadyWhenPrepared

LEMMA JavaScriptCommandsReady ==
  ASSUME NEW check \in Check, check.kind = "javascript", JavaScriptCommands(check) # Error
  PROVE  Ready(check, JavaScriptCommands(check))
<1>1. JavaScriptCommands(check) = JavaScriptRuns(check, ScriptsOf(check))
  BY DEF JavaScriptCommands
<1>2. Owed(check) = ToSet(ScriptsOf(check))
  BY DEF Owed
<1> QED BY <1>1, <1>2, ScriptsAreASequence, JavaScriptReady

LEMMA JavaScriptTurnsReady ==
  ASSUME NEW check \in Check, check.kind = "javascript", JavaScriptTurns(check) # Error
  PROVE  Ready(check, JavaScriptTurns(check))
<1> DEFINE scripts == ScriptsOf(check)
           turns == [k \in DOMAIN scripts |-> IF scripts[k] = "" THEN Nul ELSE scripts[k]]
<1>1. JavaScriptTurns(check) = JavaScriptRuns(check, turns)
  BY DEF JavaScriptTurns
<1>2. Owed(check) = ToSet(scripts)
  BY DEF Owed
<1>3. Len(scripts) \in Nat /\ DOMAIN scripts = 1..Len(scripts)
  BY ScriptsAreASequence
<1>4. /\ turns = [k \in 1..Len(scripts) |-> turns[k]] /\ DOMAIN turns = 1..Len(scripts)
      /\ \A k \in 1..Len(scripts) : turns[k] = IF scripts[k] = "" THEN Nul ELSE scripts[k]
  BY <1>3
<1> HIDE DEF turns, scripts
<1>5. turns \in Seq(ToSet(turns))
  <2>1. turns \in [1..Len(scripts) -> ToSet(turns)]
    BY <1>3, <1>4 DEF ToSet
  <2> QED BY <1>3, <2>1, SeqDef
<1>6. Nul \in ToSet(turns) \/ ToSet(scripts) \subseteq ToSet(turns)
  <2> SUFFICES ASSUME Nul \notin ToSet(turns), NEW script \in ToSet(scripts)
               PROVE  script \in ToSet(turns)
    OBVIOUS
  <2>1. PICK k \in 1..Len(scripts) : scripts[k] = script
    BY <1>3 DEF ToSet
  <2>2. turns[k] \in ToSet(turns)
    BY <1>4, <2>1 DEF ToSet
  <2> QED BY <1>4, <2>1, <2>2
<1> QED BY <1>1, <1>2, <1>5, <1>6, JavaScriptReady

LEMMA CustomReady ==
  ASSUME NEW check \in Check, check.kind = "commands", check.commands # <<>>
  PROVE  Ready(check, check.commands)
<1> DEFINE commands == check.commands
<1>1. commands \in Seq(ToSet(commands)) /\ \A command \in ToSet(commands) : Examines(command)
  BY ManifestAssumption DEF Examines
<1>2. Owed(check) = {command.does : command \in ToSet(commands)}
  BY DEF Owed
<1>3. Len(commands) \in Nat /\ Len(commands) # 0 /\ DOMAIN commands = 1..Len(commands)
  BY <1>1, LenProperties, EmptySeq
<1> HIDE DEF commands
<1>4. \A i \in DOMAIN commands : ~Rustc(commands[i])
  BY <1>1 DEF ToSet, Examines, Rustc
<1>5. commands[1] \in ToSet(commands)
  BY <1>3 DEF ToSet
<1>6. Work(check, ToSet(commands))
  BY <1>1, <1>2, <1>5 DEF Work
<1>7. Ready(check, commands)
  BY <1>1, <1>3, <1>4, <1>6 DEF Ready, commands
<1> QED BY <1>7 DEF commands

LEMMA NixReady ==
  ASSUME NEW check, check.kind = "nix", NEW mode
  PROVE  Ready(check, <<Command("nix", mode)>>)
<1> DEFINE e == Command("nix", mode)
<1>1. Examines(e)
  BY DEF Examines, Command
<1>2. Owed(check) = {}
  BY DEF Owed
<1> HIDE DEF e
<1>3. <<e>> \in Seq({e}) /\ <<e>> # <<>> /\ ToSet(<<e>>) = {e}
  BY DEF ToSet
<1>4. \A i, j \in DOMAIN <<e>> : i = j
  OBVIOUS
<1>5. Ready(check, <<e>>)
  BY <1>1, <1>2, <1>3, <1>4 DEF Ready, Work
<1> QED BY <1>5 DEF e

-----------------------------------------------------------------------------
(* What validate_check accepts can be built and run.                       *)

LEMMA ValidCargo ==
  ASSUME NEW check \in Check, check.kind = "cargo", Valid(check)
  PROVE  /\ CargoCommands(check) # Error
         /\ Begun(check, CargoPrefix(check) \o CargoCommands(check))
<1> DEFINE prefix == CargoPrefix(check)
           commands == CargoCommands(check)
<1>1. commands # Error /\ \A command \in ToSet(commands) : Runnable(command)
  BY DEF Valid
<1>2. commands \in Seq(CargoCommand)
  BY <1>1, CargoBuilt
<1>3. /\ prefix \in Seq(ToSet(prefix))
      /\ \A command \in ToSet(prefix) :
           \/ command = Preparation("mold", "--version")
           \/ command = Preparation("rustc", OrElse(check.toolchain, "system"))
  BY PrefixAsksOnce
<1>4. Runnable(Preparation("mold", "--version"))
  <2>1. "mold" # Nul /\ "--version" # Nul
    BY NoWord, Zenon DEF Word
  <2> QED BY <2>1 DEF Runnable, Preparation
<1>5. check.toolchain # Nul => Runnable(Preparation("rustc", OrElse(check.toolchain, "system")))
  <2>1. "rustc" # Nul /\ "system" # Nul
    BY NoWord, Zenon DEF Word
  <2> QED BY <2>1 DEF Runnable, Preparation, OrElse
<1> HIDE DEF prefix, commands
<1>6. ToSet(prefix \o commands) = ToSet(prefix) \cup ToSet(commands)
  <2> DEFINE S == ToSet(prefix) \cup CargoCommand
  <2>1. prefix \in Seq(S) /\ commands \in Seq(S)
    BY <1>2, <1>3, SeqMonotonic
  <2> HIDE DEF S
  <2> QED BY <2>1, ConcatElements
<1>7. Begun(check, prefix \o commands)
  <2>1. ASSUME NEW command \in ToSet(prefix)
        PROVE  Runnable(command) \/ check.toolchain = Nul
    BY <1>3, <1>4, <1>5, <2>1, Zenon
  <2>2. ASSUME NEW command \in ToSet(prefix \o commands)
        PROVE  Runnable(command) \/ check.toolchain = Nul
    <3>1. command \in ToSet(prefix) \/ command \in ToSet(commands)
      BY <1>6
    <3> QED BY <1>1, <2>1, <3>1
  <2> QED BY <2>2 DEF Begun
<1> QED BY <1>1, <1>7 DEF prefix, commands

LEMMA ValidJavaScript ==
  ASSUME NEW check, check.kind = "javascript", Valid(check)
  PROVE  JavaScriptCommands(check) # Error /\ Begun(check, JavaScriptCommands(check))
<1>1. /\ JavaScriptCommands(check) # Error
      /\ \A command \in ToSet(JavaScriptCommands(check)) : Runnable(command)
  BY DEF Valid
<1> QED BY <1>1 DEF Begun

LEMMA ValidCustom ==
  ASSUME NEW check, check.kind = "commands", Valid(check)
  PROVE  check.commands # <<>> /\ Begun(check, check.commands)
<1>1. check.commands # <<>> /\ \A command \in ToSet(check.commands) : Runnable(command)
  BY DEF Valid
<1> QED BY <1>1 DEF Begun

LEMMA ValidNixMode ==
  ASSUME NEW check, check.kind = "nix", Valid(check)
  PROVE  NixMode(check) # Error /\ Begun(check, <<Command("nix", NixMode(check))>>)
<1>1. NixMode(check) # Error
  BY DEF Valid, ValidNix
<1>2. NixMode(check) \in {"list", "native", "eval", "all-systems", "named"}
  BY <1>1 DEF NixMode
<1>3. NixMode(check) # Nul /\ "nix" # Nul
  BY <1>2, NoWord, Zenon DEF Word
<1>4. Runnable(Command("nix", NixMode(check)))
  BY <1>3 DEF Runnable, Command
<1> DEFINE e == Command("nix", NixMode(check))
<1> HIDE DEF e
<1>5. ToSet(<<e>>) = {e}
  BY DEF ToSet
<1>6. Begun(check, <<e>>)
  <2>1. Runnable(e)
    BY <1>4 DEF e
  <2> QED BY <1>5, <2>1 DEF Begun
<1> QED BY <1>1, <1>6 DEF e

-----------------------------------------------------------------------------
(* From the first check to the success.                                    *)

\* Where a run is on its way to success.
Working == {"next", "evaluate", "judge", "run"}

\* The selection is fixed, and it is the turn of one of it but after the last.
SelectionInv ==
  /\ manifest \in [Name -> Check] /\ selectors \in Selection
  /\ at \in Nat \ {0} /\ flake \in SUBSET Native /\ DOMAIN shown = Name
  /\ ran \in Seq(ToSet(ran))
  /\ phase = "select" => at = 1 /\ ran = <<>> /\ selected = <<>>
  /\ phase # "select" => selected = Distinct(selectors)
  /\ phase \in Working \cup {"success"} =>
       selectors # <<>> /\ ToSet(selectors) \subseteq Name
  /\ phase \in {"evaluate", "judge", "run"} => at \in DOMAIN selected
  /\ phase = "success" => at \notin DOMAIN selected
  /\ phase = "judge" => inventory # None
  /\ phase = "run" => todo \in Seq(ToSet(todo)) /\ todo # <<>>

\* The checks before this one have done their work, and the commands left complete that
\* of this one, unless one of them cannot be run.
WorkInv ==
  phase \in Working \cup {"success"} =>
    /\ \A k \in DOMAIN selected : k < at =>
         /\ Work(manifest[selected[k]], RanFor(selected[k]))
         /\ manifest[selected[k]].kind = "nix" => shown[selected[k]] \notin {None, {}}
    /\ phase = "run" =>
         /\ \/ \E command \in ToSet(todo) : ~Runnable(command)
            \/ Work(Current, RanFor(selected[at]) \cup ToSet(todo))
         /\ Current.kind = "nix" => shown[selected[at]] \notin {None, {}}

\* Commands have run for the checks up to this one, in their order.
OrderInv ==
  phase \in Working \cup {"success"} =>
    /\ \A i \in DOMAIN ran : \E k \in DOMAIN selected :
         ran[i].check = selected[k] /\ k <= at /\ (phase = "next" => k < at)
    /\ \A i, j \in DOMAIN ran : i < j =>
         Mentioned(ran[i].check) <= Mentioned(ran[j].check)

\* A check that is still to ask for the version of Rust has not done so.
RustcInv ==
  phase \in Working \cup {"success"} =>
    /\ \A i, j \in DOMAIN ran : ran[i] = ran[j] /\ Rustc(ran[i].command) => i = j
    /\ phase = "run" =>
         /\ \A i, j \in DOMAIN todo : Rustc(todo[i]) /\ Rustc(todo[j]) => i = j
         /\ \A command \in ToSet(todo), i \in DOMAIN ran :
              Rustc(command) /\ ran[i].check = selected[at] => ~Rustc(ran[i].command)

SuccessInv == SelectionInv /\ WorkInv /\ OrderInv /\ RustcInv

\* Of a valid selection only the toolchains are left to go wrong.
LateInv ==
  program = "ccid" =>
    /\ phase \in Working => \A k \in DOMAIN selected : Valid(manifest[selected[k]])
    /\ phase = "run" => Begun(Current, todo)
    /\ OnlyToolchainIsLate

LEMMA MentionedFirst ==
  ASSUME selectors \in Seq(ToSet(selectors)), NEW i \in DOMAIN selectors
  PROVE  /\ Mentioned(selectors[i]) \in DOMAIN selectors
         /\ selectors[Mentioned(selectors[i])] = selectors[i]
         /\ Mentioned(selectors[i]) <= i
<1> DEFINE S == {m \in DOMAIN selectors : selectors[m] = selectors[i]}
           First(m) == selectors[m] = selectors[i] /\ \A j \in 1..(m - 1) : selectors[j] # selectors[i]
<1>1. Len(selectors) \in Nat /\ DOMAIN selectors = 1..Len(selectors)
  BY LenProperties
<1>2. S \in SUBSET Nat /\ i \in S
  BY <1>1
<1>3. PICK n \in S : \A m \in S : n <= m
  <2> HIDE DEF S
  <2> QED BY <1>2, LeastNumber
<1>4. \E m \in DOMAIN selectors : First(m)
  <2>1. n \in DOMAIN selectors /\ selectors[n] = selectors[i]
    BY <1>3
  <2>2. \A j \in 1..(n - 1) : selectors[j] # selectors[i]
    BY <1>1, <1>3
  <2> QED BY <2>1, <2>2
<1>5. Mentioned(selectors[i]) \in DOMAIN selectors /\ First(Mentioned(selectors[i]))
  <2>1. Mentioned(selectors[i]) = CHOOSE m \in DOMAIN selectors : First(m)
    BY DEF Mentioned
  <2> HIDE DEF First
  <2> QED BY <1>4, <2>1
<1>6. Mentioned(selectors[i]) <= i
  <2>1. ~(i \in 1..(Mentioned(selectors[i]) - 1))
    BY <1>5
  <2> QED BY <1>1, <1>5, <2>1
<1> QED BY <1>5, <1>6

LEMMA SelectionKnown ==
  ASSUME SelectionInv
  PROVE  selectors \in Seq(ToSet(selectors))
  BY ManifestAssumption DEF SelectionInv

LEMMA Selected ==
  ASSUME SelectionInv, phase # "select"
  PROVE  /\ Len(selected) \in Nat /\ DOMAIN selected = 1..Len(selected)
         /\ ToSet(selected) = ToSet(selectors)
         /\ \A k, l \in DOMAIN selected : k < l =>
              Mentioned(selected[k]) < Mentioned(selected[l])
<1> DEFINE S == ToSet(selectors)
<1>1. selectors \in Seq(S) /\ Len(selectors) \in Nat /\ DOMAIN selectors = 1..Len(selectors)
  BY SelectionKnown, LenProperties
<1>2. selected = Distinct(selectors)
  BY DEF SelectionInv
<1> HIDE DEF S
<1>3. /\ selected \in Seq(S) /\ ToSet(selected) = ToSet(selectors)
      /\ \A k, l \in DOMAIN selected, i \in DOMAIN selectors :
           k < l /\ selectors[i] = selected[l] =>
             \E j \in 1..(i - 1) : selectors[j] = selected[k]
  BY <1>1, <1>2, DistinctNames
<1>4. Len(selected) \in Nat /\ DOMAIN selected = 1..Len(selected)
  BY <1>3, LenProperties
<1>5. ASSUME NEW k \in DOMAIN selected, NEW l \in DOMAIN selected, k < l
      PROVE  Mentioned(selected[k]) < Mentioned(selected[l])
  <2>1. PICK m \in DOMAIN selectors : selectors[m] = selected[l]
    <3>1. selected[l] \in ToSet(selectors)
      <4>1. selected[l] \in ToSet(selected)
        BY DEF ToSet
      <4> QED BY <1>3, <4>1
    <3> QED BY <3>1 DEF ToSet
  <2> DEFINE i == Mentioned(selected[l])
  <2>2. i \in DOMAIN selectors /\ selectors[i] = selected[l]
    BY <1>1, <2>1, MentionedFirst DEF S
  <2> HIDE DEF i
  <2>3. PICK j \in 1..(i - 1) : selectors[j] = selected[k]
    BY <1>3, <1>5, <2>2
  <2>4. j \in DOMAIN selectors /\ j < i
    BY <1>1, <2>2, <2>3
  <2>5. Mentioned(selectors[j]) \in DOMAIN selectors /\ Mentioned(selectors[j]) <= j
    BY <1>1, <2>4, MentionedFirst DEF S
  <2>6. Mentioned(selected[k]) \in DOMAIN selectors /\ Mentioned(selected[k]) <= j
    BY <2>3, <2>5
  <2> QED BY <1>1, <2>2, <2>4, <2>6 DEF i
<1> QED BY <1>3, <1>4, <1>5

\* Each name has one place.
LEMMA OnePlace ==
  ASSUME SelectionInv, phase # "select",
         NEW k \in DOMAIN selected, NEW l \in DOMAIN selected, selected[k] = selected[l]
  PROVE  k = l
<1>1. ~(k < l) /\ ~(l < k)
  <2>1. ASSUME NEW m \in DOMAIN selected PROVE Mentioned(selected[m]) \in Nat
    <3>1. PICK i \in DOMAIN selectors : selectors[i] = selected[m]
      BY Selected DEF ToSet
    <3>2. Mentioned(selectors[i]) \in DOMAIN selectors /\ DOMAIN selectors = 1..Len(selectors)
          /\ Len(selectors) \in Nat
      BY SelectionKnown, MentionedFirst, LenProperties
    <3> QED BY <3>1, <3>2
  <2> QED BY <2>1, Selected
<1> QED BY <1>1, Selected

LEMMA CurrentDeclared ==
  ASSUME SelectionInv, phase \in Working \cup {"success"}, NEW k \in DOMAIN selected
  PROVE  selected[k] \in Name /\ manifest[selected[k]] \in Check
<1>1. phase # "select"
  BY DEF Working
<1>2. selected[k] \in ToSet(selectors)
  BY <1>1, Selected DEF ToSet
<1> QED BY <1>2 DEF SelectionInv

LEMMA RanForGrows ==
  ASSUME ran \in Seq(ToSet(ran)), NEW name, NEW command,
         ran' = Append(ran, [check |-> name, command |-> command])
  PROVE  /\ ran' \in Seq(ToSet(ran'))
         /\ Len(ran) \in Nat /\ DOMAIN ran = 1..Len(ran) /\ DOMAIN ran' = 1..(Len(ran) + 1)
         /\ \A i \in DOMAIN ran : ran'[i] = ran[i]
         /\ ran'[Len(ran) + 1].check = name /\ ran'[Len(ran) + 1].command = command
         /\ \A other : RanFor(other)' =
              IF other = name THEN RanFor(other) \cup {command} ELSE RanFor(other)
<1> DEFINE e == [check |-> name, command |-> command]
           S == ToSet(ran) \cup {e}
<1>1. e.check = name /\ e.command = command
  OBVIOUS
<1>2. ran' = Append(ran, e)
  OBVIOUS
<1>3. ran \in Seq(S) /\ e \in S
  BY SeqMonotonic
<1> HIDE DEF e, S
<1>4. /\ ran' \in Seq(S) /\ Len(ran') = Len(ran) + 1
      /\ \A i \in 1..Len(ran) : ran'[i] = ran[i]
      /\ ran'[Len(ran) + 1] = e
  BY <1>2, <1>3, AppendProperties
<1>5. /\ Len(ran) \in Nat /\ DOMAIN ran = 1..Len(ran) /\ DOMAIN ran' = 1..(Len(ran) + 1)
      /\ ran' \in Seq(ToSet(ran'))
  BY <1>3, <1>4, LenProperties, SeqOfItsElements
<1>6. ASSUME NEW other
      PROVE  RanFor(other)' = IF other = name THEN RanFor(other) \cup {command}
                              ELSE RanFor(other)
  <2>1. RanFor(other)' = {ran'[i].command : i \in {j \in DOMAIN ran' : ran'[j].check = other}}
    BY DEF RanFor
  <2>2. RanFor(other) = {ran[i].command : i \in {j \in DOMAIN ran : ran[j].check = other}}
    BY DEF RanFor
  <2>3. {j \in DOMAIN ran' : ran'[j].check = other} =
          {j \in DOMAIN ran : ran[j].check = other}
            \cup (IF other = name THEN {Len(ran) + 1} ELSE {})
    BY <1>1, <1>4, <1>5
  <2>4. {ran'[i].command : i \in {j \in DOMAIN ran : ran[j].check = other}} = RanFor(other)
    BY <1>4, <1>5, <2>2
  <2> QED BY <1>1, <1>4, <2>1, <2>3, <2>4
<1> QED BY <1>1, <1>4, <1>5, <1>6

LEMMA WorkGrows ==
  ASSUME NEW check, NEW few, NEW many, few \subseteq many, Work(check, few)
  PROVE  Work(check, many)
  BY DEF Work

\* A run that ends otherwise than in success.
LEMMA StopKeepsSuccessInv ==
  ASSUME SuccessInv, phase # "select", phase' \in {"invalid", "failed"},
         UNCHANGED <<given, flake, selected, at, ran, shown>>
  PROVE  SuccessInv'
<1>1. SelectionInv'
  BY DEF SuccessInv, SelectionInv, Working, given
<1> QED BY <1>1 DEF SuccessInv, WorkInv, OrderInv, RustcInv, Working

LEMMA SelectKeepsSuccessInv ==
  ASSUME SuccessInv, phase = "select", selected' = Distinct(selectors),
         phase' \in {"next", "planned", "invalid"},
         phase' = "next" => selectors # <<>> /\ ToSet(selectors) \subseteq Name,
         UNCHANGED <<given, flake, at, ran, shown>>
  PROVE  SuccessInv'
<1>1. SelectionInv'
  BY DEF SuccessInv, SelectionInv, Working, given
<1>2. Len(selected') \in Nat /\ DOMAIN selected' = 1..Len(selected')
  <2>1. Distinct(selectors) \in Seq(ToSet(selectors))
    BY SelectionKnown, DistinctNames DEF SuccessInv
  <2> QED BY <2>1, LenProperties
<1>3. at' = 1 /\ ran' = <<>> /\ \A k \in DOMAIN selected' : ~(k < at')
  BY <1>2 DEF SuccessInv, SelectionInv
<1>4. WorkInv'
  BY <1>3 DEF WorkInv, Working
<1>5. OrderInv' /\ RustcInv'
  BY <1>3 DEF OrderInv, RustcInv, Working
<1> QED BY <1>1, <1>4, <1>5 DEF SuccessInv

\* The first commands of a check.
LEMMA StartKeepsSuccessInv ==
  ASSUME SuccessInv, phase = "next", at <= Len(selected), NEW commands,
         Current.kind # "nix", Ready(Current, commands),
         phase' = "run", todo' = commands,
         UNCHANGED <<given, flake, selected, at, ran, shown>>
  PROVE  SuccessInv'
<1>1. at \in DOMAIN selected
  BY Selected DEF SuccessInv, SelectionInv
<1>2. SelectionInv'
  BY <1>1 DEF SuccessInv, SelectionInv, Working, given, Ready
<1>3. \A name : RanFor(name)' = RanFor(name)
  BY DEF RanFor
<1>4. Current' = Current /\ selected' = selected /\ at' = at /\ manifest' = manifest
      /\ ran' = ran /\ selectors' = selectors /\ shown' = shown
  BY DEF Current, given
<1>5. WorkInv'
  <2>1. \A k \in DOMAIN selected : k < at =>
          /\ Work(manifest[selected[k]], RanFor(selected[k]))
          /\ manifest[selected[k]].kind = "nix" => shown[selected[k]] \notin {None, {}}
    BY DEF SuccessInv, WorkInv, Working
  <2>2. \/ \E command \in ToSet(todo') : ~Runnable(command)
        \/ Work(Current, RanFor(selected[at]) \cup ToSet(todo'))
    BY WorkGrows DEF Ready
  <2> QED BY <1>3, <1>4, <2>1, <2>2 DEF WorkInv
<1>6. OrderInv'
  <2>1. /\ \A i \in DOMAIN ran : \E k \in DOMAIN selected :
             ran[i].check = selected[k] /\ k <= at
        /\ \A i, j \in DOMAIN ran : i < j =>
             Mentioned(ran[i].check) <= Mentioned(ran[j].check)
    BY DEF SuccessInv, OrderInv, Working
  <2>2. \A name : Mentioned(name)' = Mentioned(name)
    BY <1>4 DEF Mentioned
  <2> QED BY <1>4, <2>1, <2>2 DEF OrderInv
<1>7. RustcInv'
  <2>1. \A i \in DOMAIN ran : ran[i].check # selected[at]
    <3> SUFFICES ASSUME NEW i \in DOMAIN ran, ran[i].check = selected[at] PROVE FALSE
      OBVIOUS
    <3>1. PICK k \in DOMAIN selected : ran[i].check = selected[k] /\ k < at
      BY DEF SuccessInv, OrderInv, Working
    <3>2. k = at
      BY <1>1, <3>1, OnePlace DEF SuccessInv
    <3> QED BY <3>1, <3>2 DEF SuccessInv, SelectionInv
  <2>2. \A i, j \in DOMAIN ran : ran[i] = ran[j] /\ Rustc(ran[i].command) => i = j
    BY DEF SuccessInv, RustcInv, Working
  <2>3. \A i, j \in DOMAIN todo' : Rustc(todo'[i]) /\ Rustc(todo'[j]) => i = j
    BY DEF Ready
  <2> QED BY <1>4, <2>1, <2>2, <2>3 DEF RustcInv
<1> QED BY <1>2, <1>5, <1>6, <1>7 DEF SuccessInv

\* A Nix check on its way to the judgement.
LEMMA NixKeepsSuccessInv ==
  ASSUME SuccessInv, phase = "next", at <= Len(selected),
         phase' \in {"evaluate", "judge"}, phase' = "judge" => inventory # None,
         UNCHANGED <<given, flake, selected, at, todo, inventory, ran, shown>>
  PROVE  SuccessInv'
<1>1. at \in DOMAIN selected
  BY Selected DEF SuccessInv, SelectionInv
<1>2. SelectionInv'
  BY <1>1 DEF SuccessInv, SelectionInv, Working, given
<1>3. \A name : RanFor(name)' = RanFor(name)
  BY DEF RanFor
<1>4. selected' = selected /\ at' = at /\ manifest' = manifest
      /\ ran' = ran /\ selectors' = selectors /\ shown' = shown
  BY DEF given
<1>5. WorkInv'
  <2>1. \A k \in DOMAIN selected : k < at =>
          /\ Work(manifest[selected[k]], RanFor(selected[k]))
          /\ manifest[selected[k]].kind = "nix" => shown[selected[k]] \notin {None, {}}
    BY DEF SuccessInv, WorkInv, Working
  <2> QED BY <1>3, <1>4, <2>1 DEF WorkInv
<1>6. OrderInv'
  <2>1. /\ \A i \in DOMAIN ran : \E k \in DOMAIN selected :
             ran[i].check = selected[k] /\ k <= at
        /\ \A i, j \in DOMAIN ran : i < j =>
             Mentioned(ran[i].check) <= Mentioned(ran[j].check)
    BY DEF SuccessInv, OrderInv, Working
  <2>2. \A name : Mentioned(name)' = Mentioned(name)
    BY <1>4 DEF Mentioned
  <2> QED BY <1>4, <2>1, <2>2 DEF OrderInv
<1>7. RustcInv'
  BY <1>4 DEF SuccessInv, RustcInv, Working
<1> QED BY <1>2, <1>5, <1>6, <1>7 DEF SuccessInv

\* One more command of the check whose turn it is.
LEMMA OneMoreKeepsOrderInv ==
  ASSUME SuccessInv, phase \in {"evaluate", "run"}, NEW command,
         ran' = Append(ran, [check |-> selected[at], command |-> command]),
         at' \in {at, at + 1}, phase' = "next" => at' = at + 1,
         UNCHANGED <<selected, selectors>>
  PROVE  OrderInv'
<1>1. /\ Len(ran) \in Nat /\ DOMAIN ran = 1..Len(ran) /\ DOMAIN ran' = 1..(Len(ran) + 1)
      /\ \A i \in DOMAIN ran : ran'[i] = ran[i]
      /\ ran'[Len(ran) + 1].check = selected[at]
  BY RanForGrows DEF SuccessInv, SelectionInv
<1>2. /\ \A i \in DOMAIN ran : \E k \in DOMAIN selected :
           ran[i].check = selected[k] /\ k <= at
      /\ \A i, j \in DOMAIN ran : i < j =>
           Mentioned(ran[i].check) <= Mentioned(ran[j].check)
  BY DEF SuccessInv, OrderInv, Working
<1>3. at \in DOMAIN selected /\ at \in Nat /\ DOMAIN selected = 1..Len(selected)
      /\ Len(selected) \in Nat
  BY Selected DEF SuccessInv, SelectionInv
<1>4. \A i \in DOMAIN ran' : \E k \in DOMAIN selected : ran'[i].check = selected[k] /\ k <= at
  BY <1>1, <1>2, <1>3
<1>5. ASSUME NEW i \in DOMAIN ran
      PROVE  Mentioned(ran[i].check) <= Mentioned(selected[at])
  <2>1. PICK k \in DOMAIN selected : ran[i].check = selected[k] /\ k <= at
    BY <1>2
  <2>2. Mentioned(selected[at]) \in Nat
    <3>1. PICK m \in DOMAIN selectors : selectors[m] = selected[at]
      <4>1. selected[at] \in ToSet(selectors)
        <5>1. selected[at] \in ToSet(selected)
          BY <1>3 DEF ToSet
        <5> QED BY <5>1, Selected DEF SuccessInv
      <4> QED BY <4>1 DEF ToSet
    <3>2. Mentioned(selectors[m]) \in DOMAIN selectors /\ DOMAIN selectors = 1..Len(selectors)
          /\ Len(selectors) \in Nat
      BY SelectionKnown, MentionedFirst, LenProperties DEF SuccessInv
    <3> QED BY <3>1, <3>2
  <2>3. CASE k = at
    BY <2>1, <2>2, <2>3
  <2>4. CASE k # at
    <3>1. k < at
      BY <1>3, <2>1, <2>4
    <3>2. Mentioned(selected[k]) < Mentioned(selected[at])
      BY <1>3, <3>1, Selected DEF SuccessInv
    <3>3. Mentioned(selected[k]) \in Nat
      <4>1. PICK m \in DOMAIN selectors : selectors[m] = selected[k]
        <5>1. selected[k] \in ToSet(selectors)
          <6>1. selected[k] \in ToSet(selected)
            BY <1>3 DEF ToSet
          <6> QED BY <6>1, Selected DEF SuccessInv
        <5> QED BY <5>1 DEF ToSet
      <4>2. Mentioned(selectors[m]) \in DOMAIN selectors
            /\ DOMAIN selectors = 1..Len(selectors) /\ Len(selectors) \in Nat
        BY SelectionKnown, MentionedFirst, LenProperties DEF SuccessInv
      <4> QED BY <4>1, <4>2
    <3> QED BY <2>1, <2>2, <3>2, <3>3
  <2> QED BY <2>3, <2>4
<1>6. \A name : Mentioned(name)' = Mentioned(name)
  BY DEF Mentioned
<1>7. ASSUME NEW i \in DOMAIN ran', NEW j \in DOMAIN ran', i < j
      PROVE  Mentioned(ran'[i].check) <= Mentioned(ran'[j].check)
  <2>1. i \in DOMAIN ran /\ ran'[i] = ran[i]
    BY <1>1, <1>7
  <2>2. CASE j \in DOMAIN ran
    BY <1>1, <1>2, <1>7, <2>1, <2>2
  <2>3. CASE j \notin DOMAIN ran
    <3>1. j = Len(ran) + 1
      BY <1>1, <2>3
    <3> QED BY <1>1, <1>5, <2>1, <3>1
  <2> QED BY <2>2, <2>3
<1>8. \A i \in DOMAIN ran' : \E k \in DOMAIN selected' :
        ran'[i].check = selected'[k] /\ k <= at' /\ (phase' = "next" => k < at')
  BY <1>3, <1>4
<1> QED BY <1>6, <1>7, <1>8 DEF OrderInv

LEMMA EvaluateKeepsSuccessInv ==
  ASSUME SuccessInv, Evaluate
  PROVE  SuccessInv'
<1> DEFINE command == Preparation("nix", "inventory")
<1>1. /\ phase = "evaluate" /\ phase' = "judge" /\ inventory' = flake
      /\ ran' = Append(ran, [check |-> selected[at], command |-> command])
      /\ UNCHANGED <<manifest, selectors, flake, selected, at, shown>>
  BY DEF Evaluate, given
<1>2. ~Rustc(command)
  BY DEF Rustc, Preparation
<1> HIDE DEF command
<1>3. /\ ran' \in Seq(ToSet(ran'))
      /\ Len(ran) \in Nat /\ DOMAIN ran = 1..Len(ran) /\ DOMAIN ran' = 1..(Len(ran) + 1)
      /\ \A i \in DOMAIN ran : ran'[i] = ran[i]
      /\ ran'[Len(ran) + 1].command = command
      /\ \A name : RanFor(name) \subseteq RanFor(name)'
  BY <1>1, RanForGrows DEF SuccessInv, SelectionInv
<1>4. SelectionInv'
  <2>1. inventory' # None
    BY <1>1, ManifestAssumption DEF SuccessInv, SelectionInv
  <2> QED BY <1>1, <1>3, <2>1 DEF SuccessInv, SelectionInv, Working
<1>5. WorkInv'
  <2>1. \A k \in DOMAIN selected : k < at =>
          /\ Work(manifest[selected[k]], RanFor(selected[k]))
          /\ manifest[selected[k]].kind = "nix" => shown[selected[k]] \notin {None, {}}
    BY <1>1 DEF SuccessInv, WorkInv, Working
  <2>2. ASSUME NEW name, NEW k \in DOMAIN selected, k < at, name = selected[k]
        PROVE  Work(manifest[name], RanFor(name)')
    <3>1. RanFor(name) \subseteq RanFor(name)' /\ Work(manifest[name], RanFor(name))
      BY <1>3, <2>1, <2>2
    <3> QED BY <3>1, WorkGrows
  <2> QED BY <1>1, <2>1, <2>2 DEF WorkInv
<1>6. OrderInv'
  BY <1>1, OneMoreKeepsOrderInv
<1>7. RustcInv'
  <2>1. \A i, j \in DOMAIN ran : ran[i] = ran[j] /\ Rustc(ran[i].command) => i = j
    BY <1>1 DEF SuccessInv, RustcInv, Working
  <2> QED BY <1>1, <1>2, <1>3, <2>1 DEF RustcInv
<1> QED BY <1>4, <1>5, <1>6, <1>7 DEF SuccessInv

LEMMA FinishKeepsSuccessInv ==
  ASSUME SuccessInv, Finish
  PROVE  SuccessInv'
<1>1. /\ phase = "next" /\ phase' = "success" /\ at > Len(selected)
      /\ UNCHANGED <<manifest, selectors, flake, selected, at, ran, shown>>
  BY DEF Finish, given, history
<1>2. SelectionInv'
  BY <1>1, Selected DEF SuccessInv, SelectionInv, Working
<1>3. \A name : RanFor(name)' = RanFor(name)
  BY <1>1 DEF RanFor
<1>4. WorkInv'
  <2>1. \A k \in DOMAIN selected : k < at =>
          /\ Work(manifest[selected[k]], RanFor(selected[k]))
          /\ manifest[selected[k]].kind = "nix" => shown[selected[k]] \notin {None, {}}
    BY <1>1 DEF SuccessInv, WorkInv, Working
  <2> QED BY <1>1, <1>3, <2>1 DEF WorkInv
<1>5. OrderInv'
  <2>1. \A name : Mentioned(name)' = Mentioned(name)
    BY <1>1 DEF Mentioned
  <2> QED BY <1>1, <2>1 DEF SuccessInv, OrderInv, Working
<1>6. RustcInv'
  BY <1>1 DEF SuccessInv, RustcInv, Working
<1> QED BY <1>2, <1>4, <1>5, <1>6 DEF SuccessInv

LEMMA AcceptKeepsSuccessInv ==
  ASSUME SuccessInv, Accept, Current.kind = "nix"
  PROVE  SuccessInv'
<1> DEFINE name == selected[at]
<1>1. /\ phase = "judge" /\ inventory # {}
      /\ shown' = [shown EXCEPT ![name] = inventory]
      /\ UNCHANGED <<manifest, selectors, flake, selected, ran>>
      /\ \/ NixMode(Current) = "list" /\ phase' = "next" /\ at' = at + 1
         \/ phase' = "run" /\ at' = at /\ todo' = <<Command("nix", NixMode(Current))>>
  BY DEF Accept, Acceptable, given
<1>2. /\ at \in DOMAIN selected /\ at \in Nat /\ inventory # None
      /\ name \in Name /\ Current \in Check /\ DOMAIN shown = Name
  BY <1>1, CurrentDeclared DEF SuccessInv, SelectionInv, Working, Current
<1>3. /\ DOMAIN shown' = Name /\ shown'[name] = inventory
      /\ \A other \in Name : other # name => shown'[other] = shown[other]
  BY <1>1, <1>2
<1>4. phase' = "run" => Ready(Current, todo')
  BY <1>1, NixReady
<1>5. SelectionInv'
  <2>1. at' \in Nat \ {0}
    <3>1. at' = at + 1 \/ at' = at
      BY <1>1
    <3>2. at \in Nat \ {0}
      BY DEF SuccessInv, SelectionInv
    <3> QED BY <3>1, <3>2
  <2>2. phase' = "run" => todo' \in Seq(ToSet(todo')) /\ todo' # <<>>
    BY <1>4 DEF Ready
  <2> QED BY <1>1, <1>2, <1>3, <2>1, <2>2 DEF SuccessInv, SelectionInv, Working
<1>6. \A other : RanFor(other)' = RanFor(other)
  BY <1>1 DEF RanFor
<1>7. WorkInv'
  <2>1. \A k \in DOMAIN selected : k < at =>
          /\ Work(manifest[selected[k]], RanFor(selected[k]))
          /\ manifest[selected[k]].kind = "nix" => shown[selected[k]] \notin {None, {}}
    BY <1>1 DEF SuccessInv, WorkInv, Working
  <2>2. ASSUME NEW k \in DOMAIN selected, k < at'
        PROVE  /\ Work(manifest[selected[k]], RanFor(selected[k]))
               /\ manifest[selected[k]].kind = "nix" => shown'[selected[k]] \notin {None, {}}
    <3>1. selected[k] \in Name /\ k \in Nat
      BY <1>1, CurrentDeclared, Selected DEF SuccessInv, Working
    <3>2. CASE k < at
      <4>1. selected[k] # name
        BY <1>1, <1>2, <3>1, <3>2, OnePlace DEF SuccessInv
      <4> QED BY <1>3, <2>1, <3>1, <3>2, <4>1
    <3>3. CASE k = at
      <4>1. NixMode(Current) = "list"
        BY <1>1, <1>2, <2>2, <3>3
      <4>2. Current.mode = "list"
        <5>1. Error # "list" /\ "native" # "list"
          BY NoWord, Zenon DEF Word
        <5> QED BY <4>1, <5>1 DEF NixMode, OrElse
      <4>3. Owed(Current) = {}
        BY DEF Owed
      <4>4. Work(Current, RanFor(name))
        BY <4>2, <4>3 DEF Work
      <4> QED BY <1>1, <1>2, <1>3, <3>3, <4>4 DEF Current
    <3> QED BY <1>1, <1>2, <2>2, <3>1, <3>2, <3>3
  <2>3. phase' = "run" =>
          /\ \/ \E command \in ToSet(todo') : ~Runnable(command)
             \/ Work(Current, RanFor(name) \cup ToSet(todo'))
          /\ shown'[name] \notin {None, {}}
    BY <1>1, <1>2, <1>3, <1>4, WorkGrows DEF Ready
  <2>4. phase' = "run" => Current' = Current
    BY <1>1 DEF Current
  <2> QED BY <1>1, <1>6, <2>2, <2>3, <2>4 DEF WorkInv
<1>8. OrderInv'
  <2>1. /\ \A i \in DOMAIN ran : \E k \in DOMAIN selected :
             ran[i].check = selected[k] /\ k <= at /\ k \in Nat
        /\ \A i, j \in DOMAIN ran : i < j =>
             Mentioned(ran[i].check) <= Mentioned(ran[j].check)
    BY <1>1, Selected DEF SuccessInv, OrderInv, Working
  <2>2. \A other : Mentioned(other)' = Mentioned(other)
    BY <1>1 DEF Mentioned
  <2>3. \A k \in Nat : k <= at => k <= at' /\ (phase' = "next" => k < at')
    BY <1>1, <1>2
  <2> QED BY <1>1, <2>1, <2>2, <2>3 DEF OrderInv
<1>9. RustcInv'
  <2>1. \A i, j \in DOMAIN ran : ran[i] = ran[j] /\ Rustc(ran[i].command) => i = j
    BY <1>1 DEF SuccessInv, RustcInv, Working
  <2>2. phase' = "run" => \A command \in ToSet(todo') : ~Rustc(command)
    <3> DEFINE e == Command("nix", NixMode(Current))
    <3>1. ~Rustc(e)
      BY DEF Rustc, Command
    <3>2. phase' = "run" => todo' = <<e>>
      BY <1>1
    <3> HIDE DEF e
    <3> QED BY <3>1, <3>2 DEF ToSet
  <2>3. phase' = "run" => \A i, j \in DOMAIN todo' : ~Rustc(todo'[i])
    BY <2>2 DEF ToSet
  <2> QED BY <1>1, <2>1, <2>2, <2>3 DEF RustcInv
<1> QED BY <1>5, <1>7, <1>8, <1>9 DEF SuccessInv

LEMMA RunKeepsSuccessInv ==
  ASSUME SuccessInv, Run
  PROVE  SuccessInv'
<1> DEFINE name == selected[at]
           command == Head(todo)
<1>1. /\ phase = "run" /\ Runnable(command) /\ todo' = Tail(todo)
      /\ ran' = Append(ran, [check |-> name, command |-> command])
      /\ UNCHANGED <<manifest, selectors, selected, shown>>
      /\ \/ todo' = <<>> /\ at' = at + 1 /\ phase' = "next"
         \/ todo' # <<>> /\ at' = at /\ phase' = "run"
  BY DEF Run, given
<1>2. flake' \in SUBSET Native
  BY DEF Run, SuccessInv, SelectionInv
<1>3. /\ at \in DOMAIN selected /\ at \in Nat \ {0} /\ DOMAIN selected = 1..Len(selected)
      /\ Len(selected) \in Nat /\ todo \in Seq(ToSet(todo)) /\ todo # <<>>
  BY <1>1, Selected DEF SuccessInv, SelectionInv
<1>4. /\ command \in ToSet(todo) /\ command = todo[1]
      /\ todo' \in Seq(ToSet(todo)) /\ ToSet(todo) = ToSet(todo') \cup {command}
  BY <1>1, <1>3, TailElements
<1>5. /\ Len(todo) \in Nat \ {0} /\ DOMAIN todo = 1..Len(todo)
      /\ DOMAIN todo' = 1..(Len(todo) - 1)
      /\ \A i \in DOMAIN todo' : todo'[i] = todo[i + 1]
  <2>1. Len(todo') = Len(todo) - 1 /\ \A i \in 1..Len(todo') : todo'[i] = todo[i + 1]
    BY <1>1, <1>3, HeadTailProperties
  <2> QED BY <1>3, <1>4, <2>1, LenProperties, EmptySeq
<1> HIDE DEF name, command
<1>6. /\ ran' \in Seq(ToSet(ran'))
      /\ Len(ran) \in Nat /\ DOMAIN ran = 1..Len(ran) /\ DOMAIN ran' = 1..(Len(ran) + 1)
      /\ \A i \in DOMAIN ran : ran'[i] = ran[i]
      /\ ran'[Len(ran) + 1].check = name /\ ran'[Len(ran) + 1].command = command
  BY <1>1, RanForGrows DEF SuccessInv, SelectionInv
<1>7. \A other : RanFor(other)' =
        IF other = name THEN RanFor(other) \cup {command} ELSE RanFor(other)
  BY <1>1, RanForGrows DEF SuccessInv, SelectionInv
<1>8. SelectionInv'
  <2>1. todo' \in Seq(ToSet(todo'))
    BY <1>4, SeqOfItsElements
  <2> QED BY <1>1, <1>2, <1>3, <1>6, <2>1 DEF SuccessInv, SelectionInv, Working
<1>9. WorkInv'
  <2>1. /\ \A k \in DOMAIN selected : k < at =>
             /\ Work(manifest[selected[k]], RanFor(selected[k]))
             /\ manifest[selected[k]].kind = "nix" => shown[selected[k]] \notin {None, {}}
        /\ \/ \E other \in ToSet(todo) : ~Runnable(other)
           \/ Work(manifest[name], RanFor(name) \cup ToSet(todo))
        /\ manifest[name].kind = "nix" => shown[name] \notin {None, {}}
    BY <1>1 DEF SuccessInv, WorkInv, Working, Current, name
  <2>2. ASSUME NEW k \in DOMAIN selected, k < at, NEW other, other = selected[k]
        PROVE  Work(manifest[other], RanFor(other)')
    <3>1. RanFor(other) \subseteq RanFor(other)' /\ Work(manifest[other], RanFor(other))
      BY <1>7, <2>1, <2>2
    <3> QED BY <3>1, WorkGrows
  <2>3. ASSUME NEW other, other = name
        PROVE  \/ \E left \in ToSet(todo') : ~Runnable(left)
               \/ Work(manifest[other], RanFor(other)' \cup ToSet(todo'))
    <3>1. RanFor(other)' \cup ToSet(todo') = RanFor(other) \cup ToSet(todo)
      BY <1>4, <1>7, <2>3
    <3> QED BY <1>1, <1>4, <2>1, <2>3, <3>1
  <2>4. CASE phase' = "run"
    <3>1. at' = at /\ phase' # "next"
      BY <1>1, <2>4
    <3> QED BY <1>1, <2>1, <2>2, <2>3, <2>4, <3>1 DEF WorkInv, Current, name
  <2>5. CASE phase' = "next"
    <3>1. at' = at + 1 /\ todo' = <<>>
      BY <1>1, <2>5
    <3>2. ToSet(todo') = {}
      BY <3>1 DEF ToSet
    <3>3. ASSUME NEW other, other = name
          PROVE  Work(manifest[other], RanFor(other)')
      <4>1. RanFor(other)' \cup {} = RanFor(other)'
        OBVIOUS
      <4> QED BY <2>3, <3>2, <3>3, <4>1
    <3>4. \A k \in DOMAIN selected : k < at' => k < at \/ k = at
      BY <1>3, <3>1
    <3> QED BY <1>1, <2>1, <2>2, <2>5, <3>3, <3>4 DEF WorkInv, name
  <2> QED BY <1>1, <2>4, <2>5
<1>10. OrderInv'
  BY <1>1, OneMoreKeepsOrderInv DEF name
<1>11. RustcInv'
  <2>1. /\ \A i, j \in DOMAIN ran : ran[i] = ran[j] /\ Rustc(ran[i].command) => i = j
        /\ \A i, j \in DOMAIN todo : Rustc(todo[i]) /\ Rustc(todo[j]) => i = j
        /\ \A other \in ToSet(todo), i \in DOMAIN ran :
             Rustc(other) /\ ran[i].check = name => ~Rustc(ran[i].command)
    BY <1>1 DEF SuccessInv, RustcInv, Working, name
  <2>2. \A i, j \in DOMAIN ran' : ran'[i] = ran'[j] /\ Rustc(ran'[i].command) => i = j
    BY <1>4, <1>6, <2>1
  <2>3. \A i, j \in DOMAIN todo' : Rustc(todo'[i]) /\ Rustc(todo'[j]) => i = j
    <3>1. \A i \in DOMAIN todo' : i + 1 \in DOMAIN todo
      BY <1>5
    <3> QED BY <1>5, <2>1, <3>1
  <2>4. ASSUME NEW other \in ToSet(todo'), Rustc(other)
        PROVE  ~Rustc(command)
    <3>1. PICK i \in DOMAIN todo' : todo'[i] = other
      BY DEF ToSet
    <3>2. i + 1 \in DOMAIN todo /\ 1 \in DOMAIN todo /\ todo[i + 1] = other /\ i + 1 # 1
      BY <1>5, <3>1
    <3> QED BY <1>4, <2>1, <2>4, <3>2
  <2>5. \A other \in ToSet(todo'), i \in DOMAIN ran' :
          Rustc(other) /\ ran'[i].check = name => ~Rustc(ran'[i].command)
    BY <1>4, <1>6, <2>1, <2>4
  <2> QED BY <1>1, <2>2, <2>3, <2>5 DEF RustcInv, name
<1> QED BY <1>8, <1>9, <1>10, <1>11 DEF SuccessInv

LEMMA CurrentIsACheck ==
  ASSUME SelectionInv, phase \in Working, at <= Len(selected)
  PROVE  at \in DOMAIN selected /\ Current \in Check
<1>1. at \in DOMAIN selected
  BY Selected DEF SelectionInv, Working
<1> QED BY <1>1, CurrentDeclared DEF Current

LEMMA InitImpliesSuccessInv ==
  ASSUME Init
  PROVE  SuccessInv
<1>1. ran \in Seq(ToSet(ran))
  BY DEF Init
<1>2. DOMAIN shown = Name
  BY DEF Init
<1>3. SelectionInv
  BY <1>1, <1>2 DEF Init, SelectionInv, Working
<1> QED BY <1>3 DEF Init, SuccessInv, WorkInv, OrderInv, RustcInv, Working

LEMMA NextKeepsSuccessInv ==
  ASSUME SuccessInv, PlaceInv, [Next]_vars
  PROVE  SuccessInv'
<1>1. CASE Select
  BY <1>1, SelectKeepsSuccessInv DEF Select, history
<1>2. CASE StartCargo
  <2>1. Current \in Check
    BY <1>2, CurrentIsACheck DEF StartCargo, SuccessInv, Working
  <2>2. CASE CargoCommands(Current) = Error
    BY <1>2, <2>2, StopKeepsSuccessInv DEF StartCargo, BeginNot, history
  <2>3. CASE CargoCommands(Current) # Error
    BY <1>2, <2>1, <2>3, CargoReady, StartKeepsSuccessInv DEF StartCargo, Begin, history
  <2> QED BY <2>2, <2>3
<1>3. CASE StartJavaScript
  <2>1. Current \in Check
    BY <1>3, CurrentIsACheck DEF StartJavaScript, SuccessInv, Working
  <2>2. CASE JavaScriptCommands(Current) = Error
    BY <1>3, <2>2, StopKeepsSuccessInv DEF StartJavaScript, BeginNot, history
  <2>3. CASE JavaScriptCommands(Current) # Error
    BY <1>3, <2>1, <2>3, JavaScriptCommandsReady, StartKeepsSuccessInv
       DEF StartJavaScript, Begin, history
  <2> QED BY <2>2, <2>3
<1>4. CASE StartCommands
  <2>1. Current \in Check
    BY <1>4, CurrentIsACheck DEF StartCommands, SuccessInv, Working
  <2>2. CASE Current.commands = <<>>
    BY <1>4, <2>2, StopKeepsSuccessInv DEF StartCommands, BeginNot, history
  <2>3. CASE Current.commands # <<>>
    BY <1>4, <2>1, <2>3, CustomReady, StartKeepsSuccessInv DEF StartCommands, Begin, history
  <2> QED BY <2>2, <2>3
<1>5. CASE StartNix
  <2>1. CASE NixMode(Current) = Error
    BY <1>5, <2>1, StopKeepsSuccessInv DEF StartNix, history
  <2>2. CASE NixMode(Current) # Error
    BY <1>5, <2>2, NixKeepsSuccessInv DEF StartNix, history
  <2> QED BY <2>1, <2>2
<1>6. CASE Evaluate
  BY <1>6, EvaluateKeepsSuccessInv
<1>7. CASE Refuse \/ RunNot \/ Fail
  BY <1>7, StopKeepsSuccessInv DEF Refuse, RunNot, Fail, history
<1>8. CASE Accept
  BY <1>8, AcceptKeepsSuccessInv DEF PlaceInv, Accept
<1>9. CASE Run
  BY <1>9, RunKeepsSuccessInv
<1>10. CASE Finish
  BY <1>10, FinishKeepsSuccessInv
<1>11. CASE UNCHANGED vars
  <2>1. UNCHANGED <<manifest, selectors, flake, phase, selected, at, todo, inventory, ran, shown>>
    BY <1>11 DEF vars, given
  <2>2. (\A name : RanFor(name)' = RanFor(name)) /\ (\A name : Mentioned(name)' = Mentioned(name))
    BY <2>1 DEF RanFor, Mentioned
  <2>3. Current' = Current
    BY <2>1 DEF Current
  <2>4. SelectionInv' /\ RustcInv'
    BY <2>1 DEF SuccessInv, SelectionInv, RustcInv, Working
  <2>5. WorkInv'
    BY <2>1, <2>2, <2>3 DEF SuccessInv, WorkInv, Working
  <2>6. OrderInv'
    BY <2>1, <2>2 DEF SuccessInv, OrderInv, Working
  <2> QED BY <2>4, <2>5, <2>6 DEF SuccessInv
<1> QED
  BY <1>1, <1>2, <1>3, <1>4, <1>5, <1>6, <1>7, <1>8, <1>9, <1>10, <1>11 DEF Next

LEMMA StandaloneKeepsSuccessInv ==
  ASSUME SuccessInv, PlaceInv, StandaloneNext
  PROVE  SuccessInv'
<1>1. CASE StandaloneSelect
  BY <1>1, SelectKeepsSuccessInv DEF StandaloneSelect, history
<1>2. CASE StandaloneCargo
  <2> DEFINE prefix == CargoPrefix(Current)
             commands == [k \in DOMAIN prefix |-> Nonempty(prefix[k])] \o CargoTurns(Current)
  <2>1. Current \in Check /\ Current.kind = "cargo"
    BY <1>2, CurrentIsACheck DEF StandaloneCargo, SuccessInv, Working
  <2>2. Ready(Current, commands)
    BY <2>1, StandaloneCargoReady
  <2>3. phase' = "run" /\ todo' = commands
    BY <1>2 DEF StandaloneCargo, Begin
  <2> HIDE DEF commands
  <2> QED BY <1>2, <2>1, <2>2, <2>3, StartKeepsSuccessInv DEF StandaloneCargo, history
<1>3. CASE StandaloneJavaScript
  <2>1. Current \in Check
    BY <1>3, CurrentIsACheck DEF StandaloneJavaScript, SuccessInv, Working
  <2>2. CASE JavaScriptTurns(Current) = Error
    BY <1>3, <2>2, StopKeepsSuccessInv DEF StandaloneJavaScript, BeginNot, history
  <2>3. CASE JavaScriptTurns(Current) # Error
    BY <1>3, <2>1, <2>3, JavaScriptTurnsReady, StartKeepsSuccessInv
       DEF StandaloneJavaScript, Begin, history
  <2> QED BY <2>2, <2>3
<1>4. CASE StandaloneNix
  BY <1>4, NixKeepsSuccessInv DEF StandaloneNix, history
<1>5. CASE RefuseMode \/ RefuseKind
  BY <1>5, StopKeepsSuccessInv DEF RefuseMode, RefuseKind, history
<1>6. CASE StartCommands \/ Evaluate \/ Refuse \/ Accept \/ Run \/ RunNot \/ Fail \/ Finish
  BY <1>6, NextKeepsSuccessInv DEF Next
<1> QED
  BY <1>1, <1>2, <1>3, <1>4, <1>5, <1>6 DEF StandaloneNext, StandaloneAccept

LEMMA SuccessHasWorked ==
  ASSUME SuccessInv, phase = "success", NEW name \in ToSet(selectors)
  PROVE  /\ Work(manifest[name], RanFor(name))
         /\ manifest[name].kind = "nix" => shown[name] \notin {None, {}}
<1>1. /\ at \in Nat /\ at \notin DOMAIN selected /\ DOMAIN selected = 1..Len(selected)
      /\ Len(selected) \in Nat /\ name \in ToSet(selected) /\ at # 0
  BY Selected DEF SuccessInv, SelectionInv
<1>2. PICK k \in DOMAIN selected : selected[k] = name
  BY <1>1 DEF ToSet
<1>3. k < at
  BY <1>1
<1> QED BY <1>2, <1>3 DEF SuccessInv, WorkInv

LEMMA SuccessInvIsEnough ==
  ASSUME SuccessInv
  PROVE  NoEmptySuccess /\ SuccessIsComplete
<1>1. NoEmptySuccess
  <2> SUFFICES ASSUME phase = "success" PROVE NoEmptySuccess
    BY DEF NoEmptySuccess
  <2>1. selectors # <<>>
    BY DEF SuccessInv, SelectionInv
  <2> QED BY <2>1, SuccessHasWorked DEF NoEmptySuccess, Work
<1>2. SuccessIsComplete
  <2> SUFFICES ASSUME phase = "success" PROVE SuccessIsComplete
    BY DEF SuccessIsComplete
  <2> QED BY SuccessHasWorked DEF SuccessIsComplete, Work, SuccessInv, OrderInv, RustcInv
<1> QED BY <1>1, <1>2

-----------------------------------------------------------------------------
(* What can still be wrong once the selection has been validated.          *)

\* From here on only the commands of a check with an impossible toolchain are refused.
LEMMA CurrentIsValid ==
  ASSUME SelectionInv, LateInv, program = "ccid", phase \in Working, at <= Len(selected)
  PROVE  Valid(Current)
  BY CurrentIsACheck DEF LateInv, Current

\* A step that begins no commands, and finds nothing invalid.
LEMMA QuietKeepsLateInv ==
  ASSUME LateInv, phase' \notin {"run", "invalid"},
         phase' \in Working => phase \in Working,
         UNCHANGED <<manifest, selected, program>>
  PROVE  LateInv'
  BY DEF LateInv, OnlyToolchainIsLate

LEMMA BeginKeepsLateInv ==
  ASSUME LateInv, phase \in Working, phase' = "run",
         program = "ccid" => Begun(Current, todo'),
         UNCHANGED <<manifest, selected, at, program>>
  PROVE  LateInv'
<1>1. Current' = Current
  BY DEF Current
<1>2. OnlyToolchainIsLate'
  BY DEF OnlyToolchainIsLate
<1> QED BY <1>1, <1>2 DEF LateInv, Working

LEMMA InitImpliesLateInv ==
  ASSUME Init
  PROVE  LateInv
  BY DEF Init, LateInv, OnlyToolchainIsLate, Working

LEMMA NextKeepsLateInv ==
  ASSUME SuccessInv, PlaceInv, LateInv, program = "ccid", Next, UNCHANGED program
  PROVE  LateInv'
<1>1. CASE Select
  <2>1. /\ phase = "select" /\ selected' = Distinct(selectors) /\ ran = <<>>
        /\ UNCHANGED <<manifest, ran>>
        /\ \/ /\ phase' \in {"next", "planned"}
              /\ \A name \in ToSet(selectors) : Valid(manifest[name])
           \/ phase' = "invalid"
    BY <1>1 DEF Select, given, history, SuccessInv, SelectionInv
  <2>2. ToSet(selected') = ToSet(selectors)
    BY <2>1, SelectionKnown, DistinctNames DEF SuccessInv
  <2>3. \A k \in DOMAIN selected' : selected'[k] \in ToSet(selectors)
    BY <2>2 DEF ToSet
  <2> QED BY <2>1, <2>3 DEF LateInv, OnlyToolchainIsLate, Working
<1>2. CASE StartCargo
  <2>1. Current \in Check /\ Valid(Current) /\ Current.kind = "cargo"
    BY <1>2, CurrentIsACheck, CurrentIsValid DEF StartCargo, SuccessInv, Working
  <2> QED BY <1>2, <2>1, ValidCargo, BeginKeepsLateInv DEF StartCargo, Begin, Working, given
<1>3. CASE StartJavaScript
  <2>1. Valid(Current) /\ Current.kind = "javascript"
    BY <1>3, CurrentIsValid DEF StartJavaScript, SuccessInv, Working
  <2> QED BY <1>3, <2>1, ValidJavaScript, BeginKeepsLateInv
          DEF StartJavaScript, Begin, Working, given
<1>4. CASE StartCommands
  <2>1. Valid(Current) /\ Current.kind = "commands"
    BY <1>4, CurrentIsValid DEF StartCommands, SuccessInv, Working
  <2> QED BY <1>4, <2>1, ValidCustom, BeginKeepsLateInv
          DEF StartCommands, Begin, Working, given
<1>5. CASE StartNix
  <2>1. Valid(Current) /\ Current.kind = "nix"
    BY <1>5, CurrentIsValid DEF StartNix, SuccessInv, Working
  <2>2. phase' \in {"evaluate", "judge"}
    BY <1>5, <2>1, ValidNixMode DEF StartNix
  <2> QED BY <1>5, <2>2, QuietKeepsLateInv DEF StartNix, Working, given
<1>6. CASE Evaluate \/ Refuse \/ Fail \/ Finish
  BY <1>6, QuietKeepsLateInv DEF Evaluate, Refuse, Fail, Finish, Working, given
<1>7. CASE Accept
  <2>1. phase = "judge" /\ Current.kind = "nix" /\ Valid(Current)
    <3>1. phase = "judge" /\ at <= Len(selected)
      BY <1>7, Selected DEF Accept, SuccessInv, SelectionInv
    <3> QED BY <3>1, CurrentIsValid DEF SuccessInv, Working, PlaceInv
  <2>2. CASE NixMode(Current) = "list"
    BY <1>7, <2>1, <2>2, QuietKeepsLateInv DEF Accept, Working, given
  <2>3. CASE NixMode(Current) # "list"
    BY <1>7, <2>1, <2>3, ValidNixMode, BeginKeepsLateInv DEF Accept, Working, given
  <2> QED BY <2>2, <2>3
<1>8. CASE Run
  <2>1. /\ phase = "run" /\ todo' = Tail(todo) /\ UNCHANGED <<manifest, selected>>
        /\ \/ phase' = "next"
           \/ phase' = "run" /\ at' = at
    BY <1>8 DEF Run, given
  <2>2. CASE phase' = "next"
    BY <2>1, <2>2, QuietKeepsLateInv DEF Working
  <2>3. CASE phase' = "run" /\ at' = at
    <3>1. ToSet(todo') \subseteq ToSet(todo)
      BY <2>1, TailElements DEF SuccessInv, SelectionInv
    <3>2. Begun(Current, todo')
      BY <2>1, <3>1 DEF LateInv, Begun
    <3> QED BY <2>1, <2>3, <3>2, BeginKeepsLateInv DEF Working
  <2> QED BY <2>1, <2>2, <2>3
<1>9. CASE RunNot
  <2>1. /\ phase = "run" /\ ~Runnable(Head(todo)) /\ phase' = "invalid"
        /\ UNCHANGED <<manifest, selected, at>>
    BY <1>9 DEF RunNot, given
  <2>2. Head(todo) \in ToSet(todo)
    BY <2>1, TailElements DEF SuccessInv, SelectionInv
  <2>3. Current.kind = "cargo" /\ Current.toolchain = Nul
    BY <2>1, <2>2 DEF LateInv, Begun
  <2>4. Current' = Current
    BY <2>1 DEF Current
  <2> QED BY <2>1, <2>3, <2>4 DEF LateInv, OnlyToolchainIsLate, Working
<1> QED
  BY <1>1, <1>2, <1>3, <1>4, <1>5, <1>6, <1>7, <1>8, <1>9 DEF Next

LEMMA BothKeepLateInv ==
  ASSUME SuccessInv, PlaceInv, LateInv, [BothNext]_bothVars
  PROVE  LateInv'
<1>1. CASE program = "ccid" /\ Next /\ UNCHANGED program
  BY <1>1, NextKeepsLateInv
<1>2. CASE program = "ccid.py" /\ UNCHANGED program
  BY <1>2 DEF LateInv
<1>3. CASE UNCHANGED bothVars
  BY <1>3 DEF bothVars, vars, given, history, LateInv, Begun, Current, OnlyToolchainIsLate
<1> QED BY <1>1, <1>2, <1>3 DEF BothNext

\* Each step, of either program, keeps all of this.
LEMMA BothKeepInvariants ==
  ASSUME IInv, SuccessInv, LateInv, [BothNext]_bothVars
  PROVE  IInv' /\ SuccessInv' /\ LateInv'
<1>1. IInv'
  BY NextKeepsIInv, StandaloneKeepsIInv DEF BothNext, bothVars
<1>2. SuccessInv'
  BY NextKeepsSuccessInv, StandaloneKeepsSuccessInv DEF BothNext, bothVars, IInv
<1>3. LateInv'
  BY BothKeepLateInv DEF IInv
<1> QED BY <1>1, <1>2, <1>3

\* The selection, the work done, its order and the version of Rust, as the parts of
\* SuccessInv say, in every state of either program.
THEOREM WorkIsKnown == BothSpec => [](SuccessInv /\ LateInv)
<1>1. BothInit => IInv /\ SuccessInv /\ LateInv
  BY InitImpliesIInv, InitImpliesSuccessInv, InitImpliesLateInv DEF BothInit
<1>2. IInv /\ SuccessInv /\ LateInv /\ [BothNext]_bothVars => IInv' /\ SuccessInv' /\ LateInv'
  BY BothKeepInvariants
<1> QED BY <1>1, <1>2, PTL DEF BothSpec

\* A run that succeeds has examined something for each check asked for, and has accepted
\* each Nix check by an inventory that is there and not empty, in either program.
THEOREM SuccessIsNeverEmpty == BothSpec => []NoEmptySuccess
<1>1. SuccessInv => NoEmptySuccess
  BY SuccessInvIsEnough
<1> QED BY <1>1, WorkIsKnown, PTL

\* A run that succeeds has done all that the manifest asks of the selected checks, check by
\* check in the order of first mention and each check once, in either program, though
\* the standalone one finds out only on the way what it has been asked.
THEOREM SuccessLeavesNothingOut == BothSpec => []SuccessIsComplete
<1>1. SuccessInv => SuccessIsComplete
  BY SuccessInvIsEnough
<1> QED BY <1>1, WorkIsKnown, PTL

\* In the Rust program no check is found invalid after another has been run, but for a
\* toolchain that no command can name.
THEOREM OnlyToolchainsAreLate == BothSpec => []OnlyStandaloneIsLate
<1>1. LateInv => OnlyStandaloneIsLate
  BY DEF LateInv, OnlyStandaloneIsLate
<1> QED BY <1>1, WorkIsKnown, PTL
=============================================================================
