-------------------------- MODULE ConfigurationProofs --------------------------
(***************************************************************************)
(* Proofs about Configuration, for any files, sessions, targets and        *)
(* bounds: that exactly the sound files are accepted, what executions are  *)
(* pinned to, that authority never expands, that an orchestration's cast   *)
(* is delegated, and that closed sessions are quiet.                       *)
(*                                                                         *)
(* A file is compiled by loops: over the nodes of an orchestration, over   *)
(* what is registered and over the roots of skills.  Each has an invariant *)
(* that says what is true after as many rounds (Sorting, Welcome and       *)
(* Extended, Found), and CompilesTheSound puts them together.              *)
(*                                                                         *)
(* The properties speak of all ancestors; the invariant compares every     *)
(* execution with its parent only, which was created before it, and        *)
(* induction over the numbers of executions leads from one to the other.   *)
(***************************************************************************)
EXTENDS Configuration, SequenceTheorems, FiniteSetTheorems, WellFoundedInduction, TLAPS

Fields == {"session", "parent", "kind", "callable", "node", "state", "target", "revision",
           "authority", "model", "tools", "asked", "skills"}

\* Orchestrations are kept in order, and their cast are agents.
Runs(callables) ==
    \A c \in DOMAIN callables :
        callables[c].kind = "Orchestration" =>
            /\ Listed(callables[c].nodes) /\ InOrder(callables[c].nodes)
            /\ \A a \in Cast(callables[c]) : a \in DOMAIN callables /\ callables[a].kind = "Agent"

\* What an execution may do, under its configuration
Granted(x, configuration) ==
    /\ x.kind = "Root" =>
          x.parent = NoExecution /\ x.authority = Configured(configuration, "Root", None)
    /\ x.kind = "Agent" => x.authority \subseteq configuration.callables[x.callable].authority
    /\ x.kind = "Orchestration" =>
          /\ x.callable \in DOMAIN configuration.callables
          /\ configuration.callables[x.callable].kind = "Orchestration"
          /\ Cast(configuration.callables[x.callable]) \subseteq x.authority

\* What an execution works with, under its configuration
Equipped(x, configuration) ==
    /\ x.model # None =>
          x.model = IF x.target.kind = "Fixed" THEN x.target.to
                    ELSE Routed(configuration, x.target.to, x.callable)
    /\ x.tools \subseteq Permitted(configuration, x.authority)
    /\ \A k \in x.skills : /\ k \in DOMAIN configuration.skills
                           /\ configuration.skills[k].manual => x.asked = k

\* What a child x has of its parent p
Inherits(x, p) ==
    /\ x.revision = p.revision /\ x.target = p.target
    /\ x.authority \subseteq p.authority /\ x.callable \in p.authority

\* The execution e of xs fits sessions ss and revisions rs.
Fits(xs, e, ss, rs) ==
    LET x == xs[e] IN
    /\ DOMAIN x = Fields
    /\ x.session \in DOMAIN ss /\ x.revision \in DOMAIN rs
    /\ x.state \in Live => ss[x.session].open
    /\ x.parent \in Nat /\ x.parent < e
    /\ x.parent # NoExecution => Inherits(x, xs[x.parent])
    /\ x.node # None => x.parent # NoExecution /\ xs[x.parent].kind = "Orchestration"
    /\ Granted(x, rs[x.revision])
    /\ Equipped(x, rs[x.revision])

Good(xs, ss, rs) == Listed(xs) /\ \A e \in DOMAIN xs : Fits(xs, e, ss, rs)

\* Sessions and revisions are what they are made of.
Settled ==
    /\ Listed(revisions) /\ revisions # <<>> /\ Listed(sessions)
    /\ \A r \in DOMAIN revisions : Runs(revisions[r].callables)
    /\ \A s \in DOMAIN sessions :
          /\ DOMAIN sessions[s] = {"revision", "target", "open"}
          /\ sessions[s].revision \in DOMAIN revisions
    /\ offer # None => offer \in FirstFiles \cup LaterFiles

\* The last tool call was within the authority of its caller.
CallIsGranted ==
    call # None =>
        /\ call.by \in DOMAIN executions
        /\ ConfigurationOf(executions, call.by).callables[call.tool].needs
              \subseteq executions[call.by].authority

\* The inductive invariant
Pinned == Settled /\ Good(executions, sessions, revisions) /\ CallIsGranted
-------------------------------------------------------------------------------
(* Sequences and loops. *)

\* The places of a sequence
LEMMA Places ==
    ASSUME NEW xs, Listed(xs)
    PROVE  Len(xs) \in Nat /\ DOMAIN xs = 1..Len(xs)
BY LenProperties DEF Listed

\* A sequence of something is one of what is in it.
LEMMA SequenceOfItsElements ==
    ASSUME NEW S, NEW xs \in Seq(S)
    PROVE  Listed(xs)
<1> DEFINE T == {xs[i] : i \in DOMAIN xs}
<1>1. Len(xs) \in Nat /\ xs \in [1..Len(xs) -> S]
      BY LenProperties
<1>2. xs \in [1..Len(xs) -> T]
      BY <1>1
<1> HIDE DEF T
<1>3. xs \in Seq(T)
      BY <1>1, <1>2, SeqDef
<1>. QED BY <1>3 DEF Listed, T

\* Append to a sequence
LEMMA Appended ==
    ASSUME NEW xs, Listed(xs), NEW y, NEW ys, ys = Append(xs, y)
    PROVE  /\ Listed(ys) /\ Len(xs) \in Nat /\ DOMAIN xs = 1..Len(xs)
           /\ Len(ys) = Len(xs) + 1 /\ DOMAIN ys = 1..(Len(xs) + 1)
           /\ ys[Len(xs) + 1] = y /\ \A i \in DOMAIN xs : ys[i] = xs[i]
<1> DEFINE S == {xs[i] : i \in DOMAIN xs} \cup {y}
<1>1. Len(xs) \in Nat /\ DOMAIN xs = 1..Len(xs)
      BY Places
<1>2. xs \in Seq(S)
      BY SeqMonotonic DEF Listed
<1> HIDE DEF S
<1>3. y \in S
      BY DEF S
<1>4. ys \in Seq(S) /\ Len(ys) = Len(xs) + 1
      BY <1>2, <1>3
<1>5. DOMAIN ys = 1..(Len(xs) + 1)
      BY <1>1, <1>4, LenProperties
<1>6. ys[Len(xs) + 1] = y /\ \A i \in DOMAIN xs : ys[i] = xs[i]
      BY <1>1, <1>2, <1>3
<1>7. Listed(ys)
      BY <1>4, <1>5, SequenceOfItsElements
<1>. QED BY <1>1, <1>4, <1>5, <1>6, <1>7

\* A function on the places of a sequence is one.
LEMMA Replaced ==
    ASSUME NEW xs, Listed(xs), NEW ys, DOMAIN ys = DOMAIN xs, ys = [i \in DOMAIN ys |-> ys[i]]
    PROVE  Listed(ys)
<1> DEFINE S == {ys[i] : i \in DOMAIN ys}
<1>1. Len(xs) \in Nat /\ DOMAIN xs = 1..Len(xs)
      BY Places
<1>2. ys \in [1..Len(xs) -> S]
      BY <1>1
<1> HIDE DEF S
<1>3. ys \in Seq(S)
      BY <1>1, <1>2, SeqDef
<1>. QED BY <1>3 DEF Listed, S

\* Induction, for a set of numbers
LEMMA Induction ==
    ASSUME NEW P, 0 \in P, \A n \in Nat : n \in P => n + 1 \in P
    PROVE  \A n \in Nat : n \in P
<1> DEFINE R == OpToRel(<, Nat)
           T == Nat \ P
<1>1. IsWellFoundedOn(R, Nat)
      BY NatLessThanWellFounded
<1>2. \A x, y \in Nat : y < x => <<y, x>> \in R
      BY DEF OpToRel
<1> HIDE DEF R
<1>3. ASSUME T # {} PROVE FALSE
      <2>1. PICK x \in T : \A y \in T : ~(<<y, x>> \in R)
            BY <1>1, <1>3, WFMin
      <2>2. x \in Nat /\ x # 0
            OBVIOUS
      <2>3. x - 1 \in Nat /\ x - 1 < x /\ (x - 1) + 1 = x
            BY <2>2
      <2>4. x - 1 \in P
            BY <1>2, <2>1, <2>2, <2>3
      <2>. QED BY <2>1, <2>3, <2>4
<1>. QED BY <1>3

\* Of numbers there is a least one.
LEMMA LeastIsLeast ==
    ASSUME NEW S, S \subseteq Nat, S # {}
    PROVE  \E x \in S : \A y \in S : x <= y
<1> DEFINE R == OpToRel(<, Nat)
<1>1. IsWellFoundedOn(R, Nat)
      BY NatLessThanWellFounded
<1>2. \A x, y \in Nat : y < x => <<y, x>> \in R
      BY DEF OpToRel
<1> HIDE DEF R
<1>3. PICK x \in S : \A y \in S : ~(<<y, x>> \in R)
      BY <1>1, WFMin
<1>4. \A y \in S : ~(y < x) /\ x \in Nat /\ y \in Nat
      BY <1>2, <1>3
<1>. QED BY <1>4

LEMMA LeastNumber ==
    ASSUME NEW S, S \subseteq Nat, S # {}
    PROVE  Min(S) \in S
BY LeastIsLeast DEF Min
-------------------------------------------------------------------------------
(* Topological orders. *)

Depends(nodes) == [n \in NodeIds(nodes) |-> NodeNamed(nodes, n).dependsOn]

\* Where the loop of TopologicalOrder starts, and one round of it
FirstRound(nodes) ==
    [order |-> <<>>,
     indegree |-> [n \in NodeIds(nodes) |-> Cardinality(Depends(nodes)[n])],
     ready |-> {n \in NodeIds(nodes) : Depends(nodes)[n] = {}}]

Lowered(nodes, s, n) ==
    [m \in NodeIds(nodes) |-> IF n \in Depends(nodes)[m] THEN s.indegree[m] - 1 ELSE s.indegree[m]]

Taken(nodes, s, n) ==
    [order |-> Append(s.order, n),
     indegree |-> Lowered(nodes, s, n),
     ready |-> (s.ready \ {n})
                  \cup {m \in NodeIds(nodes) : n \in Depends(nodes)[m] /\ Lowered(nodes, s, n)[m] = 0}]

NextRound(nodes, s) == IF s.ready = {} THEN s ELSE Taken(nodes, s, Min(s.ready))

\* The rounds are well defined.
LEMMA Rounds ==
    ASSUME NEW nodes, Len(nodes) \in Nat
    PROVE  \E f : /\ f[0] = FirstRound(nodes)
                  /\ \A k \in 1..Len(nodes) : f[k] = NextRound(nodes, f[k - 1])
                  /\ TopologicalOrder(nodes) = f[Len(nodes)].order
<1> DEFINE Loop(g, n) == g = [k \in 0..n |-> IF k = 0 THEN FirstRound(nodes) ELSE NextRound(nodes, g[k - 1])]
           P == {n \in Nat : \E g : Loop(g, n)}
           f == CHOOSE g : Loop(g, Len(nodes))
<1>1. 0 \in P
      <2>1. Loop([k \in 0..0 |-> FirstRound(nodes)], 0)
            OBVIOUS
      <2>. QED BY <2>1
<1>2. ASSUME NEW n \in Nat, n \in P PROVE n + 1 \in P
      <2>1. PICK g : Loop(g, n)
            BY <1>2
      <2> DEFINE h == [k \in 0..(n + 1) |-> IF k = n + 1 THEN NextRound(nodes, g[n]) ELSE g[k]]
      <2>2. ASSUME NEW k \in 0..(n + 1)
            PROVE  h[k] = IF k = 0 THEN FirstRound(nodes) ELSE NextRound(nodes, h[k - 1])
            <3>1. CASE k = n + 1
                  <4>1. h[n + 1] = NextRound(nodes, g[n]) /\ h[n] = g[n] /\ (n + 1) - 1 = n
                        OBVIOUS
                  <4>. QED BY <3>1, <4>1
            <3>2. CASE k # n + 1
                  <4>1. k \in 0..n /\ h[k] = g[k]
                        BY <3>2
                  <4>2. g[k] = IF k = 0 THEN FirstRound(nodes) ELSE NextRound(nodes, g[k - 1])
                        BY <2>1, <4>1
                  <4>3. k # 0 => h[k - 1] = g[k - 1]
                        BY <3>2
                  <4>. QED BY <4>1, <4>2, <4>3
            <3>. QED BY <3>1, <3>2
      <2>3. Loop(h, n + 1) /\ n + 1 \in Nat
            BY <2>2
      <2> HIDE DEF h
      <2>4. \E k : Loop(k, n + 1)
            BY <2>3
      <2> HIDE DEF Loop
      <2>. QED BY <2>3, <2>4
<1>3. Len(nodes) \in P
      <2> HIDE DEF P
      <2>. QED BY <1>1, <1>2, Induction
<1>4. Loop(f, Len(nodes))
      BY <1>3
<1>5. TopologicalOrder(nodes) = f[Len(nodes)].order
      BY DEF TopologicalOrder, FirstRound, NextRound, Taken, Lowered, Depends
<1> HIDE DEF f
<1>6. f[0] = FirstRound(nodes) /\ \A k \in 1..Len(nodes) : f[k] = NextRound(nodes, f[k - 1])
      BY <1>4
<1>. QED BY <1>5, <1>6

\* Nodes as they are when a definition is sound: numbered, and waiting for known ones
Connected(nodes) ==
    /\ Listed(nodes) /\ NodeIds(nodes) \subseteq Nat
    /\ \A n \in NodeIds(nodes) : Depends(nodes)[n] \subseteq NodeIds(nodes)

\* There are finitely many of them.
LEMMA FiniteNodes ==
    ASSUME NEW nodes, Listed(nodes)
    PROVE  /\ IsFiniteSet(NodeIds(nodes)) /\ Cardinality(NodeIds(nodes)) \in Nat
           /\ Cardinality(NodeIds(nodes)) = Len(nodes) <=>
                 \A i, j \in DOMAIN nodes : nodes[i].id = nodes[j].id => i = j
<1> DEFINE f == [i \in DOMAIN nodes |-> nodes[i].id]
<1>1. Len(nodes) \in Nat /\ DOMAIN nodes = 1..Len(nodes)
      BY Places
<1>2. IsFiniteSet(DOMAIN nodes) /\ Cardinality(DOMAIN nodes) = Len(nodes)
      <2>1. IsFiniteSet(1..Len(nodes)) /\ Cardinality(1..Len(nodes)) = IF 1 > Len(nodes) THEN 0 ELSE Len(nodes) - 1 + 1
            BY <1>1, FS_Interval
      <2>. QED BY <1>1, <2>1
<1>3. f \in Surjection(DOMAIN nodes, NodeIds(nodes))
      BY DEF Surjection, NodeIds
<1>4. f \in Injection(DOMAIN nodes, NodeIds(nodes)) <=>
         \A i, j \in DOMAIN nodes : nodes[i].id = nodes[j].id => i = j
      BY <1>3 DEF Injection, IsInjective, NodeIds
<1> HIDE DEF f
<1>. QED BY <1>2, <1>3, <1>4, FS_Surjection, FS_CardinalityType

\* What is ordered so far
Done(s) == {s.order[i] : i \in DOMAIN s.order}

\* After k rounds: the order is one, what is ready and how much each node waits for.
Sorting(nodes, s, k) ==
    LET ids == NodeIds(nodes)
        depends == Depends(nodes)
    IN /\ s.order \in Seq(ids)
       /\ \A i, j \in DOMAIN s.order : s.order[i] = s.order[j] => i = j
       /\ \A i \in DOMAIN s.order : depends[s.order[i]] \subseteq {s.order[j] : j \in 1..(i - 1)}
       /\ s.ready = {n \in ids \ Done(s) : depends[n] \subseteq Done(s)}
       /\ \A m \in ids : s.indegree[m] = Cardinality(depends[m] \ Done(s))
       /\ s.ready = {} \/ Len(s.order) = k

LEMMA SortingStarts ==
    ASSUME NEW nodes, Connected(nodes)
    PROVE  Sorting(nodes, FirstRound(nodes), 0)
<1> DEFINE s == FirstRound(nodes)
<1>1. s.order = <<>> /\ s.ready = {n \in NodeIds(nodes) : Depends(nodes)[n] = {}}
      BY DEF FirstRound
<1>2. \A m \in NodeIds(nodes) : s.indegree[m] = Cardinality(Depends(nodes)[m])
      BY DEF FirstRound
<1> HIDE DEF s
<1>3. DOMAIN s.order = {} /\ Len(s.order) = 0 /\ s.order \in Seq(NodeIds(nodes))
      BY <1>1
<1>4. Done(s) = {}
      BY <1>3 DEF Done
<1>5. s.ready = {n \in NodeIds(nodes) \ Done(s) : Depends(nodes)[n] \subseteq Done(s)}
      BY <1>1, <1>4
<1>6. \A m \in NodeIds(nodes) : Depends(nodes)[m] \ Done(s) = Depends(nodes)[m]
      BY <1>4
<1>. QED BY <1>2, <1>3, <1>5, <1>6 DEF Sorting, s

LEMMA SortingContinues ==
    ASSUME NEW nodes, Connected(nodes), NEW k \in Nat, NEW s, Sorting(nodes, s, k)
    PROVE  Sorting(nodes, NextRound(nodes, s), k + 1)
<1> DEFINE ids == NodeIds(nodes)
           depends == Depends(nodes)
           n == Min(s.ready)
           t == Taken(nodes, s, n)
<1>1. CASE s.ready = {}
      <2>1. NextRound(nodes, s) = s
            BY <1>1 DEF NextRound
      <2>2. Sorting(nodes, s, k + 1)
            BY <1>1 DEF Sorting
      <2>. QED BY <2>1, <2>2
<1>2. CASE s.ready # {}
      <2>1. n \in s.ready
            BY <1>2, LeastNumber DEF Sorting, Connected
      <2>2. n \in ids /\ n \notin Done(s) /\ depends[n] \subseteq Done(s)
            BY <2>1 DEF Sorting
      <2>3. NextRound(nodes, s) = t
            BY <1>2 DEF NextRound
      <2> HIDE DEF n
      <2>4. /\ t.order = Append(s.order, n)
            /\ t.ready = (s.ready \ {n}) \cup {m \in ids : n \in depends[m] /\ t.indegree[m] = 0}
            /\ \A m \in ids : t.indegree[m] = IF n \in depends[m] THEN s.indegree[m] - 1 ELSE s.indegree[m]
            BY DEF Taken, Lowered
      <2> HIDE DEF t
      <2>5. s.order \in Seq(ids) /\ Listed(s.order)
            BY SequenceOfItsElements DEF Sorting
      <2>6. /\ Len(s.order) \in Nat /\ DOMAIN s.order = 1..Len(s.order)
            /\ Len(t.order) = Len(s.order) + 1 /\ DOMAIN t.order = 1..(Len(s.order) + 1)
            /\ t.order[Len(s.order) + 1] = n /\ \A i \in DOMAIN s.order : t.order[i] = s.order[i]
            BY <2>4, <2>5, Appended
      <2>7. t.order \in Seq(ids)
            BY <2>2, <2>4, <2>5, AppendProperties
      <2>8. Done(t) = Done(s) \cup {n}
            <3>1. Done(t) \subseteq Done(s) \cup {n}
                  BY <2>6 DEF Done
            <3>2. Done(s) \subseteq Done(t)
                  <4>1. DOMAIN s.order \subseteq DOMAIN t.order
                        BY <2>6
                  <4>. QED BY <2>6, <4>1 DEF Done
            <3>3. n \in Done(t)
                  <4>1. Len(s.order) + 1 \in DOMAIN t.order
                        BY <2>6
                  <4>. QED BY <2>6, <4>1 DEF Done
            <3>. QED BY <3>1, <3>2, <3>3
      <2>9. \A i, j \in DOMAIN t.order : t.order[i] = t.order[j] => i = j
            <3>1. \A i \in DOMAIN t.order : i \in DOMAIN s.order \/ i = Len(s.order) + 1
                  BY <2>6
            <3>2. \A i \in DOMAIN s.order : t.order[i] # n
                  BY <2>2, <2>6 DEF Done
            <3>3. \A i, j \in DOMAIN s.order : t.order[i] = t.order[j] => i = j
                  BY <2>6 DEF Sorting
            <3>. QED BY <2>6, <3>1, <3>2, <3>3
      <2>10. ASSUME NEW i \in DOMAIN t.order
             PROVE  depends[t.order[i]] \subseteq {t.order[j] : j \in 1..(i - 1)}
             <3>1. CASE i \in DOMAIN s.order
                   <4>1. depends[s.order[i]] \subseteq {s.order[j] : j \in 1..(i - 1)}
                         BY <3>1 DEF Sorting
                   <4>2. \A j \in 1..(i - 1) : j \in DOMAIN s.order /\ t.order[j] = s.order[j]
                         BY <2>6, <3>1
                   <4>3. {s.order[j] : j \in 1..(i - 1)} \subseteq {t.order[j] : j \in 1..(i - 1)}
                         BY <4>2
                   <4>. QED BY <2>6, <3>1, <4>1, <4>3
             <3>2. CASE i = Len(s.order) + 1
                   <4>1. 1..(i - 1) = DOMAIN s.order
                         BY <2>6, <3>2
                   <4>2. Done(s) \subseteq {t.order[j] : j \in 1..(i - 1)}
                         BY <2>6, <4>1 DEF Done
                   <4>. QED BY <2>2, <2>6, <3>2, <4>2
             <3>. QED BY <2>6, <3>1, <3>2
      <2>11. ASSUME NEW m \in ids
             PROVE  /\ t.indegree[m] = Cardinality(depends[m] \ Done(t))
                    /\ t.indegree[m] = 0 <=> depends[m] \subseteq Done(t)
             <3> DEFINE waits == depends[m] \ Done(s)
             <3>1. depends[m] \subseteq ids /\ IsFiniteSet(ids)
                   BY FiniteNodes DEF Connected
             <3>2. IsFiniteSet(waits) /\ waits \in SUBSET ids
                   BY <3>1, FS_Subset
             <3>3. depends[m] \ Done(t) = waits \ {n}
                   BY <2>8
             <3>4. s.indegree[m] = Cardinality(waits)
                   BY DEF Sorting
             <3>5. n \in waits <=> n \in depends[m]
                   BY <2>2
             <3> HIDE DEF waits
             <3>6. IsFiniteSet(waits \ {n})
                   /\ Cardinality(waits \ {n}) = IF n \in waits THEN Cardinality(waits) - 1 ELSE Cardinality(waits)
                   BY <3>2, FS_RemoveElement
             <3>7. t.indegree[m] = Cardinality(depends[m] \ Done(t))
                   BY <2>4, <3>3, <3>4, <3>5, <3>6
             <3>8. t.indegree[m] = 0 <=> depends[m] \ Done(t) = {}
                   BY <3>3, <3>6, <3>7, FS_EmptySet
             <3>. QED BY <3>7, <3>8
      <2>12. t.ready = {m \in ids \ Done(t) : depends[m] \subseteq Done(t)}
             <3>1. s.ready = {m \in ids \ Done(s) : depends[m] \subseteq Done(s)}
                   BY DEF Sorting
             <3>2. ASSUME NEW m \in t.ready PROVE m \in ids \ Done(t) /\ depends[m] \subseteq Done(t)
                   <4>1. CASE m \in s.ready \ {n}
                         BY <2>8, <3>1, <4>1
                   <4>2. CASE m \in ids /\ n \in depends[m] /\ t.indegree[m] = 0
                         <5>1. depends[m] \subseteq Done(t)
                               BY <2>11, <4>2
                         <5>2. m \notin Done(s)
                               <6> SUFFICES ASSUME NEW i \in DOMAIN s.order, m = s.order[i]
                                            PROVE  FALSE
                                   BY DEF Done
                               <6>1. n \in {s.order[j] : j \in 1..(i - 1)}
                                     BY <4>2 DEF Sorting
                               <6>2. 1..(i - 1) \subseteq DOMAIN s.order
                                     BY <2>6
                               <6>. QED BY <2>2, <6>1, <6>2 DEF Done
                         <5>3. m # n
                               BY <2>2, <4>2
                         <5>. QED BY <2>8, <4>2, <5>1, <5>2, <5>3
                   <4>. QED BY <2>4, <3>2, <4>1, <4>2
             <3>3. ASSUME NEW m \in ids, m \notin Done(t), depends[m] \subseteq Done(t) PROVE m \in t.ready
                   <4>1. CASE n \in depends[m]
                         BY <2>4, <2>11, <3>3, <4>1
                   <4>2. CASE n \notin depends[m]
                         BY <2>4, <2>8, <3>1, <3>3, <4>2
                   <4>. QED BY <4>1, <4>2
             <3>. QED BY <3>2, <3>3
      <2>13. Len(t.order) = k + 1
             BY <1>2, <2>6 DEF Sorting
      <2>14. Sorting(nodes, t, k + 1)
             BY <2>7, <2>9, <2>10, <2>11, <2>12, <2>13 DEF Sorting
      <2>. QED BY <2>3, <2>14
<1>. QED BY <1>1, <1>2

\* Whatever the dependencies are, the order lists nodes.
LEMMA OrderIsOfNodes ==
    ASSUME NEW nodes, Len(nodes) \in Nat, NodeIds(nodes) \subseteq Nat
    PROVE  TopologicalOrder(nodes) \in Seq(NodeIds(nodes))
<1> DEFINE OfNodes(s) == s.order \in Seq(NodeIds(nodes)) /\ s.ready \subseteq NodeIds(nodes)
<1>1. PICK f : /\ f[0] = FirstRound(nodes)
               /\ \A k \in 1..Len(nodes) : f[k] = NextRound(nodes, f[k - 1])
               /\ TopologicalOrder(nodes) = f[Len(nodes)].order
      BY Rounds
<1>2. OfNodes(FirstRound(nodes))
      BY DEF FirstRound
<1>3. ASSUME NEW s, OfNodes(s) PROVE OfNodes(NextRound(nodes, s))
      <2>1. CASE s.ready = {}
            BY <1>3, <2>1 DEF NextRound
      <2>2. CASE s.ready # {}
            <3> DEFINE n == Min(s.ready)
            <3>1. n \in NodeIds(nodes)
                  BY <1>3, <2>2, LeastNumber
            <3>2. NextRound(nodes, s) = Taken(nodes, s, n)
                  BY <2>2 DEF NextRound
            <3> HIDE DEF n
            <3>3. Append(s.order, n) \in Seq(NodeIds(nodes))
                  BY <1>3, <3>1
            <3>4. OfNodes(Taken(nodes, s, n))
                  BY <1>3, <3>3 DEF Taken
            <3>. QED BY <3>2, <3>4
      <2>. QED BY <2>1, <2>2
<1> HIDE DEF OfNodes
<1> DEFINE Q == {n \in Nat : n <= Len(nodes) => OfNodes(f[n])}
<1>4. 0 \in Q
      BY <1>1, <1>2
<1>5. ASSUME NEW n \in Nat, n \in Q PROVE n + 1 \in Q
      <2> SUFFICES ASSUME n + 1 <= Len(nodes) PROVE OfNodes(f[n + 1])
          OBVIOUS
      <2>1. n + 1 \in 1..Len(nodes) /\ (n + 1) - 1 = n
            OBVIOUS
      <2>2. f[n + 1] = NextRound(nodes, f[n])
            BY <1>1, <2>1
      <2>. QED BY <1>3, <1>5, <2>2
<1>6. Len(nodes) \in Q
      <2> HIDE DEF Q
      <2>. QED BY <1>4, <1>5, Induction
<1>. QED BY <1>1, <1>6 DEF OfNodes

\* What the loop has when it ends
LEMMA SortingEnds ==
    ASSUME NEW nodes, Connected(nodes)
    PROVE  \E s : Sorting(nodes, s, Len(nodes)) /\ TopologicalOrder(nodes) = s.order
<1>1. Len(nodes) \in Nat
      BY Places DEF Connected
<1>2. PICK f : /\ f[0] = FirstRound(nodes)
               /\ \A k \in 1..Len(nodes) : f[k] = NextRound(nodes, f[k - 1])
               /\ TopologicalOrder(nodes) = f[Len(nodes)].order
      BY <1>1, Rounds
<1> DEFINE Q == {n \in Nat : n <= Len(nodes) => Sorting(nodes, f[n], n)}
<1>3. 0 \in Q
      BY <1>2, SortingStarts
<1>4. ASSUME NEW n \in Nat, n \in Q PROVE n + 1 \in Q
      <2> SUFFICES ASSUME n + 1 <= Len(nodes) PROVE Sorting(nodes, f[n + 1], n + 1)
          OBVIOUS
      <2>1. n + 1 \in 1..Len(nodes) /\ (n + 1) - 1 = n /\ n <= Len(nodes)
            BY <1>1
      <2>2. f[n + 1] = NextRound(nodes, f[n])
            BY <1>2, <2>1
      <2>3. Sorting(nodes, f[n], n)
            BY <1>4, <2>1
      <2>. QED BY <2>2, <2>3, SortingContinues
<1>5. Len(nodes) \in Q
      <2> HIDE DEF Q
      <2>. QED BY <1>1, <1>3, <1>4, Induction
<1>. QED BY <1>1, <1>2, <1>5

\* A node by its name, where names are not used twice
LEMMA Named ==
    ASSUME NEW nodes, NEW n \in NodeIds(nodes)
    PROVE  /\ \E i \in DOMAIN nodes : NodeNamed(nodes, n) = nodes[i] /\ nodes[i].id = n
           /\ \A i \in DOMAIN nodes :
                 /\ nodes[i].id = n
                 /\ \A j, k \in DOMAIN nodes : nodes[j].id = nodes[k].id => j = k
                 => NodeNamed(nodes, n) = nodes[i]
<1> DEFINE p == CHOOSE i \in DOMAIN nodes : nodes[i].id = n
<1>1. p \in DOMAIN nodes /\ nodes[p].id = n
      BY DEF NodeIds
<1>2. NodeNamed(nodes, n) = nodes[p]
      BY DEF NodeNamed
<1> HIDE DEF p
<1>. QED BY <1>1, <1>2

\* The order is complete exactly if nothing waits for itself, and then each node
\* comes after what it depends on.
LEMMA OrderIsTopological ==
    ASSUME NEW nodes, Listed(nodes), NodeIds(nodes) \subseteq Nat,
           \A i, j \in DOMAIN nodes : nodes[i].id = nodes[j].id => i = j,
           \A i \in DOMAIN nodes : nodes[i].dependsOn \subseteq NodeIds(nodes),
           NEW order, order = TopologicalOrder(nodes)
    PROVE  /\ order \in Seq(NodeIds(nodes))
           /\ \A i, j \in DOMAIN order : order[i] = order[j] => i = j
           /\ Len(order) = Len(nodes) => {order[i] : i \in DOMAIN order} = NodeIds(nodes)
           /\ Len(order) = Len(nodes) <=> Acyclic(nodes)
           /\ \A i \in DOMAIN order :
                 NodeNamed(nodes, order[i]).dependsOn \subseteq {order[j] : j \in 1..(i - 1)}
<1> DEFINE ids == NodeIds(nodes)
           depends == Depends(nodes)
<1>1. \A i \in DOMAIN nodes : nodes[i].id \in ids /\ depends[nodes[i].id] = nodes[i].dependsOn
      BY Named DEF Depends, NodeIds
<1>2. Connected(nodes)
      <2>1. \A n \in ids : depends[n] \subseteq ids
            BY <1>1 DEF NodeIds
      <2>. QED BY <2>1 DEF Connected
<1>3. PICK s : Sorting(nodes, s, Len(nodes)) /\ order = s.order
      BY <1>2, SortingEnds
<1>4. order \in Seq(ids) /\ \A i, j \in DOMAIN order : order[i] = order[j] => i = j
      BY <1>3 DEF Sorting
<1>5. \A i \in DOMAIN order : depends[order[i]] \subseteq {order[j] : j \in 1..(i - 1)}
      <2> SUFFICES ASSUME NEW i \in DOMAIN order
                   PROVE  depends[order[i]] \subseteq {order[j] : j \in 1..(i - 1)}
          OBVIOUS
      <2>1. depends[s.order[i]] \subseteq {s.order[j] : j \in 1..(i - 1)}
            BY <1>3 DEF Sorting
      <2>2. {s.order[j] : j \in 1..(i - 1)} = {order[j] : j \in 1..(i - 1)}
            BY <1>3
      <2>. QED BY <1>3, <2>1, <2>2
<1>6. /\ Len(order) \in Nat /\ DOMAIN order = 1..Len(order)
      /\ Len(nodes) \in Nat /\ DOMAIN nodes = 1..Len(nodes)
      BY <1>4, Places, LenProperties
<1>7. IsFiniteSet(ids) /\ Cardinality(ids) = Len(nodes)
      BY FiniteNodes
<1> DEFINE done == {order[i] : i \in DOMAIN order}
<1>8. done = Done(s) /\ done \subseteq ids
      BY <1>3, <1>4, <1>6, ElementOfSeq DEF Done
<1>9. IsFiniteSet(done) /\ Cardinality(done) = Len(order)
      <2>1. order \in Bijection(1..Len(order), done)
            BY <1>4, <1>6 DEF Bijection, Injection, IsInjective, Surjection
      <2>2. ExistsBijection(1..Len(order), done)
            BY <2>1 DEF ExistsBijection
      <2> HIDE DEF done
      <2>. QED BY <1>6, <1>7, <1>8, <2>2, FS_CountingElements, FS_Subset
<1>10. Len(order) = Len(nodes) <=> done = ids
       <2> HIDE DEF done
       <2>. QED BY <1>7, <1>8, <1>9, FS_Subset
<1>11. ASSUME done # ids, Acyclic(nodes) PROVE FALSE
       <2>1. Len(order) # Len(nodes)
             BY <1>10, <1>11
       <2>2. s.ready = {}
             BY <1>3, <2>1 DEF Sorting
       <2>3. \A n \in ids \ done : \E m \in ids \ done : m \in depends[n]
             BY <1>2, <1>3, <1>8, <2>2 DEF Sorting, Connected
       <2> DEFINE S == {i \in DOMAIN nodes : nodes[i].id \notin done}
       <2>4. S \in SUBSET DOMAIN nodes /\ S # {}
             BY <1>8, <1>11 DEF NodeIds
       <2>5. PICK i \in S : \A j \in S : nodes[j].id \notin nodes[i].dependsOn
             BY <1>11, <2>4 DEF Acyclic
       <2>6. PICK m \in ids \ done : m \in nodes[i].dependsOn
             BY <1>1, <2>3, <2>5
       <2>7. PICK j \in DOMAIN nodes : nodes[j].id = m
             BY <2>6 DEF NodeIds
       <2>. QED BY <2>5, <2>6, <2>7
<1>12. ASSUME done = ids PROVE Acyclic(nodes)
       <2> SUFFICES ASSUME NEW S \in SUBSET DOMAIN nodes, S # {}
                    PROVE  \E i \in S : \A j \in S : nodes[j].id \notin nodes[i].dependsOn
           BY DEF Acyclic
       <2> DEFINE T == {p \in DOMAIN order : \E i \in S : nodes[i].id = order[p]}
       <2>1. T \subseteq Nat /\ T # {}
             <3>1. PICK i \in S : TRUE
                   OBVIOUS
             <3>2. nodes[i].id \in done
                   BY <1>1, <1>12
             <3>. QED BY <1>6, <3>1, <3>2
       <2>2. PICK p \in T : \A q \in T : p <= q
             BY <2>1, LeastIsLeast
       <2>3. PICK i \in S : nodes[i].id = order[p]
             BY <2>2
       <2>4. ASSUME NEW j \in S, nodes[j].id \in nodes[i].dependsOn PROVE FALSE
             <3>1. nodes[j].id \in {order[q] : q \in 1..(p - 1)}
                   BY <1>1, <1>5, <2>2, <2>3, <2>4
             <3>2. PICK q \in 1..(p - 1) : order[q] = nodes[j].id
                   BY <3>1
             <3>3. q \in DOMAIN order /\ q < p
                   BY <1>6, <2>2, <3>2
             <3>4. q \in T
                   BY <3>2, <3>3
             <3>. QED BY <1>6, <2>2, <3>3, <3>4
       <2>. QED BY <2>4
<1>13. ASSUME NEW i \in DOMAIN order
       PROVE  NodeNamed(nodes, order[i]).dependsOn \subseteq {order[j] : j \in 1..(i - 1)}
       <2>1. order[i] \in ids
             BY <1>8
       <2>2. NodeNamed(nodes, order[i]).dependsOn = depends[order[i]]
             BY <2>1 DEF Depends
       <2>. QED BY <1>5, <2>2
<1>. QED BY <1>4, <1>10, <1>11, <1>12, <1>13
-------------------------------------------------------------------------------
(* Registries. *)

AgentsIn(registry) == {c \in DOMAIN registry : registry[c].kind = "Agent"}

\* An orchestration as a file's type lets it through
IsOrchestration(d) ==
    /\ DOMAIN d = {"id", "kind", "nodes", "interface", "asks"}
    /\ Listed(d.nodes)
    /\ \A j \in DOMAIN d.nodes : d.nodes[j].id \in Nat

\* What is registered joins what was, and takes nobody's place.
LEMMA Joined ==
    ASSUME NEW registry, NEW id, NEW entry, NEW r, r = With(registry, id, entry), id \notin DOMAIN registry
    PROVE  /\ DOMAIN r = DOMAIN registry \cup {id} /\ r[id] = entry
           /\ \A c \in DOMAIN registry : r[c] = registry[c]
BY DEF With

\* An orchestration is accepted exactly if it is feasible and its name is new; its
\* nodes are then kept in order.
LEMMA OrchestrationRegistered ==
    ASSUME NEW registry, NEW d, IsOrchestration(d)
    PROVE  /\ RegisterOrchestration(registry, d) # {} <=>
                 d.id \notin DOMAIN registry /\ Feasible(d, AgentsIn(registry))
           /\ \A r \in RegisterOrchestration(registry, d) :
                 /\ d.id \notin DOMAIN registry
                 /\ \E e : /\ r = With(registry, d.id, e) /\ e.kind = "Orchestration"
                           /\ Listed(e.nodes) /\ InOrder(e.nodes) /\ Cast(e) \subseteq AgentsIn(registry)
                           /\ Reordered(e, d)
<1> DEFINE nodes == d.nodes
           ids == [j \in DOMAIN nodes |-> nodes[j].id]
           distinct == \A i, j \in DOMAIN nodes : nodes[i].id = nodes[j].id => i = j
           order == TopologicalOrder(nodes)
           kept == [i \in DOMAIN order |-> NodeNamed(nodes, order[i])]
           e == [d EXCEPT !.nodes = kept]
           sound == /\ d.kind = "Orchestration"
                    /\ nodes # <<>>
                    /\ d.interface # None => IsAgent(registry, d.interface)
                    /\ Cardinality(NodeIds(nodes)) = Len(nodes)
                    /\ \A i \in DOMAIN nodes : /\ IsAgent(registry, nodes[i].callable)
                                               /\ nodes[i].dependsOn \subseteq NodeIds(nodes)
           complete == Len(order) = Len(nodes)
<1>1. RegisterOrchestration(registry, d) =
         IF ~sound \/ ~complete THEN {} ELSE Inserted(registry, e, "Orchestration")
      BY DEF RegisterOrchestration, Refused
<1>2. Listed(nodes) /\ NodeIds(nodes) \subseteq Nat
      BY DEF IsOrchestration, NodeIds
<1>3. ToSet(ids) = NodeIds(nodes) /\ (IsInjective(ids) <=> distinct)
      BY DEF ToSet, NodeIds, IsInjective
<1>4. Cardinality(NodeIds(nodes)) = Len(nodes) <=> distinct
      BY <1>2, FiniteNodes
<1>5. /\ d.interface # None => IsAgent(registry, d.interface)
      /\ \A i \in DOMAIN nodes : IsAgent(registry, nodes[i].callable)
      <=> Cast(d) \subseteq AgentsIn(registry)
      BY DEF Cast, IsAgent, AgentsIn
<1>6. ASSUME sound
      PROVE  /\ order \in Seq(NodeIds(nodes)) /\ (complete <=> Acyclic(nodes))
             /\ \A i, j \in DOMAIN order : order[i] = order[j] => i = j
             /\ complete => {order[i] : i \in DOMAIN order} = NodeIds(nodes)
             /\ distinct
             /\ \A i \in DOMAIN order :
                   NodeNamed(nodes, order[i]).dependsOn \subseteq {order[j] : j \in 1..(i - 1)}
      <2>1. distinct /\ \A i \in DOMAIN nodes : nodes[i].dependsOn \subseteq NodeIds(nodes)
            BY <1>4, <1>6
      <2> HIDE DEF order, sound
      <2>. QED BY <1>2, <2>1, OrderIsTopological DEF order
<1>7. sound /\ complete <=> Feasible(d, AgentsIn(registry))
      <2>1. ASSUME sound, complete PROVE Feasible(d, AgentsIn(registry))
            BY <1>3, <1>4, <1>5, <1>6, <2>1 DEF Feasible
      <2>2. ASSUME Feasible(d, AgentsIn(registry)) PROVE sound
            BY <1>3, <1>4, <1>5, <2>2 DEF Feasible
      <2>3. ASSUME Feasible(d, AgentsIn(registry)) PROVE complete
            BY <1>6, <2>2, <2>3 DEF Feasible
      <2> HIDE DEF sound, complete
      <2>. QED BY <2>1, <2>2, <2>3
<1>8. /\ e.kind = d.kind /\ e.id = d.id /\ e.nodes = kept /\ e.interface = d.interface
      /\ e = [d EXCEPT !.nodes = e.nodes]
      BY DEF IsOrchestration
<1>9. sound => d.kind = "Orchestration"
      OBVIOUS
<1> HIDE DEF e, sound, complete
<1>10. RegisterOrchestration(registry, d) # {} <=>
          d.id \notin DOMAIN registry /\ Feasible(d, AgentsIn(registry))
       BY <1>1, <1>7, <1>8, <1>9 DEF Inserted, Refused
<1>11. ASSUME NEW r \in RegisterOrchestration(registry, d)
       PROVE  /\ d.id \notin DOMAIN registry
              /\ r = With(registry, d.id, e) /\ e.kind = "Orchestration"
              /\ Listed(e.nodes) /\ InOrder(e.nodes) /\ Cast(e) \subseteq AgentsIn(registry)
              /\ Reordered(e, d)
       <2>1. sound /\ complete /\ d.id \notin DOMAIN registry /\ r = With(registry, d.id, e)
             BY <1>1, <1>8, <1>11 DEF Inserted, Refused
       <2>2. /\ order \in Seq(NodeIds(nodes)) /\ distinct
             /\ \A i, j \in DOMAIN order : order[i] = order[j] => i = j
             /\ {order[i] : i \in DOMAIN order} = NodeIds(nodes)
             /\ \A i \in DOMAIN order :
                   NodeNamed(nodes, order[i]).dependsOn \subseteq {order[j] : j \in 1..(i - 1)}
             BY <1>6, <2>1
       <2> HIDE DEF order
       <2>3. Len(order) \in Nat /\ DOMAIN order = 1..Len(order) /\ Listed(order)
             BY <2>2, LenProperties, SequenceOfItsElements
       <2>4. \A i \in DOMAIN order : order[i] \in NodeIds(nodes)
             BY <2>2, <2>3, ElementOfSeq
       <2>5. \A i \in DOMAIN order : \E j \in DOMAIN nodes : kept[i] = nodes[j] /\ kept[i].id = order[i]
             BY <2>4, Named
       <2>6. DOMAIN kept = DOMAIN order /\ Listed(kept)
             BY <2>3, Replaced
       <2>7. \A i \in DOMAIN kept : kept[i].dependsOn \subseteq {order[j] : j \in 1..(i - 1)}
             BY <2>2
       <2> HIDE DEF kept
       <2>8. \A i \in DOMAIN kept : \A j \in 1..(i - 1) : j \in DOMAIN order /\ order[j] = kept[j].id
             BY <2>3, <2>5, <2>6
       <2>9. InOrder(kept)
             <3>1. IsInjective([i \in DOMAIN kept |-> kept[i].id])
                   BY <2>2, <2>5, <2>6 DEF IsInjective
             <3>2. ASSUME NEW i \in DOMAIN kept
                   PROVE  kept[i].dependsOn \subseteq {kept[j].id : j \in 1..(i - 1)}
                   <4>1. {order[j] : j \in 1..(i - 1)} \subseteq {kept[j].id : j \in 1..(i - 1)}
                         BY <2>8
                   <4>. QED BY <2>7, <4>1
             <3>. QED BY <3>1, <3>2 DEF InOrder
       <2>10. Cast(e) \subseteq Cast(d)
              BY <1>8, <2>5, <2>6 DEF Cast
       <2>11. Cast(d) \subseteq AgentsIn(registry)
              BY <1>7, <2>1 DEF Feasible
       <2>12. ToSet(kept) = ToSet(nodes)
              <3>1. ToSet(kept) \subseteq ToSet(nodes)
                    BY <2>5, <2>6 DEF ToSet
              <3>2. ASSUME NEW j \in DOMAIN nodes PROVE nodes[j] \in ToSet(kept)
                    <4>1. nodes[j].id \in {order[i] : i \in DOMAIN order}
                          BY <2>2 DEF NodeIds
                    <4>2. PICK i \in DOMAIN order : order[i] = nodes[j].id
                          BY <4>1
                    <4>3. PICK k \in DOMAIN nodes : kept[i] = nodes[k] /\ kept[i].id = order[i]
                          BY <2>5
                    <4>4. k = j
                          BY <2>2, <4>2, <4>3
                    <4>. QED BY <2>6, <4>2, <4>3, <4>4 DEF ToSet
              <3>3. ToSet(nodes) = {nodes[j] : j \in DOMAIN nodes}
                    BY DEF ToSet
              <3>. QED BY <3>1, <3>2, <3>3
       <2>13. Reordered(e, d)
              BY <1>8, <2>12 DEF Reordered
       <2>. QED BY <1>8, <1>9, <2>1, <2>6, <2>9, <2>10, <2>11, <2>13
<1>. QED BY <1>10, <1>11

Kinds == {"Agent", "Orchestration", "Profile"}

\* What a definition must be, beside new, where some agents are known
Proper(d, kind, agents) ==
    /\ kind = "Agent" => d.kind = "Agent"
    /\ kind = "Orchestration" => Feasible(d, agents)

\* What is kept of it
Recorded(e, d, kind, agents) ==
    /\ kind # "Profile" => e.kind = kind
    /\ kind # "Orchestration" => e = d
    /\ kind = "Orchestration" =>
          /\ Listed(e.nodes) /\ InOrder(e.nodes) /\ Cast(e) \subseteq agents
          /\ Reordered(e, d)

\* One definition
LEMMA Registered ==
    ASSUME NEW registry, NEW d, NEW kind \in Kinds, kind = "Orchestration" => IsOrchestration(d)
    PROVE  /\ Register(registry, d, kind) # {} <=>
                 d.id \notin DOMAIN registry /\ Proper(d, kind, AgentsIn(registry))
           /\ \A r \in Register(registry, d, kind) :
                 /\ d.id \notin DOMAIN registry
                 /\ \E e : r = With(registry, d.id, e) /\ Recorded(e, d, kind, AgentsIn(registry))
<1>1. CASE kind = "Agent"
      <2>1. Register(registry, d, kind) = Inserted(registry, d, "Agent")
            BY <1>1 DEF Register
      <2>. QED BY <1>1, <2>1 DEF Inserted, Refused, Proper, Recorded
<1>2. CASE kind = "Orchestration"
      <2>1. Register(registry, d, kind) = RegisterOrchestration(registry, d)
            BY <1>2 DEF Register
      <2>2. Proper(d, kind, AgentsIn(registry)) <=> Feasible(d, AgentsIn(registry))
            BY <1>2 DEF Proper
      <2>3. \A e : Recorded(e, d, kind, AgentsIn(registry)) <=>
               /\ e.kind = "Orchestration"
               /\ Listed(e.nodes) /\ InOrder(e.nodes) /\ Cast(e) \subseteq AgentsIn(registry)
               /\ Reordered(e, d)
            BY <1>2 DEF Recorded
      <2>. QED BY <1>2, <2>1, <2>2, <2>3, OrchestrationRegistered
<1>3. CASE kind = "Profile"
      <2>1. Register(registry, d, kind) = RegisterProfile(registry, d)
            BY <1>3 DEF Register
      <2>. QED BY <1>3, <2>1 DEF RegisterProfile, Refused, Proper, Recorded
<1>. QED BY <1>1, <1>2, <1>3 DEF Kinds

\* One round of the loop over definitions
RegisterOne(rs, d, kind) == UNION {Register(r, d, kind) : r \in rs}

\* f is what the loop has after each round.
RegistersBy(f, registry, ds, kind) ==
    /\ f[0] = {registry}
    /\ \A i \in 1..Len(ds) : f[i] = RegisterOne(f[i - 1], ds[i], kind)
    /\ RegisterAll(registry, ds, kind) = f[Len(ds)]

\* The loop is well defined.
LEMMA Registrations ==
    ASSUME NEW registry, NEW ds, NEW kind, Len(ds) \in Nat
    PROVE  \E f : RegistersBy(f, registry, ds, kind)
<1> DEFINE start == {registry}
           Round(rs, i) == RegisterOne(rs, ds[i], kind)
           Loop(g, n) == g = [i \in 0..n |-> IF i = 0 THEN start ELSE Round(g[i - 1], i)]
           P == {n \in Nat : \E g : Loop(g, n)}
           f == CHOOSE g : Loop(g, Len(ds))
<1> HIDE DEF start, Round
<1>1. 0 \in P
      <2>1. Loop([i \in 0..0 |-> start], 0)
            OBVIOUS
      <2>. QED BY <2>1
<1>2. ASSUME NEW n \in Nat, n \in P PROVE n + 1 \in P
      <2>1. PICK g : Loop(g, n)
            BY <1>2
      <2> DEFINE h == [i \in 0..(n + 1) |-> IF i = n + 1 THEN Round(g[n], n + 1) ELSE g[i]]
      <2>2. ASSUME NEW i \in 0..(n + 1)
            PROVE  h[i] = IF i = 0 THEN start ELSE Round(h[i - 1], i)
            <3>1. CASE i = n + 1
                  <4>1. h[n + 1] = Round(g[n], n + 1) /\ h[n] = g[n] /\ (n + 1) - 1 = n
                        OBVIOUS
                  <4>. QED BY <3>1, <4>1
            <3>2. CASE i # n + 1
                  <4>1. i \in 0..n /\ h[i] = g[i]
                        BY <3>2
                  <4>2. g[i] = IF i = 0 THEN start ELSE Round(g[i - 1], i)
                        BY <2>1, <4>1
                  <4>3. i # 0 => h[i - 1] = g[i - 1]
                        BY <3>2
                  <4>. QED BY <4>1, <4>2, <4>3
            <3>. QED BY <3>1, <3>2
      <2>3. Loop(h, n + 1) /\ n + 1 \in Nat
            BY <2>2
      <2> HIDE DEF h
      <2>4. \E k : Loop(k, n + 1)
            BY <2>3
      <2> HIDE DEF Loop
      <2>. QED BY <2>3, <2>4
<1>3. Len(ds) \in P
      <2> HIDE DEF P
      <2>. QED BY <1>1, <1>2, Induction
<1>4. Loop(f, Len(ds))
      BY <1>3
<1>5. RegisterAll(registry, ds, kind) = f[Len(ds)]
      BY DEF RegisterAll, RegisterOne, Round, start
<1> HIDE DEF f
<1>6. f[0] = start /\ \A i \in 1..Len(ds) : f[i] = Round(f[i - 1], i)
      BY <1>4
<1>. QED BY <1>5, <1>6 DEF RegistersBy, Round, start

\* The first n definitions have names that are new and distinct, and are proper.
Welcome(registry, ds, kind, n) ==
    \A i \in 1..n : /\ ds[i].id \notin DOMAIN registry
                    /\ \A j \in 1..n : ds[i].id = ds[j].id => i = j
                    /\ Proper(ds[i], kind, AgentsIn(registry))

\* r is registry with the first n definitions.
Extended(r, registry, ds, kind, n) ==
    /\ DOMAIN r = DOMAIN registry \cup {ds[i].id : i \in 1..n}
    /\ \A c \in DOMAIN registry : r[c] = registry[c]
    /\ \A i \in 1..n : Recorded(r[ds[i].id], ds[i], kind, AgentsIn(registry))

\* Agents are added to the agents; orchestrations add none.
LEMMA ExtendedAgents ==
    ASSUME NEW registry, NEW ds, NEW kind, NEW n, NEW r, Extended(r, registry, ds, kind, n),
           \A i \in 1..n : ds[i].id \notin DOMAIN registry
    PROVE  /\ kind = "Agent" => AgentsIn(r) = AgentsIn(registry) \cup {ds[i].id : i \in 1..n}
           /\ kind = "Orchestration" => AgentsIn(r) = AgentsIn(registry)
<1>1. ASSUME kind # "Profile" PROVE \A i \in 1..n : r[ds[i].id].kind = kind
      BY <1>1 DEF Extended, Recorded
<1>. QED BY <1>1 DEF Extended, AgentsIn

\* All of them, one by one
LEMMA AllRegistered ==
    ASSUME NEW registry, NEW ds, Listed(ds), NEW kind \in Kinds,
           kind = "Orchestration" => \A i \in DOMAIN ds : IsOrchestration(ds[i])
    PROVE  /\ RegisterAll(registry, ds, kind) # {} <=> Welcome(registry, ds, kind, Len(ds))
           /\ \A r \in RegisterAll(registry, ds, kind) : Extended(r, registry, ds, kind, Len(ds))
<1>1. Len(ds) \in Nat /\ DOMAIN ds = 1..Len(ds)
      BY Places
<1>2. PICK f : RegistersBy(f, registry, ds, kind)
      BY <1>1, Registrations
<1> DEFINE Right(n) == /\ f[n] # {} <=> Welcome(registry, ds, kind, n)
                       /\ \A r \in f[n] : Extended(r, registry, ds, kind, n)
           Q == {n \in Nat : n <= Len(ds) => Right(n)}
<1>3. 0 \in Q
      <2>1. 1..0 = {}
            OBVIOUS
      <2>2. Welcome(registry, ds, kind, 0) /\ Extended(registry, registry, ds, kind, 0)
            BY <2>1 DEF Welcome, Extended
      <2>. QED BY <1>2, <2>2 DEF RegistersBy
<1>4. ASSUME NEW n \in Nat, n \in Q PROVE n + 1 \in Q
      <2> SUFFICES ASSUME n + 1 <= Len(ds) PROVE Right(n + 1)
          OBVIOUS
      <2> DEFINE d == ds[n + 1]
      <2>1. n + 1 \in 1..Len(ds) /\ (n + 1) - 1 = n /\ n <= Len(ds)
            BY <1>1
      <2>2. f[n + 1] = UNION {Register(r, d, kind) : r \in f[n]}
            BY <1>2, <2>1 DEF RegistersBy, RegisterOne
      <2>3. Right(n)
            BY <1>4, <2>1
      <2>4. kind = "Orchestration" => IsOrchestration(d)
            BY <1>1, <2>1
      <2>5. 1..(n + 1) = (1..n) \cup {n + 1} /\ n + 1 \notin 1..n
            OBVIOUS
      <2> HIDE DEF d
      <2>6. \A r \in f[n] : kind = "Orchestration" => AgentsIn(r) = AgentsIn(registry)
            BY <2>3, ExtendedAgents DEF Welcome
      <2>7. \A r \in f[n] : Proper(d, kind, AgentsIn(r)) <=> Proper(d, kind, AgentsIn(registry))
            BY <2>6 DEF Proper
      <2>8. \A r \in f[n] : \A e : Recorded(e, d, kind, AgentsIn(r)) <=> Recorded(e, d, kind, AgentsIn(registry))
            BY <2>6 DEF Recorded
      <2>9. Welcome(registry, ds, kind, n + 1) <=>
               /\ Welcome(registry, ds, kind, n)
               /\ d.id \notin DOMAIN registry /\ \A i \in 1..n : ds[i].id # d.id
               /\ Proper(d, kind, AgentsIn(registry))
            BY <2>5 DEF Welcome, d
      <2>10. \A r \in f[n] : d.id \notin DOMAIN r <=>
                d.id \notin DOMAIN registry /\ \A i \in 1..n : ds[i].id # d.id
             <3> SUFFICES ASSUME NEW r \in f[n]
                          PROVE  d.id \notin DOMAIN r <=>
                                    d.id \notin DOMAIN registry /\ \A i \in 1..n : ds[i].id # d.id
                 OBVIOUS
             <3>1. DOMAIN r = DOMAIN registry \cup {ds[i].id : i \in 1..n}
                   BY <2>3 DEF Extended
             <3>. QED BY <3>1
      <2>11. ASSUME f[n + 1] # {} PROVE Welcome(registry, ds, kind, n + 1)
             <3>1. PICK r \in f[n] : Register(r, d, kind) # {}
                   BY <2>2, <2>11
             <3>2. d.id \notin DOMAIN r /\ Proper(d, kind, AgentsIn(r))
                   BY <2>4, <3>1, Registered
             <3>. QED BY <2>3, <2>7, <2>9, <2>10, <3>2
      <2>12. ASSUME Welcome(registry, ds, kind, n + 1) PROVE f[n + 1] # {}
             <3>1. PICK r \in f[n] : TRUE
                   BY <2>3, <2>9, <2>12
             <3>2. d.id \notin DOMAIN r /\ Proper(d, kind, AgentsIn(r))
                   BY <2>7, <2>9, <2>10, <2>12
             <3>3. Register(r, d, kind) # {}
                   BY <2>4, <3>2, Registered
             <3>. QED BY <2>2, <3>3
      <2>13. ASSUME NEW q \in f[n + 1] PROVE Extended(q, registry, ds, kind, n + 1)
             <3>1. PICK r \in f[n] : q \in Register(r, d, kind)
                   BY <2>2, <2>13
             <3>2. d.id \notin DOMAIN r
                   BY <2>4, <3>1, Registered
             <3>3. PICK e : q = With(r, d.id, e) /\ Recorded(e, d, kind, AgentsIn(r))
                   BY <2>4, <3>1, Registered
             <3>4. DOMAIN q = DOMAIN r \cup {d.id} /\ q[d.id] = e /\ \A c \in DOMAIN r : q[c] = r[c]
                   <4> DEFINE id == d.id
                   <4> HIDE DEF id
                   <4>1. id \notin DOMAIN r /\ q = With(r, id, e)
                         BY <3>2, <3>3 DEF id
                   <4>2. DOMAIN q = DOMAIN r \cup {id} /\ q[id] = e /\ \A c \in DOMAIN r : q[c] = r[c]
                         BY <4>1 DEF With
                   <4>. QED BY <4>2 DEF id
             <3>5. Recorded(q[d.id], d, kind, AgentsIn(registry))
                   BY <2>8, <3>3, <3>4
             <3>6. /\ DOMAIN r = DOMAIN registry \cup {ds[i].id : i \in 1..n}
                   /\ \A c \in DOMAIN registry : r[c] = registry[c]
                   /\ \A i \in 1..n : Recorded(r[ds[i].id], ds[i], kind, AgentsIn(registry))
                   BY <2>3 DEF Extended
             <3>7. DOMAIN q = DOMAIN registry \cup {ds[i].id : i \in 1..(n + 1)}
                   BY <2>5, <3>4, <3>6 DEF d
             <3>8. \A i \in 1..n : Recorded(q[ds[i].id], ds[i], kind, AgentsIn(registry))
                   BY <3>4, <3>6
             <3>9. \A i \in 1..(n + 1) : Recorded(q[ds[i].id], ds[i], kind, AgentsIn(registry))
                   BY <2>5, <3>5, <3>8 DEF d
             <3>. QED BY <3>4, <3>6, <3>7, <3>9 DEF Extended
      <2>. QED BY <2>11, <2>12, <2>13
<1>5. Len(ds) \in Q
      <2> HIDE DEF Q
      <2>. QED BY <1>1, <1>3, <1>4, Induction
<1>. QED BY <1>1, <1>2, <1>5 DEF RegistersBy
-------------------------------------------------------------------------------
(* Skills. *)

\* One root more
FindMore(sets, root) == UNION {WithRoot(found, root) : found \in sets}

FindsBy(f, roots) ==
    /\ f[0] = {<<>>}
    /\ \A i \in 1..Len(roots) : f[i] = FindMore(f[i - 1], roots[i])
    /\ Discovered(roots) = f[Len(roots)]

\* The loop over the roots is well defined.
LEMMA Discoveries ==
    ASSUME NEW roots, Len(roots) \in Nat
    PROVE  \E f : FindsBy(f, roots)
<1> DEFINE start == {<<>>}
           Round(sets, i) == FindMore(sets, roots[i])
           Loop(g, n) == g = [i \in 0..n |-> IF i = 0 THEN start ELSE Round(g[i - 1], i)]
           P == {n \in Nat : \E g : Loop(g, n)}
           f == CHOOSE g : Loop(g, Len(roots))
<1> HIDE DEF start, Round
<1>1. 0 \in P
      <2>1. Loop([i \in 0..0 |-> start], 0)
            OBVIOUS
      <2>. QED BY <2>1
<1>2. ASSUME NEW n \in Nat, n \in P PROVE n + 1 \in P
      <2>1. PICK g : Loop(g, n)
            BY <1>2
      <2> DEFINE h == [i \in 0..(n + 1) |-> IF i = n + 1 THEN Round(g[n], n + 1) ELSE g[i]]
      <2>2. ASSUME NEW i \in 0..(n + 1)
            PROVE  h[i] = IF i = 0 THEN start ELSE Round(h[i - 1], i)
            <3>1. CASE i = n + 1
                  <4>1. h[n + 1] = Round(g[n], n + 1) /\ h[n] = g[n] /\ (n + 1) - 1 = n
                        OBVIOUS
                  <4>. QED BY <3>1, <4>1
            <3>2. CASE i # n + 1
                  <4>1. i \in 0..n /\ h[i] = g[i]
                        BY <3>2
                  <4>2. g[i] = IF i = 0 THEN start ELSE Round(g[i - 1], i)
                        BY <2>1, <4>1
                  <4>3. i # 0 => h[i - 1] = g[i - 1]
                        BY <3>2
                  <4>. QED BY <4>1, <4>2, <4>3
            <3>. QED BY <3>1, <3>2
      <2>3. Loop(h, n + 1) /\ n + 1 \in Nat
            BY <2>2
      <2> HIDE DEF h
      <2>4. \E k : Loop(k, n + 1)
            BY <2>3
      <2> HIDE DEF Loop
      <2>. QED BY <2>3, <2>4
<1>3. Len(roots) \in P
      <2> HIDE DEF P
      <2>. QED BY <1>1, <1>2, Induction
<1>4. Loop(f, Len(roots))
      BY <1>3
<1>5. Discovered(roots) = f[Len(roots)]
      BY DEF Discovered, FindMore, Round, start
<1> HIDE DEF f
<1>6. f[0] = start /\ \A i \in 1..Len(roots) : f[i] = Round(f[i - 1], i)
      BY <1>4
<1>. QED BY <1>5, <1>6 DEF FindsBy, Round, start

\* The skills of the first n roots, each as the last that has it
Found(skills, roots, n) ==
    /\ DOMAIN skills = UNION {DOMAIN roots[i] : i \in 1..n}
    /\ \A k \in DOMAIN skills :
          \E i \in 1..n : /\ k \in DOMAIN roots[i] /\ skills[k].manual = roots[i][k].manual
                          /\ \A j \in 1..n : k \in DOMAIN roots[j] => j <= i

WellNamed(root) == \A k \in DOMAIN root : root[k].name = k

\* A root's skills join what was found before, and replace those of their names.
LEMMA RootJoins ==
    ASSUME NEW found, NEW root
    PROVE  /\ WithRoot(found, root) # {} <=> WellNamed(root)
           /\ \A skills \in WithRoot(found, root) :
                 /\ DOMAIN skills = DOMAIN found \cup DOMAIN root
                 /\ \A k \in DOMAIN root : skills[k].manual = root[k].manual
                 /\ \A k \in DOMAIN found \ DOMAIN root : skills[k] = found[k]
<1> DEFINE all == [k \in DOMAIN found \cup DOMAIN root |->
                      IF k \in DOMAIN root THEN [manual |-> root[k].manual] ELSE found[k]]
<1>2. WithRoot(found, root) = IF WellNamed(root) THEN {all} ELSE {}
      BY DEF WithRoot, ParsesSkill, WellNamed, Refused
<1>3. /\ DOMAIN all = DOMAIN found \cup DOMAIN root
      /\ \A k \in DOMAIN root : all[k].manual = root[k].manual
      /\ \A k \in DOMAIN found \ DOMAIN root : all[k] = found[k]
      OBVIOUS
<1> HIDE DEF all
<1>. QED BY <1>2, <1>3

\* Skills are found exactly if all are named well, and the last root wins.
LEMMA AllDiscovered ==
    ASSUME NEW roots, Listed(roots)
    PROVE  /\ Discovered(roots) # {} <=> \A i \in DOMAIN roots : WellNamed(roots[i])
           /\ \A skills \in Discovered(roots) : LastRootWins(skills, roots)
<1>1. Len(roots) \in Nat /\ DOMAIN roots = 1..Len(roots)
      BY Places
<1>2. PICK f : FindsBy(f, roots)
      BY <1>1, Discoveries
<1> DEFINE Right(n) == /\ f[n] # {} <=> \A i \in 1..n : WellNamed(roots[i])
                       /\ \A skills \in f[n] : Found(skills, roots, n)
           Q == {n \in Nat : n <= Len(roots) => Right(n)}
<1>3. 0 \in Q
      <2>1. 1..0 = {} /\ DOMAIN <<>> = {}
            OBVIOUS
      <2>2. Found(<<>>, roots, 0)
            BY <2>1 DEF Found
      <2>. QED BY <1>2, <2>1, <2>2 DEF FindsBy
<1>4. ASSUME NEW n \in Nat, n \in Q PROVE n + 1 \in Q
      <2> SUFFICES ASSUME n + 1 <= Len(roots) PROVE Right(n + 1)
          OBVIOUS
      <2> DEFINE root == roots[n + 1]
      <2>1. n + 1 \in 1..Len(roots) /\ (n + 1) - 1 = n /\ n <= Len(roots)
            BY <1>1
      <2>2. f[n + 1] = UNION {WithRoot(found, root) : found \in f[n]}
            BY <1>2, <2>1 DEF FindsBy, FindMore
      <2>3. Right(n)
            BY <1>4, <2>1
      <2>4. 1..(n + 1) = (1..n) \cup {n + 1} /\ \A i \in 1..n : i \in Nat /\ i < n + 1
            OBVIOUS
      <2> HIDE DEF root
      <2>5. f[n + 1] # {} <=> f[n] # {} /\ WellNamed(root)
            <3>1. \A found : WithRoot(found, root) # {} <=> WellNamed(root)
                  BY RootJoins
            <3>. QED BY <2>2, <3>1
      <2>6. f[n + 1] # {} <=> \A i \in 1..(n + 1) : WellNamed(roots[i])
            BY <2>3, <2>4, <2>5 DEF root
      <2>7. ASSUME NEW skills \in f[n + 1] PROVE Found(skills, roots, n + 1)
            <3>1. PICK found \in f[n] : skills \in WithRoot(found, root)
                  BY <2>2, <2>7
            <3>2. /\ DOMAIN skills = DOMAIN found \cup DOMAIN root
                  /\ \A k \in DOMAIN root : skills[k].manual = root[k].manual
                  /\ \A k \in DOMAIN found \ DOMAIN root : skills[k] = found[k]
                  <4>1. \A q \in WithRoot(found, root) :
                           /\ DOMAIN q = DOMAIN found \cup DOMAIN root
                           /\ \A k \in DOMAIN root : q[k].manual = root[k].manual
                           /\ \A k \in DOMAIN found \ DOMAIN root : q[k] = found[k]
                        BY RootJoins
                  <4>. QED BY <3>1, <4>1
            <3>3. Found(found, roots, n)
                  BY <2>3, <3>1
            <3>4. DOMAIN skills = UNION {DOMAIN roots[i] : i \in 1..(n + 1)}
                  BY <2>4, <3>2, <3>3 DEF Found, root
            <3>5. ASSUME NEW k \in DOMAIN skills
                  PROVE  \E i \in 1..(n + 1) :
                            /\ k \in DOMAIN roots[i] /\ skills[k].manual = roots[i][k].manual
                            /\ \A j \in 1..(n + 1) : k \in DOMAIN roots[j] => j <= i
                  <4>1. CASE k \in DOMAIN root
                        <5>1. n + 1 \in 1..(n + 1) /\ \A j \in 1..(n + 1) : j <= n + 1
                              OBVIOUS
                        <5>. QED BY <3>2, <4>1, <5>1 DEF root
                  <4>2. CASE k \notin DOMAIN root
                        <5>1. k \in DOMAIN found /\ skills[k] = found[k]
                              BY <3>2, <3>5, <4>2
                        <5>2. PICK i \in 1..n :
                                 /\ k \in DOMAIN roots[i] /\ found[k].manual = roots[i][k].manual
                                 /\ \A j \in 1..n : k \in DOMAIN roots[j] => j <= i
                              BY <3>3, <5>1 DEF Found
                        <5>3. \A j \in 1..(n + 1) : k \in DOMAIN roots[j] => j <= i
                              BY <2>4, <4>2, <5>2 DEF root
                        <5>. QED BY <2>4, <5>1, <5>2, <5>3
                  <4>. QED BY <4>1, <4>2
            <3>. QED BY <3>4, <3>5 DEF Found
      <2>. QED BY <2>6, <2>7
<1>5. Len(roots) \in Q
      <2> HIDE DEF Q
      <2>. QED BY <1>1, <1>3, <1>4, Induction
<1>6. Discovered(roots) = f[Len(roots)] /\ Right(Len(roots))
      BY <1>1, <1>2, <1>5 DEF FindsBy
<1>7. ASSUME NEW skills \in Discovered(roots) PROVE LastRootWins(skills, roots)
      <2> DEFINE having(k) == {i \in DOMAIN roots : k \in DOMAIN roots[i]}
      <2>1. Found(skills, roots, Len(roots))
            BY <1>6, <1>7
      <2>2. DOMAIN skills = UNION {DOMAIN roots[i] : i \in DOMAIN roots}
            BY <1>1, <2>1 DEF Found
      <2>3. ASSUME NEW k \in DOMAIN skills
            PROVE  skills[k].manual = roots[Max(having(k))][k].manual
            <3>1. PICK i \in 1..Len(roots) :
                     /\ k \in DOMAIN roots[i] /\ skills[k].manual = roots[i][k].manual
                     /\ \A j \in 1..Len(roots) : k \in DOMAIN roots[j] => j <= i
                  BY <2>1 DEF Found
            <3>2. i \in having(k) /\ \A j \in having(k) : i >= j /\ j \in Nat
                  BY <1>1, <3>1
            <3>3. Max(having(k)) \in having(k) /\ Max(having(k)) >= i
                  <4> HIDE DEF having
                  <4>. QED BY <3>2 DEF Max
            <3>4. Max(having(k)) = i
                  <4> DEFINE m == Max(having(k))
                  <4>1. i >= m /\ m \in Nat /\ m >= i
                        <5> HIDE DEF having
                        <5>. QED BY <3>2, <3>3
                  <4> HIDE DEF m
                  <4>2. i \in Nat
                        BY <1>1, <3>1
                  <4>3. m = i
                        BY <4>1, <4>2
                  <4>. QED BY <4>3 DEF m
            <3>. QED BY <3>1, <3>4
      <2>. QED BY <2>2, <2>3 DEF LastRootWins
<1>. QED BY <1>1, <1>6, <1>7
-------------------------------------------------------------------------------
(* Configurations. *)

\* Registering agents and orchestrations leaves those that were there as they were.
LEMMA ExtendedRuns ==
    ASSUME NEW registry, NEW ds, NEW kind \in {"Agent", "Orchestration"}, NEW n, NEW r,
           Extended(r, registry, ds, kind, n), Runs(registry)
    PROVE  Runs(r)
<1> SUFFICES ASSUME NEW c \in DOMAIN r, r[c].kind = "Orchestration"
             PROVE  /\ Listed(r[c].nodes) /\ InOrder(r[c].nodes)
                    /\ \A a \in Cast(r[c]) : a \in DOMAIN r /\ r[a].kind = "Agent"
    BY DEF Runs
<1>1. /\ DOMAIN r = DOMAIN registry \cup {ds[i].id : i \in 1..n}
      /\ \A a \in DOMAIN registry : r[a] = registry[a]
      /\ \A i \in 1..n : Recorded(r[ds[i].id], ds[i], kind, AgentsIn(registry))
      BY DEF Extended
<1>2. \A a \in AgentsIn(registry) : a \in DOMAIN r /\ r[a].kind = "Agent"
      BY <1>1 DEF AgentsIn
<1>3. CASE c \in DOMAIN registry
      <2>1. /\ Listed(registry[c].nodes) /\ InOrder(registry[c].nodes)
            /\ \A a \in Cast(registry[c]) : a \in AgentsIn(registry)
            BY <1>1, <1>3 DEF Runs, AgentsIn
      <2>. QED BY <1>1, <1>2, <1>3, <2>1
<1>4. CASE c \notin DOMAIN registry
      <2>1. PICK i \in 1..n : c = ds[i].id
            BY <1>1, <1>4
      <2>2. Recorded(r[c], ds[i], kind, AgentsIn(registry))
            BY <1>1, <2>1
      <2>3. Listed(r[c].nodes) /\ InOrder(r[c].nodes) /\ Cast(r[c]) \subseteq AgentsIn(registry)
            BY <2>2 DEF Recorded
      <2>. QED BY <1>2, <2>3
<1>. QED BY <1>3, <1>4

\* A sequence after another has no element twice exactly if neither of them has and
\* they have none in common.
LEMMA Concatenated ==
    ASSUME NEW xs, NEW ys, Listed(xs), Listed(ys), NEW zs, zs = xs \o ys
    PROVE  /\ ToSet(zs) = ToSet(xs) \cup ToSet(ys)
           /\ IsInjective(zs) <=>
                 /\ IsInjective(xs) /\ IsInjective(ys)
                 /\ \A i \in DOMAIN xs, j \in DOMAIN ys : xs[i] # ys[j]
<1> DEFINE S == {xs[i] : i \in DOMAIN xs} \cup {ys[i] : i \in DOMAIN ys}
           m == Len(xs)
           n == Len(ys)
<1>1. xs \in Seq(S) /\ ys \in Seq(S)
      BY SeqMonotonic DEF Listed
<1> HIDE DEF S
<1>2. /\ m \in Nat /\ DOMAIN xs = 1..m /\ n \in Nat /\ DOMAIN ys = 1..n
      BY Places
<1>3. /\ Len(zs) = m + n /\ zs \in Seq(S)
      /\ \A i \in 1..m : zs[i] = xs[i]
      /\ \A i \in (m + 1)..(m + n) : zs[i] = ys[i - m]
      BY <1>1, <1>2, ConcatProperties
<1>4. DOMAIN zs = 1..(m + n)
      BY <1>3, LenProperties
<1> HIDE DEF m, n
<1>5. \A j \in 1..n : m + j \in DOMAIN zs /\ zs[m + j] = ys[j]
      <2> SUFFICES ASSUME NEW j \in 1..n PROVE m + j \in DOMAIN zs /\ zs[m + j] = ys[j]
          OBVIOUS
      <2>1. m + j \in (m + 1)..(m + n) /\ (m + j) - m = j /\ m + j \in 1..(m + n)
            BY <1>2
      <2>. QED BY <1>3, <1>4, <2>1
<1>6. \A i \in 1..m : i \in DOMAIN zs /\ zs[i] = xs[i]
      BY <1>2, <1>3, <1>4
<1>7. \A k \in DOMAIN zs : k \in 1..m \/ \E j \in 1..n : k = m + j
      <2> SUFFICES ASSUME NEW k \in DOMAIN zs, k \notin 1..m PROVE \E j \in 1..n : k = m + j
          OBVIOUS
      <2>1. k - m \in 1..n /\ k = m + (k - m)
            BY <1>2, <1>4
      <2>. QED BY <2>1
<1>8. ToSet(zs) = ToSet(xs) \cup ToSet(ys)
      <2>1. ToSet(xs) \cup ToSet(ys) \subseteq ToSet(zs)
            BY <1>2, <1>5, <1>6 DEF ToSet
      <2>2. \A k \in DOMAIN zs : zs[k] \in ToSet(xs) \cup ToSet(ys)
            BY <1>2, <1>5, <1>6, <1>7 DEF ToSet
      <2>3. ToSet(zs) = {zs[k] : k \in DOMAIN zs}
            BY DEF ToSet
      <2>. QED BY <2>1, <2>2, <2>3
<1>9. ASSUME IsInjective(zs)
      PROVE  /\ IsInjective(xs) /\ IsInjective(ys)
             /\ \A i \in DOMAIN xs, j \in DOMAIN ys : xs[i] # ys[j]
      <2>1. IsInjective(xs)
            BY <1>2, <1>6, <1>9 DEF IsInjective
      <2>2. IsInjective(ys)
            <3> SUFFICES ASSUME NEW i \in 1..n, NEW j \in 1..n, ys[i] = ys[j] PROVE i = j
                BY <1>2 DEF IsInjective
            <3>1. m + i = m + j
                  BY <1>5, <1>9 DEF IsInjective
            <3>. QED BY <1>2, <3>1
      <2>3. ASSUME NEW i \in 1..m, NEW j \in 1..n, xs[i] = ys[j] PROVE FALSE
            <3>1. i = m + j
                  BY <1>5, <1>6, <1>9, <2>3 DEF IsInjective
            <3>. QED BY <1>2, <3>1
      <2>. QED BY <1>2, <2>1, <2>2, <2>3
<1>10. ASSUME IsInjective(xs), IsInjective(ys), \A i \in DOMAIN xs, j \in DOMAIN ys : xs[i] # ys[j]
       PROVE  IsInjective(zs)
       <2> SUFFICES ASSUME NEW k \in DOMAIN zs, NEW l \in DOMAIN zs, zs[k] = zs[l] PROVE k = l
           BY DEF IsInjective
       <2>1. CASE k \in 1..m /\ l \in 1..m
             BY <1>2, <1>6, <1>10, <2>1 DEF IsInjective
       <2>2. ASSUME NEW i \in 1..n, k = m + i, NEW j \in 1..n, l = m + j PROVE k = l
             <3>1. zs[k] = ys[i] /\ zs[l] = ys[j]
                   BY <1>5, <2>2
             <3>2. i = j
                   BY <1>2, <1>10, <3>1 DEF IsInjective
             <3>. QED BY <2>2, <3>2
       <2>3. ASSUME k \in 1..m, NEW j \in 1..n, l = m + j PROVE FALSE
             <3>1. zs[k] = xs[k] /\ zs[l] = ys[j]
                   BY <1>5, <1>6, <2>3
             <3>. QED BY <1>2, <1>10, <2>3, <3>1
       <2>4. ASSUME l \in 1..m, NEW j \in 1..n, k = m + j PROVE FALSE
             <3>1. zs[l] = xs[l] /\ zs[k] = ys[j]
                   BY <1>5, <1>6, <2>4
             <3>. QED BY <1>2, <1>10, <2>4, <3>1
       <2>. QED BY <1>7, <2>1, <2>2, <2>3, <2>4
<1>. QED BY <1>8, <1>9, <1>10

\* A file is accepted exactly if it is sound, whatever it is compiled on top of.
LEMMA CompilesTheSound ==
    ASSUME NEW base, NEW file \in FirstFiles \cup LaterFiles
    PROVE  /\ Compile(base, file) # {} <=> Sound(base, file)
           /\ \A compiled \in Compile(base, file) :
                 /\ Runs(base.callables) => Runs(compiled.callables)
                 /\ Carries(compiled, base, file)
                 /\ file.roots # None => LastRootWins(compiled.skills, file.roots)
<1> DEFINE as == file.agents
           os == file.orchestrations
           ps == file.profiles
           callables == base.callables
           names == [i \in DOMAIN as |-> as[i].id]
           others == [i \in DOMAIN os |-> os[i].id]
           profiles == [i \in DOMAIN ps |-> ps[i].id]
           agents == Agents(base) \cup {as[i].id : i \in DOMAIN as}
           A == RegisterAll(callables, as, "Agent")
           C == UNION {RegisterAll(r, os, "Orchestration") : r \in A}
           R == RegisterAll(base.routing, ps, "Profile")
           S == IF file.roots = None THEN {base.skills} ELSE Discovered(file.roots)
           Named1 == IsInjective(names \o others) /\ ToSet(names \o others) \cap DOMAIN callables = {}
           Kinds1 == \A i \in DOMAIN as : as[i].kind = "Agent"
           Flows1 == \A i \in DOMAIN os : Feasible(os[i], agents)
           Profiles1 == IsInjective(profiles) /\ ToSet(profiles) \cap DOMAIN base.routing = {}
           Skills1 == file.roots # None => \A i \in DOMAIN file.roots : WellNamed(file.roots[i])
<1>1. /\ Listed(as) /\ Listed(os) /\ Listed(ps)
      /\ file.roots # None => Listed(file.roots)
      /\ \A i \in DOMAIN os : IsOrchestration(os[i])
      BY FileAssumption DEF IsOrchestration
<1>2. /\ Len(as) \in Nat /\ DOMAIN as = 1..Len(as) /\ Len(os) \in Nat /\ DOMAIN os = 1..Len(os)
      /\ Len(ps) \in Nat /\ DOMAIN ps = 1..Len(ps)
      BY <1>1, Places
<1>3. Compile(base, file) = [callables : C, routing : R, skills : S]
      BY DEF Compile
<1>4. Sound(base, file) <=> Kinds1 /\ Named1 /\ Profiles1 /\ Flows1 /\ Skills1
      BY DEF Sound, WellNamed
<1>5. AgentsIn(callables) = Agents(base)
      BY DEF AgentsIn, Agents
<1>6. /\ A # {} <=> Welcome(callables, as, "Agent", Len(as))
      /\ \A r \in A : Extended(r, callables, as, "Agent", Len(as))
      BY <1>1, AllRegistered DEF Kinds
<1>7. /\ R # {} <=> Welcome(base.routing, ps, "Profile", Len(ps))
      /\ \A r \in R : Extended(r, base.routing, ps, "Profile", Len(ps))
      BY <1>1, AllRegistered DEF Kinds
<1>8. \A r : /\ RegisterAll(r, os, "Orchestration") # {} <=> Welcome(r, os, "Orchestration", Len(os))
             /\ \A q \in RegisterAll(r, os, "Orchestration") : Extended(q, r, os, "Orchestration", Len(os))
      BY <1>1, AllRegistered DEF Kinds
<1>9. S # {} <=> Skills1
      BY <1>1, AllDiscovered
<1>10. ASSUME NEW r \in A
       PROVE  /\ DOMAIN r = DOMAIN callables \cup {as[i].id : i \in DOMAIN as}
              /\ AgentsIn(r) = agents
       <2>1. Extended(r, callables, as, "Agent", Len(as)) /\ Welcome(callables, as, "Agent", Len(as))
             BY <1>6, <1>10
       <2>2. \A i \in 1..Len(as) : as[i].id \notin DOMAIN callables
             BY <2>1 DEF Welcome
       <2>3. AgentsIn(r) = AgentsIn(callables) \cup {as[i].id : i \in 1..Len(as)}
             BY <2>1, <2>2, ExtendedAgents
       <2>4. DOMAIN r = DOMAIN callables \cup {as[i].id : i \in 1..Len(as)}
             BY <2>1 DEF Extended
       <2>. QED BY <1>2, <1>5, <2>3, <2>4
<1>11. R # {} <=> Profiles1
       <2>1. IsInjective(profiles) <=> \A i, j \in DOMAIN ps : ps[i].id = ps[j].id => i = j
             BY DEF IsInjective
       <2>2. ToSet(profiles) = {ps[i].id : i \in DOMAIN ps}
             BY DEF ToSet
       <2>3. R # {} <=> \A i \in DOMAIN ps : /\ ps[i].id \notin DOMAIN base.routing
                                             /\ \A j \in DOMAIN ps : ps[i].id = ps[j].id => i = j
             BY <1>2, <1>7 DEF Welcome, Proper
       <2> HIDE DEF R, profiles
       <2>. QED BY <2>1, <2>2, <2>3
<1>12. C # {} <=> Kinds1 /\ Named1 /\ Flows1
       <2>1. Listed(names) /\ Listed(others) /\ DOMAIN names = DOMAIN as /\ DOMAIN others = DOMAIN os
             BY <1>1, Replaced
       <2>2. /\ ToSet(names \o others) = ToSet(names) \cup ToSet(others)
             /\ IsInjective(names \o others) <=>
                   /\ IsInjective(names) /\ IsInjective(others)
                   /\ \A i \in DOMAIN names, j \in DOMAIN others : names[i] # others[j]
             <3> HIDE DEF names, others
             <3>. QED BY <2>1, Concatenated
       <2>3. Named1 <=> /\ \A i, j \in DOMAIN as : as[i].id = as[j].id => i = j
                        /\ \A i, j \in DOMAIN os : os[i].id = os[j].id => i = j
                        /\ \A i \in DOMAIN as, j \in DOMAIN os : as[i].id # os[j].id
                        /\ \A i \in DOMAIN as : as[i].id \notin DOMAIN callables
                        /\ \A i \in DOMAIN os : os[i].id \notin DOMAIN callables
             <3>1. /\ IsInjective(names) <=> \A i, j \in DOMAIN as : as[i].id = as[j].id => i = j
                   /\ IsInjective(others) <=> \A i, j \in DOMAIN os : os[i].id = os[j].id => i = j
                   BY DEF IsInjective
             <3>2. /\ ToSet(names) = {as[i].id : i \in DOMAIN as}
                   /\ ToSet(others) = {os[i].id : i \in DOMAIN os}
                   BY DEF ToSet
             <3>3. (\A i \in DOMAIN names, j \in DOMAIN others : names[i] # others[j]) <=>
                      \A i \in DOMAIN as, j \in DOMAIN os : as[i].id # os[j].id
                   OBVIOUS
             <3> HIDE DEF names, others
             <3>. QED BY <2>2, <3>1, <3>2, <3>3
       <2>4. A # {} <=> \A i \in DOMAIN as : /\ as[i].id \notin DOMAIN callables /\ as[i].kind = "Agent"
                                             /\ \A j \in DOMAIN as : as[i].id = as[j].id => i = j
             BY <1>2, <1>6 DEF Welcome, Proper
       <2>5. \A r \in A : Welcome(r, os, "Orchestration", Len(os)) <=>
                \A i \in DOMAIN os : /\ os[i].id \notin DOMAIN callables
                                     /\ \A j \in DOMAIN as : as[j].id # os[i].id
                                     /\ \A j \in DOMAIN os : os[i].id = os[j].id => i = j
                                     /\ Feasible(os[i], agents)
             <3> SUFFICES ASSUME NEW r \in A
                          PROVE  Welcome(r, os, "Orchestration", Len(os)) <=>
                                    \A i \in DOMAIN os : /\ os[i].id \notin DOMAIN callables
                                                         /\ \A j \in DOMAIN as : as[j].id # os[i].id
                                                         /\ \A j \in DOMAIN os : os[i].id = os[j].id => i = j
                                                         /\ Feasible(os[i], agents)
                 OBVIOUS
             <3>1. \A i \in DOMAIN os : os[i].id \notin DOMAIN r <=>
                      os[i].id \notin DOMAIN callables /\ \A j \in DOMAIN as : as[j].id # os[i].id
                   BY <1>10
             <3>2. AgentsIn(r) = agents
                   BY <1>10
             <3> HIDE DEF agents, A
             <3>. QED BY <1>2, <3>1, <3>2 DEF Welcome, Proper
       <2>6. C # {} <=> \E r \in A : Welcome(r, os, "Orchestration", Len(os))
             BY <1>8
       <2> HIDE DEF A, C, Named1, agents
       <2>. QED BY <2>3, <2>4, <2>5, <2>6
<1>13. Compile(base, file) # {} <=> C # {} /\ R # {} /\ S # {}
       <2> HIDE DEF C, R, S
       <2>1. ASSUME NEW c \in C, NEW r \in R, NEW s \in S
             PROVE  [callables |-> c, routing |-> r, skills |-> s] \in [callables : C, routing : R, skills : S]
             OBVIOUS
       <2>. QED BY <1>3, <2>1
<1>14. ASSUME NEW compiled \in Compile(base, file)
       PROVE  /\ Runs(callables) => Runs(compiled.callables)
              /\ Carries(compiled, base, file)
              /\ file.roots # None => LastRootWins(compiled.skills, file.roots)
       <2>1. compiled.callables \in C /\ compiled.routing \in R /\ compiled.skills \in S
             BY <1>3, <1>14
       <2>2. file.roots # None => LastRootWins(compiled.skills, file.roots)
             BY <1>1, <2>1, AllDiscovered
       <2>3. PICK r \in A : compiled.callables \in RegisterAll(r, os, "Orchestration")
             BY <2>1
       <2>4. Extended(compiled.callables, r, os, "Orchestration", Len(os))
             BY <1>8, <2>3
       <2>5. Extended(r, callables, as, "Agent", Len(as))
             BY <1>6
       <2>6. Runs(callables) => Runs(r)
             BY <2>5, ExtendedRuns
       <2>7. Runs(r) => Runs(compiled.callables)
             BY <2>4, ExtendedRuns
       <2>8. /\ DOMAIN r = DOMAIN callables \cup {as[i].id : i \in DOMAIN as}
             /\ \A c \in DOMAIN callables : r[c] = callables[c]
             /\ \A i \in DOMAIN as : r[as[i].id] = as[i]
             BY <1>2, <2>5 DEF Extended, Recorded
       <2>9. /\ DOMAIN compiled.callables = DOMAIN r \cup {os[i].id : i \in DOMAIN os}
             /\ \A c \in DOMAIN r : compiled.callables[c] = r[c]
             /\ \A i \in DOMAIN os : Reordered(compiled.callables[os[i].id], os[i])
             BY <1>2, <2>4 DEF Extended, Recorded
       <2>10. /\ DOMAIN compiled.routing = DOMAIN base.routing \cup {ps[i].id : i \in DOMAIN ps}
              /\ \A p \in DOMAIN base.routing : compiled.routing[p] = base.routing[p]
              /\ \A i \in DOMAIN ps : compiled.routing[ps[i].id] = ps[i]
              BY <1>2, <1>7, <2>1 DEF Extended, Recorded
       <2>11. Carries(compiled, base, file)
              BY <2>8, <2>9, <2>10 DEF Carries
       <2>. QED BY <2>2, <2>6, <2>7, <2>11
<1> HIDE DEF C, R, S, Kinds1, Named1, Flows1, Profiles1, Skills1
<1>. QED BY <1>4, <1>9, <1>11, <1>12, <1>13, <1>14
-------------------------------------------------------------------------------
(* Trees.  A parent was created before its children. *)

Climbs(xs) == Listed(xs) /\ \A e \in DOMAIN xs : xs[e].parent \in Nat /\ xs[e].parent < e

\* An execution is its own ancestor; the others are its parent's.
LEMMA AncestorsAreAbove ==
    ASSUME NEW xs, Climbs(xs)
    PROVE  /\ Ancestors(xs, 0) = {}
           /\ \A e \in DOMAIN xs : Ancestors(xs, e) = {e} \cup Ancestors(xs, xs[e].parent)
<1> DEFINE Up(g, x) == IF x = 0 THEN {} ELSE {x} \cup g[xs[x].parent]
           Loop(g, n) == g = [x \in 0..n |-> Up(g, x)]
           P == {n \in Nat : n <= Len(xs) => \E g : Loop(g, n)}
<1>0. Len(xs) \in Nat /\ DOMAIN xs = 1..Len(xs)
      BY Places DEF Climbs
<1>1. 0 \in P
      <2>1. Loop([x \in 0..0 |-> {}], 0)
            OBVIOUS
      <2>. QED BY <2>1
<1>2. ASSUME NEW n \in Nat, n \in P PROVE n + 1 \in P
      <2> SUFFICES ASSUME n + 1 <= Len(xs) PROVE \E k : Loop(k, n + 1)
          OBVIOUS
      <2>1. PICK g : Loop(g, n)
            BY <1>0, <1>2
      <2> DEFINE h == [x \in 0..(n + 1) |-> IF x = n + 1 THEN Up(g, x) ELSE g[x]]
      <2>2. ASSUME NEW x \in 0..(n + 1)
            PROVE  h[x] = Up(h, x)
            <3>1. x # 0 => xs[x].parent \in 0..n /\ xs[x].parent # n + 1
                  BY <1>0 DEF Climbs
            <3>2. x # 0 => h[xs[x].parent] = g[xs[x].parent]
                  BY <3>1
            <3>3. Up(h, x) = Up(g, x)
                  BY <3>2
            <3> HIDE DEF Up
            <3>4. x # n + 1 => x \in 0..n /\ g[x] = Up(g, x)
                  BY <2>1
            <3>. QED BY <3>3, <3>4
      <2>3. Loop(h, n + 1)
            BY <2>2
      <2> HIDE DEF h
      <2>. QED BY <2>3
<1>3. Len(xs) \in P
      <2> HIDE DEF P
      <2>. QED BY <1>0, <1>1, <1>2, Induction
<1> DEFINE f == CHOOSE g : Loop(g, Len(xs))
<1>4. Loop(f, Len(xs))
      <2> HIDE DEF Loop
      <2>1. \E g : Loop(g, Len(xs))
            BY <1>0, <1>3
      <2>. QED BY <2>1
<1>5. \A e : Ancestors(xs, e) = f[e]
      BY DEF Ancestors, NoExecution
<1> HIDE DEF f
<1>6. f[0] = {} /\ \A e \in DOMAIN xs : f[e] = {e} \cup f[xs[e].parent]
      BY <1>0, <1>4
<1>. QED BY <1>5, <1>6

\* A tree has one top, and authority shrinks on the way down from it.
LEMMA AncestorsInherit ==
    ASSUME NEW xs, Climbs(xs),
           \A e \in DOMAIN xs : xs[e].parent # 0 => Inherits(xs[e], xs[xs[e].parent])
    PROVE  \A e \in DOMAIN xs :
              /\ Ancestors(xs, e) \subseteq DOMAIN xs
              /\ \E t \in Ancestors(xs, e) : xs[t].parent = 0
              /\ \A a \in Ancestors(xs, e) :
                    /\ xs[a].revision = xs[e].revision /\ xs[a].target = xs[e].target
                    /\ xs[e].authority \subseteq xs[a].authority
                    /\ a # e => xs[e].callable \in xs[a].authority
<1> DEFINE Holds(e) == 
              /\ Ancestors(xs, e) \subseteq DOMAIN xs
              /\ \E t \in Ancestors(xs, e) : xs[t].parent = 0
              /\ \A a \in Ancestors(xs, e) :
                    /\ xs[a].revision = xs[e].revision /\ xs[a].target = xs[e].target
                    /\ xs[e].authority \subseteq xs[a].authority
                    /\ a # e => xs[e].callable \in xs[a].authority
           P == {n \in Nat : \A e \in DOMAIN xs : e <= n => Holds(e)}
<1>0. Len(xs) \in Nat /\ DOMAIN xs = 1..Len(xs)
      BY Places DEF Climbs
<1>1. 0 \in P
      BY <1>0
<1>2. ASSUME NEW n \in Nat, n \in P PROVE n + 1 \in P
      <2> SUFFICES ASSUME n + 1 \in DOMAIN xs PROVE Holds(n + 1)
          BY <1>0, <1>2
      <2> DEFINE e == n + 1
                 p == xs[e].parent
      <2>1. Ancestors(xs, e) = {e} \cup Ancestors(xs, p) /\ Ancestors(xs, 0) = {}
            BY AncestorsAreAbove
      <2>2. p \in Nat /\ p < e
            BY DEF Climbs
      <2>3. CASE p = 0
            BY <2>1, <2>3
      <2>4. CASE p # 0
            <3>1. p \in DOMAIN xs /\ p <= n
                  BY <1>0, <2>2, <2>4
            <3>2. Holds(p)
                  BY <1>2, <3>1
            <3>3. Inherits(xs[e], xs[p])
                  BY <2>4
            <3>4. ASSUME NEW a \in Ancestors(xs, p)
                  PROVE  /\ xs[a].revision = xs[e].revision /\ xs[a].target = xs[e].target
                         /\ xs[e].authority \subseteq xs[a].authority
                         /\ xs[e].callable \in xs[a].authority
                  BY <3>2, <3>3, <3>4 DEF Inherits
            <3> HIDE DEF p
            <3>. QED BY <2>1, <3>2, <3>4
      <2>. QED BY <2>3, <2>4
<1>3. Len(xs) \in P
      <2> HIDE DEF P
      <2>. QED BY <1>0, <1>1, <1>2, Induction
<1>. QED BY <1>0, <1>3

\* A good tree climbs.
LEMMA GoodClimbs ==
    ASSUME NEW xs, NEW ss, NEW rs, Good(xs, ss, rs)
    PROVE  /\ Climbs(xs)
           /\ \A e \in DOMAIN xs : xs[e].parent # 0 => Inherits(xs[e], xs[xs[e].parent])
BY DEF Good, Fits, Climbs, NoExecution
-------------------------------------------------------------------------------
(* What the invariant implies. *)

\* An execution has the revision of its parent, hence that of its whole tree: by
\* induction over execution numbers, for a parent is older than its child.
LEMMA PinnedTree == Pinned => TreeIsPinned
<1> SUFFICES ASSUME Pinned, NEW e \in DOMAIN executions
             PROVE  LET top == executions[Top(e)]
                        configuration == revisions[top.revision]
                        x == executions[e]
                    IN /\ x.revision = top.revision /\ x.target = top.target
                       /\ x.model # None =>
                             x.model = IF top.target.kind = "Fixed" THEN top.target.to
                                       ELSE Routed(configuration, top.target.to, x.callable)
                       /\ x.tools \subseteq Tools(configuration)
                       /\ \A k \in x.skills :
                             /\ k \in DOMAIN configuration.skills
                             /\ configuration.skills[k].manual => x.asked = k
    BY DEF TreeIsPinned
<1>1. Good(executions, sessions, revisions)
      BY DEF Pinned
<1>2. Top(e) \in Ancestors(executions, e)
      BY <1>1, GoodClimbs, AncestorsInherit DEF Top, NoExecution
<1> DEFINE top == executions[Top(e)]
           x == executions[e]
<1>3. top.revision = x.revision /\ top.target = x.target
      BY <1>1, <1>2, GoodClimbs, AncestorsInherit
<1>4. Equipped(x, revisions[x.revision])
      BY <1>1 DEF Good, Fits
<1> HIDE DEF top, x
<1>5. x.tools \subseteq Tools(revisions[x.revision])
      BY <1>4 DEF Equipped, Permitted
<1>6. /\ x.revision = top.revision /\ x.target = top.target
      /\ x.model # None =>
            x.model = IF top.target.kind = "Fixed" THEN top.target.to
                      ELSE Routed(revisions[top.revision], top.target.to, x.callable)
      /\ x.tools \subseteq Tools(revisions[top.revision])
      /\ \A k \in x.skills :
            /\ k \in DOMAIN revisions[top.revision].skills
            /\ revisions[top.revision].skills[k].manual => x.asked = k
      BY <1>3, <1>4, <1>5 DEF Equipped
<1>. QED BY <1>6 DEF top, x

\* The authority within that of the parent is within that of every ancestor, by
\* the same induction.
LEMMA PinnedAuthority == Pinned => AuthorityNeverExpands
<1> SUFFICES ASSUME Pinned PROVE AuthorityNeverExpands
    OBVIOUS
<1>1. Good(executions, sessions, revisions)
      BY DEF Pinned
<1>2. ASSUME NEW e \in DOMAIN executions, NEW a \in Ancestors(executions, e)
      PROVE  /\ a \in DOMAIN executions /\ executions[a].revision = executions[e].revision
             /\ executions[e].authority \subseteq executions[a].authority
             /\ a # e => executions[e].callable \in executions[a].authority
      BY <1>1, GoodClimbs, AncestorsInherit
<1>3. ASSUME call # None, NEW a \in Ancestors(executions, call.by), executions[a].kind = "Agent"
      PROVE  LET callables == ConfigurationOf(executions, call.by).callables IN
             callables[call.tool].needs \subseteq callables[executions[a].callable].authority
      <2>1. /\ call.by \in DOMAIN executions
            /\ ConfigurationOf(executions, call.by).callables[call.tool].needs
                  \subseteq executions[call.by].authority
            BY <1>3 DEF Pinned, CallIsGranted
      <2>2. /\ a \in DOMAIN executions /\ executions[a].revision = executions[call.by].revision
            /\ executions[call.by].authority \subseteq executions[a].authority
            BY <1>2, <1>3, <2>1
      <2>3. Granted(executions[a], revisions[executions[a].revision])
            BY <1>1, <2>2 DEF Good, Fits
      <2>4. executions[a].authority \subseteq
                revisions[executions[a].revision].callables[executions[a].callable].authority
            BY <1>3, <2>3 DEF Granted
      <2>. QED BY <2>1, <2>2, <2>4 DEF ConfigurationOf
<1>. QED BY <1>2, <1>3 DEF AuthorityNeverExpands

\* What is compiled on top of tools, or of a revision that runs, runs.
LEMMA PinnedAccepts == Pinned => AcceptedIffRunnable
<1> SUFFICES ASSUME Pinned, offer # None, NEW base \in {BuiltIn, revisions[Current]}
             PROVE  /\ Compile(base, offer) # Refused <=> Sound(base, offer)
                    /\ \A compiled \in Compile(base, offer) :
                          /\ Ordered(compiled) /\ Carries(compiled, base, offer)
                          /\ offer.roots # None => LastRootWins(compiled.skills, offer.roots)
    BY DEF AcceptedIffRunnable
<1>1. /\ offer \in FirstFiles \cup LaterFiles /\ Listed(revisions) /\ revisions # <<>>
      /\ \A r \in DOMAIN revisions : Runs(revisions[r].callables)
      BY DEF Pinned, Settled
<1>2. Current \in DOMAIN revisions
      BY <1>1, Places, EmptySeq DEF Listed, Current
<1>3. Runs(BuiltIn.callables)
      BY FileAssumption DEF Runs
<1>4. Runs(base.callables)
      BY <1>1, <1>2, <1>3
<1>5. ASSUME NEW compiled, Runs(compiled.callables) PROVE Ordered(compiled)
      BY <1>5 DEF Runs, Ordered
<1>. QED BY <1>1, <1>4, <1>5, CompilesTheSound DEF Refused

\* What is in order has no cycle: of any nodes, the first waits for none of them.
LEMMA InOrderIsAcyclic ==
    ASSUME NEW nodes, Listed(nodes), InOrder(nodes)
    PROVE  Acyclic(nodes)
<1> SUFFICES ASSUME NEW S \in SUBSET DOMAIN nodes, S # {}
             PROVE  \E i \in S : \A j \in S : nodes[j].id \notin nodes[i].dependsOn
    BY DEF Acyclic
<1>1. Len(nodes) \in Nat /\ DOMAIN nodes = 1..Len(nodes)
      BY Places
<1>2. PICK i \in S : \A j \in S : i <= j
      BY <1>1, LeastIsLeast
<1>3. ASSUME NEW j \in S, nodes[j].id \in nodes[i].dependsOn PROVE FALSE
      <2>1. PICK k \in 1..(i - 1) : nodes[k].id = nodes[j].id
            BY <1>3 DEF InOrder
      <2>2. k \in DOMAIN nodes /\ k < i
            BY <1>1, <2>1
      <2>3. k = j
            BY <2>1, <2>2 DEF InOrder, IsInjective
      <2>. QED BY <1>1, <1>2, <2>2, <2>3
<1>. QED BY <1>3

\* An orchestration that holds its cast may delegate to each of its agents.
LEMMA PinnedCast == Pinned => CastIsDelegated
BY DEF Pinned, Good, Fits, Granted, CastIsDelegated, Definition, ConfigurationOf

\* A live execution belongs to an open session.
LEMMA PinnedQuiet == Pinned => ClosedIsQuiet
BY DEF Pinned, Good, Fits, ClosedIsQuiet
-------------------------------------------------------------------------------
(* Operations on executions. *)

\* What an execution is pinned to
Same(x, y) ==
    /\ DOMAIN y = Fields
    /\ y.session = x.session /\ y.parent = x.parent /\ y.kind = x.kind
    /\ y.callable = x.callable /\ y.node = x.node /\ y.target = x.target
    /\ y.revision = x.revision /\ y.authority = x.authority

\* Executions may change in what they are not pinned to.
LEMMA KeptGood ==
    ASSUME NEW xs, NEW ss, NEW rs, Good(xs, ss, rs), NEW ys,
           DOMAIN ys = DOMAIN xs, ys = [i \in DOMAIN ys |-> ys[i]],
           \A e \in DOMAIN xs : /\ Same(xs[e], ys[e])
                                /\ Equipped(ys[e], rs[ys[e].revision])
                                /\ ys[e].state \in Live => xs[e].state \in Live
    PROVE  Good(ys, ss, rs)
<1>1. Listed(ys)
      BY Replaced DEF Good
<1>2. ASSUME NEW e \in DOMAIN ys PROVE Fits(ys, e, ss, rs)
      <2> DEFINE x == xs[e]
                 y == ys[e]
      <2>1. Fits(xs, e, ss, rs) /\ Same(x, y) /\ Equipped(y, rs[y.revision])
            BY DEF Good
      <2>2. Granted(y, rs[y.revision])
            BY <2>1 DEF Fits, Same, Granted
      <2>3. y.parent # NoExecution => /\ Inherits(y, ys[y.parent])
                                      /\ ys[y.parent].kind = xs[y.parent].kind
            <3> SUFFICES ASSUME y.parent # NoExecution
                         PROVE  Inherits(y, ys[y.parent]) /\ ys[y.parent].kind = xs[y.parent].kind
                OBVIOUS
            <3>1. x.parent \in DOMAIN xs /\ Inherits(x, xs[x.parent])
                  <4>1. x.parent \in Nat /\ x.parent < e /\ x.parent # 0
                        BY <2>1 DEF Fits, Same, NoExecution
                  <4>2. Len(xs) \in Nat /\ DOMAIN xs = 1..Len(xs)
                        BY Places DEF Good
                  <4>. QED BY <2>1, <4>1, <4>2 DEF Fits, NoExecution
            <3>2. Same(xs[x.parent], ys[x.parent])
                  BY <3>1
            <3>. QED BY <2>1, <3>1, <3>2 DEF Same, Inherits
      <2>. QED BY <2>1, <2>2, <2>3 DEF Fits, Same
<1>. QED BY <1>1, <1>2 DEF Good

\* So may one of them.
LEMMA OneKeptGood ==
    ASSUME NEW xs, NEW ss, NEW rs, Good(xs, ss, rs), NEW o \in DOMAIN xs, NEW y,
           Same(xs[o], y), Equipped(y, rs[y.revision]), y.state \in Live => xs[o].state \in Live,
           NEW ys, ys = [xs EXCEPT ![o] = y]
    PROVE  Good(ys, ss, rs)
<1>1. Listed(xs)
      BY DEF Good
<1>2. DOMAIN ys = DOMAIN xs /\ ys = [i \in DOMAIN ys |-> ys[i]]
      OBVIOUS
<1>3. \A e \in DOMAIN xs : ys[e] = IF e = o THEN y ELSE xs[e]
      OBVIOUS
<1>4. \A e \in DOMAIN xs : Same(xs[e], xs[e]) /\ Equipped(xs[e], rs[xs[e].revision])
      BY DEF Good, Fits, Same
<1>5. \A e \in DOMAIN xs : /\ Same(xs[e], ys[e])
                           /\ Equipped(ys[e], rs[ys[e].revision])
                           /\ ys[e].state \in Live => xs[e].state \in Live
      BY <1>3, <1>4
<1>. QED BY <1>2, <1>5, KeptGood

\* An execution changes its state, but not from the dead.
LEMMA StateKeptGood ==
    ASSUME NEW xs, NEW ss, NEW rs, Good(xs, ss, rs), NEW o \in DOMAIN xs, NEW state,
           state \in Live => xs[o].state \in Live,
           NEW ys, ys = [xs EXCEPT ![o].state = state]
    PROVE  /\ Good(ys, ss, rs) /\ DOMAIN ys = DOMAIN xs
           /\ \A e \in DOMAIN xs : ys[e] = IF e = o THEN [xs[e] EXCEPT !.state = state] ELSE xs[e]
<1> DEFINE y == [xs[o] EXCEPT !.state = state]
<1>1. ys = [xs EXCEPT ![o] = y]
      OBVIOUS
<1>2. DOMAIN xs[o] = Fields /\ Equipped(xs[o], rs[xs[o].revision])
      BY DEF Good, Fits
<1>3. Same(xs[o], y) /\ y.state = state /\ Equipped(y, rs[y.revision])
      BY <1>2 DEF Same, Fields, Equipped
<1> HIDE DEF y
<1>4. Good(ys, ss, rs)
      BY <1>1, <1>3, OneKeptGood
<1>. QED BY <1>1, <1>4 DEF y

\* An orchestration completes.
LEMMA CompletedGood ==
    ASSUME NEW xs, NEW ss, NEW rs, Good(xs, ss, rs), NEW o \in DOMAIN xs
    PROVE  Good([xs EXCEPT ![o].state = "Completed"], ss, rs)
<1>1. "Completed" \notin Live
      BY DEF Live
<1> DEFINE y == [xs[o] EXCEPT !.state = "Completed"]
           ys == [xs EXCEPT ![o] = y]
<1>2. DOMAIN xs[o] = Fields /\ Equipped(xs[o], rs[xs[o].revision])
      BY DEF Good, Fits
<1>3. Same(xs[o], y) /\ y.state = "Completed" /\ Equipped(y, rs[y.revision])
      BY <1>2 DEF Same, Fields, Equipped
<1>4. ys = [xs EXCEPT ![o] = y]
      OBVIOUS
<1>5. ys = [xs EXCEPT ![o].state = "Completed"]
      OBVIOUS
<1> HIDE DEF y, ys
<1>6. Good(ys, ss, rs)
      BY <1>1, <1>3, <1>4, OneKeptGood
<1>. QED BY <1>5, <1>6

\* A failure or a cancellation stops what is below.
LEMMA StoppedGood ==
    ASSUME NEW xs, NEW ss, NEW rs, Good(xs, ss, rs), NEW top
    PROVE  Good(Stopped(xs, top), ss, rs)
<1> DEFINE ys == Stopped(xs, top)
<1>1. DOMAIN ys = DOMAIN xs /\ ys = [i \in DOMAIN ys |-> ys[i]]
      BY DEF Stopped
<1>2. \A e \in DOMAIN xs : ys[e] = xs[e] \/ ys[e] = [xs[e] EXCEPT !.state = "Stopped"]
      BY DEF Stopped
<1> HIDE DEF ys
<1>3. \A e \in DOMAIN xs : DOMAIN xs[e] = Fields /\ Equipped(xs[e], rs[xs[e].revision])
      BY DEF Good, Fits
<1>4. ASSUME NEW e \in DOMAIN xs
      PROVE  /\ Same(xs[e], ys[e]) /\ Equipped(ys[e], rs[ys[e].revision])
             /\ ys[e].state \in Live => xs[e].state \in Live
      <2>1. CASE ys[e] = xs[e]
            BY <1>3, <2>1 DEF Same
      <2>2. CASE ys[e] = [xs[e] EXCEPT !.state = "Stopped"]
            <3>1. Same(xs[e], ys[e]) /\ ys[e].state = "Stopped"
                  BY <1>3, <2>2 DEF Same, Fields
            <3>2. Equipped(ys[e], rs[ys[e].revision])
                  <4>1. /\ ys[e].model = xs[e].model /\ ys[e].tools = xs[e].tools
                        /\ ys[e].skills = xs[e].skills /\ ys[e].asked = xs[e].asked
                        BY <1>3, <2>2 DEF Fields
                  <4>. QED BY <1>3, <3>1, <4>1 DEF Equipped, Same
            <3>. QED BY <3>1, <3>2 DEF Live
      <2>. QED BY <1>2, <2>1, <2>2
<1>5. Good(ys, ss, rs)
      BY <1>1, <1>4, KeptGood
<1>. QED BY <1>5 DEF ys

\* What a new execution may be
MayBeCreated(xs, s, parent, kind, callable, node) ==
    /\ s \in DOMAIN sessions /\ sessions[s].open
    /\ node # None => parent # NoExecution /\ xs[parent].kind = "Orchestration"
    /\ parent # NoExecution => /\ parent \in DOMAIN xs /\ callable \in xs[parent].authority
    /\ kind \in {"Root", "Agent", "Orchestration"}
    /\ kind = "Root" => parent = NoExecution
    /\ kind = "Orchestration" =>
          LET callables == revisions[PinnedRevision(xs, s, parent)].callables IN
          /\ callable \in DOMAIN callables /\ callables[callable].kind = "Orchestration"
          /\ parent # NoExecution => xs[parent].kind = "Root"

\* What the authority of an execution is made of (configured_authority_for_execution)
LEMMA ConfiguredIs ==
    ASSUME NEW configuration, NEW callable
    PROVE  /\ Configured(configuration, "Root", callable) =
                 Envelope(configuration, Agents(configuration))
                    \cup (DOMAIN configuration.callables \ Tools(configuration))
           /\ Configured(configuration, "Agent", callable) =
                 configuration.callables[callable].authority
           /\ Configured(configuration, "Orchestration", callable) =
                 Envelope(configuration, Cast(configuration.callables[callable]))
                    \cup Cast(configuration.callables[callable])
BY DEF Configured

\* An execution is created.
LEMMA CreatedGood ==
    ASSUME Settled, NEW xs, Good(xs, sessions, revisions),
           NEW s, NEW parent, NEW kind, NEW callable, NEW node,
           MayBeCreated(xs, s, parent, kind, callable, node),
           NEW ys, ys = Created(xs, s, parent, kind, callable, node)
    PROVE  /\ Good(ys, sessions, revisions)
           /\ Len(xs) \in Nat /\ DOMAIN xs = 1..Len(xs)
           /\ Len(ys) = Len(xs) + 1 /\ DOMAIN ys = 1..(Len(xs) + 1)
           /\ \A e \in DOMAIN xs : ys[e] = xs[e]
           /\ ys[Len(ys)].session = s
<1> DEFINE y == [session |-> s, parent |-> parent, kind |-> kind, callable |-> callable,
                 node |-> node, state |-> IF kind = "Orchestration" THEN "Running" ELSE "Pending",
                 target |-> IF parent = NoExecution THEN sessions[s].target ELSE xs[parent].target,
                 revision |-> PinnedRevision(xs, s, parent),
                 authority |-> EffectiveAuthority(xs, s, parent, kind, callable),
                 model |-> None, tools |-> {}, asked |-> None, skills |-> {}]
           n == Len(xs) + 1
           configuration == revisions[PinnedRevision(xs, s, parent)]
           configured == Configured(configuration, kind, callable)
<1>1. ys = Append(xs, y)
      BY DEF Created
<1>2. /\ DOMAIN y = Fields /\ y.session = s /\ y.parent = parent /\ y.kind = kind
      /\ y.callable = callable /\ y.node = node
      /\ y.target = (IF parent = NoExecution THEN sessions[s].target ELSE xs[parent].target)
      /\ y.revision = PinnedRevision(xs, s, parent)
      /\ y.authority = EffectiveAuthority(xs, s, parent, kind, callable)
      /\ y.model = None /\ y.tools = {} /\ y.skills = {}
      BY DEF Fields
<1> HIDE DEF y
<1>3. /\ Listed(ys) /\ Len(xs) \in Nat /\ DOMAIN xs = 1..Len(xs)
      /\ Len(ys) = n /\ DOMAIN ys = 1..n /\ ys[n] = y
      /\ \A i \in DOMAIN xs : ys[i] = xs[i]
      <2>1. Listed(xs)
            BY DEF Good
      <2>2. /\ Listed(ys) /\ Len(xs) \in Nat /\ DOMAIN xs = 1..Len(xs)
            /\ Len(ys) = Len(xs) + 1 /\ DOMAIN ys = 1..(Len(xs) + 1)
            BY <1>1, <2>1, Appended
      <2>3. ys[Len(xs) + 1] = y
            BY <1>1, <2>1, Appended
      <2>4. \A i \in DOMAIN xs : ys[i] = xs[i]
            BY <1>1, <2>1, Appended
      <2>. QED BY <2>2, <2>3, <2>4
<1>4. ASSUME NEW e \in DOMAIN xs PROVE Fits(ys, e, sessions, revisions)
      <2>1. Fits(xs, e, sessions, revisions) /\ ys[e] = xs[e]
            BY <1>3 DEF Good
      <2>2. xs[e].parent # NoExecution => ys[xs[e].parent] = xs[xs[e].parent]
            <3>1. xs[e].parent \in Nat /\ xs[e].parent < e
                  BY <2>1 DEF Fits
            <3>. QED BY <1>3, <3>1 DEF NoExecution
      <2>. QED BY <2>1, <2>2 DEF Fits
<1>5. parent # NoExecution =>
         /\ parent \in DOMAIN xs /\ ys[parent] = xs[parent] /\ parent \in Nat /\ parent < n
         /\ Fits(xs, parent, sessions, revisions)
      BY <1>3 DEF MayBeCreated, Good
<1>6. y.revision \in DOMAIN revisions
      BY <1>2, <1>5 DEF Settled, MayBeCreated, PinnedRevision, Fits
<1>7. y.authority = IF parent = NoExecution THEN configured ELSE xs[parent].authority \cap configured
      BY <1>2 DEF EffectiveAuthority
<1>8. parent # NoExecution => Inherits(y, ys[parent])
      BY <1>2, <1>5, <1>7 DEF Inherits, PinnedRevision, MayBeCreated
<1>9. Equipped(y, configuration)
      BY <1>2 DEF Equipped
<1>10. Granted(y, configuration)
      <2> HIDE DEF configuration
      <2>1. kind = "Root" => y.parent = NoExecution /\ y.authority = Configured(configuration, "Root", None)
            <3>1. Configured(configuration, "Root", callable) = Configured(configuration, "Root", None)
                  BY ConfiguredIs
            <3>2. kind = "Root" => parent = NoExecution
                  BY DEF MayBeCreated
            <3>. QED BY <1>2, <1>7, <3>1, <3>2
      <2>2. kind = "Agent" => y.authority \subseteq configuration.callables[callable].authority
            BY <1>7, ConfiguredIs
      <2>3. ASSUME kind = "Orchestration"
            PROVE  /\ callable \in DOMAIN configuration.callables
                   /\ configuration.callables[callable].kind = "Orchestration"
                   /\ Cast(configuration.callables[callable]) \subseteq y.authority
            <3> DEFINE cast == Cast(configuration.callables[callable])
            <3>1. /\ callable \in DOMAIN configuration.callables
                  /\ configuration.callables[callable].kind = "Orchestration"
                  BY <2>3 DEF MayBeCreated, configuration
            <3>2. Runs(configuration.callables)
                  BY <1>2, <1>6 DEF configuration, Settled
            <3>3. cast \subseteq configured
                  BY <2>3, ConfiguredIs
            <3>4. cast \subseteq DOMAIN configuration.callables \ Tools(configuration)
                  BY <3>1, <3>2 DEF Runs, Tools
            <3>5. ASSUME parent # NoExecution PROVE cast \subseteq xs[parent].authority
                  <4>1. xs[parent].kind = "Root" /\ Granted(xs[parent], revisions[xs[parent].revision])
                        BY <1>5, <2>3, <3>5 DEF MayBeCreated, Fits
                  <4>2. configuration = revisions[xs[parent].revision]
                        BY <3>5 DEF configuration, PinnedRevision
                  <4>. QED BY <3>4, <4>1, <4>2, ConfiguredIs DEF Granted
            <3> HIDE DEF cast, configured
            <3>6. cast \subseteq y.authority
                  BY <1>7, <3>3, <3>5
            <3>. QED BY <3>1, <3>6 DEF cast
      <2>. QED BY <1>2, <2>1, <2>2, <2>3 DEF Granted
<1>11. Fits(ys, n, sessions, revisions)
       BY <1>2, <1>3, <1>5, <1>6, <1>8, <1>9, <1>10 DEF Fits, MayBeCreated, NoExecution
<1>12. Good(ys, sessions, revisions)
       BY <1>3, <1>4, <1>11 DEF Good
<1>. QED BY <1>2, <1>3, <1>12

\* advance_orchestration, node by node
LEMMA AdvancedGood ==
    ASSUME Settled, NEW xs, Good(xs, sessions, revisions), NEW o \in DOMAIN xs,
           xs[o].kind = "Orchestration", sessions[xs[o].session].open
    PROVE  Good(Advanced(xs, o), sessions, revisions)
<1> DEFINE nodes == Definition(xs, o).nodes
           Completed(ys) == {ys[e].node : e \in {c \in Children(ys, o) : ys[c].state = "Completed"}}
           Started(ys) == {ys[e].node : e \in Children(ys, o)}
           Round(ys, n) ==
               IF n.id \in Started(ys) \/ ~(n.dependsOn \subseteq Completed(ys))
                  \/ n.callable \notin ys[o].authority
               THEN ys
               ELSE Created(ys, ys[o].session, o, "Agent", n.callable, n.id)
           Loop(g, n) == g = [i \in 0..n |-> IF i = 0 THEN xs ELSE Round(g[i - 1], nodes[i])]
           P == {n \in Nat : \E g : Loop(g, n)}
           Kept(ys) == Good(ys, sessions, revisions) /\ o \in DOMAIN ys /\ ys[o] = xs[o]
<1>0. Len(nodes) \in Nat
      <2>1. Fits(xs, o, sessions, revisions)
            BY DEF Good
      <2>2. Runs(revisions[xs[o].revision].callables)
            BY <2>1 DEF Fits, Settled
      <2>3. Listed(nodes)
            BY <2>1, <2>2 DEF Fits, Granted, Runs, Definition, ConfigurationOf
      <2>. QED BY <2>3, Places
<1>a. ASSUME NEW ys, Kept(ys), NEW n PROVE Kept(Round(ys, n))
      <2>1. CASE Round(ys, n) = ys
            BY <1>a, <2>1
      <2>2. CASE n.callable \in ys[o].authority /\
                 Round(ys, n) = Created(ys, ys[o].session, o, "Agent", n.callable, n.id)
            <3> DEFINE zs == Round(ys, n)
            <3>1. /\ Good(ys, sessions, revisions) /\ o \in DOMAIN ys /\ ys[o] = xs[o]
                  /\ Fits(ys, o, sessions, revisions)
                  BY <1>a DEF Good
            <3>2. o # NoExecution
                  BY <3>1, Places DEF Good, NoExecution
            <3>3. MayBeCreated(ys, ys[o].session, o, "Agent", n.callable, n.id)
                  BY <2>2, <3>1, <3>2 DEF MayBeCreated, Fits
            <3> HIDE DEF Kept, Round, zs
            <3>4. Good(zs, sessions, revisions)
                  BY <2>2, <3>1, <3>3, CreatedGood DEF zs
            <3>5. /\ Len(ys) \in Nat /\ DOMAIN ys = 1..Len(ys)
                  /\ DOMAIN zs = 1..(Len(ys) + 1)
                  BY <2>2, <3>1, <3>3, CreatedGood DEF zs
            <3>6. zs[o] = ys[o]
                  BY <2>2, <3>1, <3>3, CreatedGood DEF zs
            <3>7. Kept(zs)
                  BY <3>1, <3>4, <3>5, <3>6 DEF Kept
            <3>. QED BY <3>7 DEF zs
      <2> HIDE DEF Kept
      <2>. QED BY <2>1, <2>2
<1>b. Kept(xs)
      OBVIOUS
<1> HIDE DEF Round, nodes
<1>1. 0 \in P
      <2>1. Loop([i \in 0..0 |-> xs], 0)
            OBVIOUS
      <2>. QED BY <2>1
<1>2. ASSUME NEW n \in Nat, n \in P PROVE n + 1 \in P
      <2>1. PICK g : Loop(g, n)
            BY <1>2
      <2> DEFINE h == [i \in 0..(n + 1) |-> IF i = n + 1 THEN Round(g[n], nodes[n + 1]) ELSE g[i]]
      <2>2. ASSUME NEW i \in 0..(n + 1)
            PROVE  h[i] = IF i = 0 THEN xs ELSE Round(h[i - 1], nodes[i])
            <3>1. CASE i = n + 1
                  <4>1. h[n + 1] = Round(g[n], nodes[n + 1]) /\ h[n] = g[n] /\ (n + 1) - 1 = n
                        OBVIOUS
                  <4>. QED BY <3>1, <4>1
            <3>2. CASE i # n + 1
                  <4>1. i \in 0..n /\ h[i] = g[i]
                        BY <3>2
                  <4>2. g[i] = IF i = 0 THEN xs ELSE Round(g[i - 1], nodes[i])
                        BY <2>1, <4>1
                  <4>3. i # 0 => h[i - 1] = g[i - 1]
                        BY <3>2
                  <4>. QED BY <4>1, <4>2, <4>3
            <3>. QED BY <3>1, <3>2
      <2>3. Loop(h, n + 1) /\ n + 1 \in Nat
            BY <2>2
      <2> HIDE DEF h
      <2>4. \E k : Loop(k, n + 1)
            BY <2>3
      <2> HIDE DEF Loop
      <2>. QED BY <2>3, <2>4
<1>3. Len(nodes) \in P
      <2> HIDE DEF P
      <2>. QED BY <1>0, <1>1, <1>2, Induction
<1> DEFINE f == CHOOSE g : Loop(g, Len(nodes))
<1>4. Loop(f, Len(nodes))
      BY <1>3
<1>5. Advanced(xs, o) = f[Len(nodes)]
      BY DEF Advanced, Round, nodes
<1> HIDE DEF f, Kept
<1> DEFINE Q == {n \in Nat : n <= Len(nodes) => Kept(f[n])}
<1>6. 0 \in Q
      BY <1>0, <1>4, <1>b
<1>7. ASSUME NEW n \in Nat, n \in Q PROVE n + 1 \in Q
      <2> SUFFICES ASSUME n + 1 <= Len(nodes) PROVE Kept(f[n + 1])
          OBVIOUS
      <2>1. Kept(f[n])
            BY <1>0, <1>7
      <2>2. n + 1 \in 0..Len(nodes) /\ n + 1 # 0 /\ (n + 1) - 1 = n
            BY <1>0
      <2>3. f[n + 1] = Round(f[n], nodes[n + 1])
            BY <1>4, <2>2
      <2>. QED BY <1>a, <2>1, <2>3
<1>8. Len(nodes) \in Q
      <2> HIDE DEF Q
      <2>. QED BY <1>0, <1>6, <1>7, Induction
<1>. QED BY <1>0, <1>5, <1>8 DEF Kept
-------------------------------------------------------------------------------
(* The steps. *)

\* A step that leaves good executions
LEMMA BecomesPinned ==
    ASSUME Pinned, NEW xs, Good(xs, sessions, revisions), Becomes(xs)
    PROVE  Pinned'
<1>1. executions' = xs /\ call' = None /\ UNCHANGED <<offer, revisions, sessions>>
      BY DEF Becomes
<1>2. Settled'
      BY <1>1 DEF Pinned, Settled
<1>3. Good(executions', sessions', revisions')
      BY <1>1
<1>4. CallIsGranted'
      BY <1>1 DEF CallIsGranted
<1>. QED BY <1>2, <1>3, <1>4 DEF Pinned

\* A step that changes sessions: none is lost, and none with anything live is closed.
LEMMA SessionPinned ==
    ASSUME Pinned, Requested, Listed(sessions'), DOMAIN sessions \subseteq DOMAIN sessions',
           \A s \in DOMAIN sessions' :
               /\ DOMAIN sessions'[s] = {"revision", "target", "open"}
               /\ sessions'[s].revision \in DOMAIN revisions,
           \A e \in DOMAIN executions :
               executions[e].state \in Live => sessions'[executions[e].session].open
    PROVE  Pinned'
<1>1. executions' = executions /\ call' = None /\ UNCHANGED <<offer, revisions>>
      BY DEF Requested
<1>2. Settled'
      BY <1>1 DEF Pinned, Settled
<1>3. Good(executions', sessions', revisions')
      <2>1. Good(executions, sessions, revisions)
            BY DEF Pinned
      <2>2. \A e \in DOMAIN executions : Fits(executions, e, sessions', revisions)
            BY <2>1 DEF Good, Fits
      <2>. QED BY <1>1, <2>1, <2>2 DEF Good
<1>4. CallIsGranted'
      BY <1>1 DEF CallIsGranted
<1>. QED BY <1>2, <1>3, <1>4 DEF Pinned

\* What is live is in an open session.
LEMMA LiveIsOpen ==
    ASSUME Pinned
    PROVE  \A e \in DOMAIN executions :
              /\ executions[e].session \in DOMAIN sessions
              /\ executions[e].state \in Live => sessions[executions[e].session].open
BY DEF Pinned, Good, Fits

\* Session requests
LEMMA SessionsPreserve ==
    ASSUME Pinned,
           \/ \E t \in Targets : CreateSession(t)
           \/ \E s \in DOMAIN sessions :
                 \/ ForkSession(s) \/ CloseSession(s)
                 \/ \E r \in DOMAIN revisions : RebaseSession(s, r)
                 \/ \E t \in Targets : SetSessionTarget(s, t)
    PROVE  Pinned'
<1>0. /\ Listed(sessions) /\ Listed(revisions)
      /\ \A s \in DOMAIN sessions : /\ DOMAIN sessions[s] = {"revision", "target", "open"}
                                    /\ sessions[s].revision \in DOMAIN revisions
      BY DEF Pinned, Settled
<1>1. ASSUME NEW r \in DOMAIN revisions, NEW t, sessions' = NewSession(r, t), Requested
      PROVE  Pinned'
      <2> DEFINE y == [revision |-> r, target |-> t, open |-> TRUE]
      <2>1. sessions' = Append(sessions, y)
            BY <1>1 DEF NewSession
      <2>2. DOMAIN y = {"revision", "target", "open"} /\ y.revision = r
            OBVIOUS
      <2> HIDE DEF y
      <2>3. /\ Listed(sessions') /\ Len(sessions) \in Nat /\ DOMAIN sessions = 1..Len(sessions)
            /\ DOMAIN sessions' = 1..(Len(sessions) + 1)
            BY <1>0, <2>1, Appended
      <2>4. sessions'[Len(sessions) + 1] = y
            BY <1>0, <2>1, Appended
      <2>5. \A s \in DOMAIN sessions : sessions'[s] = sessions[s]
            BY <1>0, <2>1, Appended
      <2>6. DOMAIN sessions \subseteq DOMAIN sessions'
            BY <2>3
      <2>7. \A s \in DOMAIN sessions' : s \in DOMAIN sessions \/ s = Len(sessions) + 1
            BY <2>3
      <2>8. \A s \in DOMAIN sessions' :
               /\ DOMAIN sessions'[s] = {"revision", "target", "open"}
               /\ sessions'[s].revision \in DOMAIN revisions
            BY <1>0, <2>2, <2>4, <2>5, <2>7
      <2>9. \A e \in DOMAIN executions :
               executions[e].state \in Live => sessions'[executions[e].session].open
            BY <2>5, LiveIsOpen
      <2>. QED BY <1>1, <2>3, <2>6, <2>8, <2>9, SessionPinned
<1>2. ASSUME NEW s \in DOMAIN sessions, NEW y, Changed(s, y),
             DOMAIN y = {"revision", "target", "open"}, y.revision \in DOMAIN revisions,
             y.open = sessions[s].open \/
                \A e \in DOMAIN executions :
                   executions[e].session = s => executions[e].state \notin Live
      PROVE  Pinned'
      <2>1. sessions' = [sessions EXCEPT ![s] = y] /\ Requested
            BY <1>2 DEF Changed
      <2>2. /\ DOMAIN sessions' = DOMAIN sessions
            /\ sessions' = [i \in DOMAIN sessions' |-> sessions'[i]]
            /\ \A i \in DOMAIN sessions : sessions'[i] = IF i = s THEN y ELSE sessions[i]
            BY <2>1
      <2>3. Listed(sessions')
            BY <1>0, <2>2, Replaced
      <2>4. \A i \in DOMAIN sessions' :
               /\ DOMAIN sessions'[i] = {"revision", "target", "open"}
               /\ sessions'[i].revision \in DOMAIN revisions
            BY <1>0, <1>2, <2>2
      <2>5. \A e \in DOMAIN executions :
               executions[e].state \in Live => sessions'[executions[e].session].open
            BY <1>2, <2>2, LiveIsOpen
      <2>. QED BY <2>1, <2>2, <2>3, <2>4, <2>5, SessionPinned
<1>3. ASSUME NEW t \in Targets, CreateSession(t) PROVE Pinned'
      <2>1. Current \in DOMAIN revisions
            BY <1>0, <1>3, Places DEF CreateSession, Serving, Current
      <2>. QED BY <1>1, <1>3, <2>1 DEF CreateSession
<1>4. ASSUME NEW s \in DOMAIN sessions, ForkSession(s) PROVE Pinned'
      BY <1>0, <1>1, <1>4 DEF ForkSession
<1>5. ASSUME NEW s \in DOMAIN sessions, CloseSession(s) PROVE Pinned'
      <2> DEFINE y == [sessions[s] EXCEPT !.open = FALSE]
      <2>1. DOMAIN y = {"revision", "target", "open"} /\ y.revision = sessions[s].revision
            BY <1>0
      <2>2. Changed(s, y) /\ \A e \in DOMAIN executions :
                                executions[e].session = s => executions[e].state \notin Live
            BY <1>5 DEF CloseSession
      <2> HIDE DEF y
      <2>. QED BY <1>0, <1>2, <2>1, <2>2
<1>6. ASSUME NEW s \in DOMAIN sessions, NEW r \in DOMAIN revisions, RebaseSession(s, r)
      PROVE  Pinned'
      <2> DEFINE y == [sessions[s] EXCEPT !.revision = r]
      <2>1. /\ DOMAIN y = {"revision", "target", "open"} /\ y.revision = r
            /\ y.open = sessions[s].open
            BY <1>0
      <2>2. Changed(s, y)
            BY <1>6 DEF RebaseSession
      <2> HIDE DEF y
      <2>. QED BY <1>2, <2>1, <2>2
<1>7. ASSUME NEW s \in DOMAIN sessions, NEW t \in Targets, SetSessionTarget(s, t)
      PROVE  Pinned'
      <2> DEFINE y == [sessions[s] EXCEPT !.target = t]
      <2>1. /\ DOMAIN y = {"revision", "target", "open"} /\ y.revision = sessions[s].revision
            /\ y.open = sessions[s].open
            BY <1>0
      <2>2. Changed(s, y)
            BY <1>7 DEF SetSessionTarget
      <2> HIDE DEF y
      <2>. QED BY <1>0, <1>2, <2>1, <2>2
<1>. QED BY <1>3, <1>4, <1>5, <1>6, <1>7

\* A file is offered, and compiled or refused.
LEMMA InstallPreserves ==
    ASSUME Pinned, Offer \/ Install
    PROVE  Pinned'
<1>0. /\ Listed(revisions) /\ revisions # <<>> /\ \A r \in DOMAIN revisions : Runs(revisions[r].callables)
      BY DEF Pinned, Settled
<1>1. call' = None /\ UNCHANGED <<sessions, executions>>
      BY DEF Offer, Install
<1>2. CallIsGranted'
      BY <1>1 DEF CallIsGranted
<1>3. ASSUME revisions' = revisions, offer' = None \/ offer' \in FirstFiles \cup LaterFiles
      PROVE  Pinned'
      <2>1. Settled' /\ Good(executions', sessions', revisions')
            BY <1>1, <1>3 DEF Pinned, Settled
      <2>. QED BY <1>2, <2>1 DEF Pinned
<1>4. ASSUME Offer PROVE Pinned'
      BY <1>3, <1>4 DEF Offer
<1>5. ASSUME Install PROVE Pinned'
      <2>1. PICK base \in {BuiltIn, revisions[Current]} :
               \/ UNCHANGED revisions
               \/ \E c \in Compile(base, offer) : revisions' = Append(revisions, c)
            BY <1>5 DEF Install, Activate
      <2>2. CASE UNCHANGED revisions
            BY <1>3, <1>5, <2>2 DEF Install
      <2>3. ASSUME NEW c \in Compile(base, offer), revisions' = Append(revisions, c)
            PROVE  Pinned'
            <3>1. Len(revisions) \in Nat /\ DOMAIN revisions = 1..Len(revisions) /\ Len(revisions) # 0
                  BY <1>0, Places, EmptySeq DEF Listed
            <3>2. Runs(BuiltIn.callables)
                  BY FileAssumption DEF Runs
            <3>3. Runs(base.callables)
                  BY <1>0, <3>1, <3>2 DEF Current
            <3>4. offer \in FirstFiles \cup LaterFiles
                  BY <1>5 DEF Install, Pinned, Settled
            <3>5. Runs(c.callables)
                  BY <3>3, <3>4, CompilesTheSound
            <3>6. revisions' = Append(revisions, c)
                  BY <2>3
            <3>7. Listed(revisions') /\ DOMAIN revisions' = 1..(Len(revisions) + 1)
                  BY <1>0, <3>6, Appended
            <3>8. revisions'[Len(revisions) + 1] = c
                  BY <1>0, <3>6, Appended
            <3>9. \A r \in DOMAIN revisions : revisions'[r] = revisions[r]
                  BY <1>0, <3>6, Appended
            <3>10. DOMAIN revisions \subseteq DOMAIN revisions'
                   BY <3>1, <3>7
            <3>11. \A r \in DOMAIN revisions' : r \in DOMAIN revisions \/ r = Len(revisions) + 1
                   BY <3>1, <3>7
            <3>12. \A r \in DOMAIN revisions' : Runs(revisions'[r].callables)
                   BY <1>0, <3>5, <3>8, <3>9, <3>11
            <3>13. revisions' # <<>>
                   BY <3>1, <3>7
            <3>14. offer' = None
                   BY <1>5 DEF Install
            <3>15. Settled'
                   BY <1>1, <3>7, <3>10, <3>12, <3>13, <3>14 DEF Pinned, Settled
            <3>16. Good(executions, sessions, revisions')
                   BY <3>9, <3>10 DEF Pinned, Good, Fits
            <3>. QED BY <1>1, <1>2, <3>15, <3>16 DEF Pinned
      <2>. QED BY <2>1, <2>2, <2>3
<1>. QED BY <1>4, <1>5

\* An orchestration starts, with the nodes that are ready.
LEMMA OrchestrationStarts ==
    ASSUME Pinned, NEW s, NEW parent, NEW c,
           MayBeCreated(executions, s, parent, "Orchestration", c, None),
           LET xs == Created(executions, s, parent, "Orchestration", c, None)
           IN Becomes(Advanced(xs, Len(xs)))
    PROVE  Pinned'
<1> DEFINE xs == Created(executions, s, parent, "Orchestration", c, None)
<1>0. Settled /\ Good(executions, sessions, revisions)
      BY DEF Pinned
<1>1. Good(xs, sessions, revisions) /\ xs[Len(xs)].session = s
      BY <1>0, CreatedGood
<1>2. Len(xs) \in DOMAIN xs
      <2>1. /\ Len(executions) \in Nat
            /\ Len(xs) = Len(executions) + 1 /\ DOMAIN xs = 1..(Len(executions) + 1)
            BY <1>0, CreatedGood
      <2> HIDE DEF xs
      <2>. QED BY <2>1
<1>3. xs[Len(xs)].kind = "Orchestration"
      <2> DEFINE y == [session |-> s, parent |-> parent, kind |-> "Orchestration",
                       callable |-> c, node |-> None, state |-> "Running",
                       target |-> IF parent = NoExecution THEN sessions[s].target
                                  ELSE executions[parent].target,
                       revision |-> PinnedRevision(executions, s, parent),
                       authority |-> EffectiveAuthority(executions, s, parent, "Orchestration", c),
                       model |-> None, tools |-> {}, asked |-> None, skills |-> {}]
      <2>1. xs = Append(executions, y)
            BY DEF Created
      <2>2. y.kind = "Orchestration"
            OBVIOUS
      <2> HIDE DEF xs, y
      <2>3. Listed(executions)
            BY <1>0 DEF Good
      <2>4. Len(xs) = Len(executions) + 1
            BY <2>1, <2>3, Appended
      <2>5. xs[Len(executions) + 1] = y
            BY <2>1, <2>3, Appended
      <2>. QED BY <2>2, <2>4, <2>5
<1>4. sessions[s].open /\ Becomes(Advanced(xs, Len(xs)))
      BY DEF MayBeCreated
<1> HIDE DEF xs
<1>5. Good(Advanced(xs, Len(xs)), sessions, revisions)
      BY <1>0, <1>1, <1>2, <1>3, <1>4, AdvancedGood
<1>. QED BY <1>4, <1>5, BecomesPinned

\* Requests that create executions
LEMMA RequestsPreserve ==
    ASSUME Pinned, NEW s \in DOMAIN sessions,
           \/ Submit(s)
           \/ \E c \in DOMAIN revisions[sessions[s].revision].callables :
                 StartSessionOrchestration(s, c) \/ StartSessionAgent(s, c)
    PROVE  Pinned'
<1>0. Settled /\ Good(executions, sessions, revisions)
      BY DEF Pinned
<1>1. ASSUME NEW kind, NEW c, MayBeCreated(executions, s, NoExecution, kind, c, None),
             Becomes(Created(executions, s, NoExecution, kind, c, None))
      PROVE  Pinned'
      <2>1. Good(Created(executions, s, NoExecution, kind, c, None), sessions, revisions)
            BY <1>0, <1>1, CreatedGood
      <2>. QED BY <1>1, <2>1, BecomesPinned
<1>2. CASE Submit(s)
      <2>1. MayBeCreated(executions, s, NoExecution, "Root", None, None)
            BY <1>2 DEF Submit, MayBeCreated
      <2>. QED BY <1>1, <1>2, <2>1 DEF Submit
<1>3. ASSUME NEW c \in DOMAIN revisions[sessions[s].revision].callables, StartSessionAgent(s, c)
      PROVE  Pinned'
      <2>1. MayBeCreated(executions, s, NoExecution, "Agent", c, None)
            BY <1>3 DEF StartSessionAgent, MayBeCreated
      <2>. QED BY <1>1, <1>3, <2>1 DEF StartSessionAgent
<1>4. ASSUME NEW c \in DOMAIN revisions[sessions[s].revision].callables,
             StartSessionOrchestration(s, c)
      PROVE  Pinned'
      <2>1. MayBeCreated(executions, s, NoExecution, "Orchestration", c, None)
            BY <1>4 DEF StartSessionOrchestration, StartsOrchestration, MayBeCreated, PinnedRevision
      <2>. QED BY <1>4, <2>1, OrchestrationStarts
               DEF StartSessionOrchestration, StartsOrchestration
<1>. QED BY <1>2, <1>3, <1>4

\* Executions that create executions
LEMMA ChildrenPreserve ==
    ASSUME Pinned, NEW p \in DOMAIN executions, NEW c, StartOrchestration(p, c) \/ StartAgent(p, c)
    PROVE  Pinned'
<1>0. /\ Settled /\ Good(executions, sessions, revisions)
      /\ Fits(executions, p, sessions, revisions)
      BY DEF Pinned, Good
<1>1. p # NoExecution
      BY <1>0, Places DEF Good, NoExecution
<1> DEFINE s == executions[p].session
<1>2. CASE StartAgent(p, c)
      <2>1. MayBeCreated(executions, s, p, "Agent", c, None)
            BY <1>0, <1>1, <1>2 DEF StartAgent, MayBeCreated, Fits
      <2>2. Good(Created(executions, s, p, "Agent", c, None), sessions, revisions)
            BY <1>0, <2>1, CreatedGood
      <2>. QED BY <1>2, <2>2, BecomesPinned DEF StartAgent
<1>3. CASE StartOrchestration(p, c)
      <2>1. executions[p].kind = "Root" /\ c \in executions[p].authority
            BY <1>3 DEF StartOrchestration, Invoked, SemanticTools
      <2>2. StartsOrchestration(revisions[executions[p].revision], s, p, c)
            BY <1>3 DEF StartOrchestration, ConfigurationOf
      <2>3. MayBeCreated(executions, s, p, "Orchestration", c, None)
            BY <1>0, <1>1, <2>1, <2>2 DEF StartsOrchestration, MayBeCreated, PinnedRevision, Fits
      <2>. QED BY <2>2, <2>3, OrchestrationStarts DEF StartsOrchestration
<1>. QED BY <1>2, <1>3

\* resolve_invocation
LEMMA ResolvePreserves ==
    ASSUME Pinned, NEW e \in DOMAIN executions, NEW k, Resolve(e, k)
    PROVE  Pinned'
<1> DEFINE x == executions[e]
           configuration == revisions[x.revision]
           active == Activated(e, k)
           asked == IF active = {} THEN None ELSE k
           tools == Permitted(ConfigurationOf(executions, e), x.authority)
<1>0. /\ Good(executions, sessions, revisions)
      /\ Fits(executions, e, sessions, revisions)
      BY DEF Pinned, Good
<1>1. DOMAIN x = Fields /\ Equipped(x, configuration) /\ x.state = "Pending" /\ "Pending" \in Live
      BY <1>0 DEF Fits, Resolve, Live
<1>2. ModelOf(e) = IF x.target.kind = "Fixed" THEN x.target.to
                   ELSE Routed(configuration, x.target.to, x.callable)
      BY DEF ModelOf, ConfigurationOf
<1>3. active \subseteq DOMAIN configuration.skills /\ \A j \in active : j = k
      BY DEF Activated, ConfigurationOf
<1>4. tools = Permitted(configuration, x.authority)
      BY DEF ConfigurationOf
<1>5. \/ Becomes(Stopped(executions, e))
      \/ Becomes(Stopped([executions EXCEPT ![e].model = ModelOf(e)], e))
      \/ Becomes([executions EXCEPT ![e].model = ModelOf(e), ![e].asked = asked,
                     ![e].skills = active, ![e].tools = tools])
      BY DEF Resolve
<1>6. CASE Becomes(Stopped(executions, e))
      BY <1>0, <1>6, StoppedGood, BecomesPinned
<1>7. CASE Becomes(Stopped([executions EXCEPT ![e].model = ModelOf(e)], e))
      <2> DEFINE y == [x EXCEPT !.model = ModelOf(e)]
                 ys == [executions EXCEPT ![e].model = ModelOf(e)]
      <2>1. ys = [executions EXCEPT ![e] = y]
            OBVIOUS
      <2>2. /\ Same(x, y) /\ y.state = x.state /\ y.model = ModelOf(e) /\ y.tools = x.tools
            /\ y.skills = x.skills /\ y.asked = x.asked
            BY <1>1 DEF Same, Fields
      <2> HIDE DEF y, ys
      <2>3. Equipped(y, revisions[y.revision])
            BY <1>1, <1>2, <2>2 DEF Equipped, Same
      <2>4. Good(ys, sessions, revisions)
            BY <1>0, <2>1, <2>2, <2>3, OneKeptGood
      <2>5. Good(Stopped(ys, e), sessions, revisions)
            BY <2>4, StoppedGood
      <2>. QED BY <1>7, <2>5, BecomesPinned DEF ys
<1>8. CASE Becomes([executions EXCEPT ![e].model = ModelOf(e), ![e].asked = asked,
                       ![e].skills = active, ![e].tools = tools])
      <2> DEFINE y == [x EXCEPT !.model = ModelOf(e), !.asked = asked, !.skills = active,
                                !.tools = tools]
                 ys == [executions EXCEPT ![e].model = ModelOf(e), ![e].asked = asked,
                           ![e].skills = active, ![e].tools = tools]
      <2> HIDE DEF asked, active, tools
      <2>1. ys = [executions EXCEPT ![e] = y]
            OBVIOUS
      <2>2. /\ Same(x, y) /\ y.state = x.state /\ y.model = ModelOf(e) /\ y.tools = tools
            /\ y.skills = active /\ y.asked = asked
            BY <1>1 DEF Same, Fields
      <2> HIDE DEF y, ys
      <2>3. \A j \in active : asked = j
            BY <1>3 DEF asked
      <2>4. Equipped(y, revisions[y.revision])
            BY <1>1, <1>2, <1>3, <1>4, <2>2, <2>3 DEF Equipped, Same
      <2>5. Good(ys, sessions, revisions)
            BY <1>0, <2>1, <2>2, <2>4, OneKeptGood
      <2>. QED BY <1>8, <2>5, BecomesPinned DEF ys
<1>. QED BY <1>5, <1>6, <1>7, <1>8

\* The other steps of an execution
LEMMA ExecutionsPreserve ==
    ASSUME Pinned, NEW e \in DOMAIN executions,
           Begin(e) \/ Complete(e) \/ Stop(e) \/ \E k : LoadSkill(e, k) \/ InvokeTool(e, k)
    PROVE  Pinned'
<1> DEFINE x == executions[e]
<1>0. /\ Settled /\ Good(executions, sessions, revisions)
      /\ Fits(executions, e, sessions, revisions)
      BY DEF Pinned, Good
<1>1. DOMAIN x = Fields /\ Equipped(x, revisions[x.revision])
      BY <1>0 DEF Fits
<1>2. CASE Begin(e)
      <2>1. x.state \in Live /\ Becomes([executions EXCEPT ![e].state = "Running"])
            BY <1>2 DEF Begin, Live
      <2>2. Good([executions EXCEPT ![e].state = "Running"], sessions, revisions)
            BY <1>0, <2>1, StateKeptGood
      <2>. QED BY <2>1, <2>2, BecomesPinned
<1>3. CASE Stop(e)
      BY <1>0, <1>3, StoppedGood, BecomesPinned DEF Stop
<1>4. ASSUME NEW k, LoadSkill(e, k) PROVE Pinned'
      <2> DEFINE y == [x EXCEPT !.skills = @ \cup {k}]
                 ys == [executions EXCEPT ![e].skills = @ \cup {k}]
      <2>1. ys = [executions EXCEPT ![e] = y]
            OBVIOUS
      <2>2. /\ Same(x, y) /\ y.state = x.state /\ y.model = x.model /\ y.tools = x.tools
            /\ y.skills = x.skills \cup {k} /\ y.asked = x.asked
            BY <1>1 DEF Same, Fields
      <2>3. Becomes(ys) /\ k \in ModelSkills(revisions[x.revision])
            BY <1>4 DEF LoadSkill, ConfigurationOf
      <2> HIDE DEF y, ys
      <2>4. Equipped(y, revisions[y.revision])
            BY <1>1, <2>2, <2>3 DEF Equipped, Same, ModelSkills
      <2>5. Good(ys, sessions, revisions)
            BY <1>0, <2>1, <2>2, <2>4, OneKeptGood
      <2>. QED BY <2>3, <2>5, BecomesPinned
<1>5. ASSUME NEW t, InvokeTool(e, t) PROVE Pinned'
      <2>1. /\ call' = [by |-> e, tool |-> t] /\ t \in x.tools
            /\ UNCHANGED <<offer, revisions, sessions, executions>>
            BY <1>5 DEF InvokeTool
      <2>2. revisions[x.revision].callables[t].needs \subseteq x.authority
            BY <1>1, <2>1 DEF Equipped, Permitted
      <2>3. CallIsGranted'
            BY <2>1, <2>2 DEF CallIsGranted, ConfigurationOf
      <2>4. Settled' /\ Good(executions', sessions', revisions')
            BY <1>0, <2>1 DEF Settled
      <2>. QED BY <2>3, <2>4 DEF Pinned
<1>6. CASE Complete(e)
      <2> DEFINE xs == [executions EXCEPT ![e].state = "Completed"]
                 p == x.parent
      <2>1. /\ x.state = "Running"
            /\ Becomes(IF x.node # None /\ xs[p].state = "Running" THEN Refreshed(xs, p) ELSE xs)
            BY <1>6 DEF Complete
      <2>2. "Completed" \notin Live
            BY DEF Live
      <2>3. /\ Good(xs, sessions, revisions) /\ DOMAIN xs = DOMAIN executions
            BY <1>0, <2>2, StateKeptGood
      <2>4. \A f \in DOMAIN executions :
               xs[f] = IF f = e THEN [executions[f] EXCEPT !.state = "Completed"] ELSE executions[f]
            BY <1>0, <2>2, StateKeptGood
      <2> HIDE DEF xs
      <2>5. ASSUME x.node # None, xs[p].state = "Running"
            PROVE  Good(Refreshed(xs, p), sessions, revisions)
            <3>1. p \in DOMAIN executions /\ p # e /\ executions[p].kind = "Orchestration"
                  <4>1. p \in Nat /\ p < e /\ p # 0 /\ executions[p].kind = "Orchestration"
                        BY <1>0, <2>5 DEF Fits, NoExecution
                  <4>2. Len(executions) \in Nat /\ DOMAIN executions = 1..Len(executions)
                        BY <1>0, Places DEF Good
                  <4>. QED BY <4>1, <4>2
            <3>2. xs[p] = executions[p] /\ Fits(xs, p, sessions, revisions)
                  BY <2>3, <2>4, <3>1 DEF Good
            <3>3. sessions[xs[p].session].open
                  BY <2>5, <3>2 DEF Fits, Live
            <3>4. Good(Advanced(xs, p), sessions, revisions)
                  BY <1>0, <2>3, <3>1, <3>2, <3>3, AdvancedGood
            <3>5. p \in DOMAIN xs /\ Good(xs, sessions, revisions)
                  BY <2>3, <3>1
            <3>6. Good([xs EXCEPT ![p].state = "Completed"], sessions, revisions)
                  BY <3>5, CompletedGood
            <3>. QED BY <3>4, <3>6 DEF Refreshed
      <2>. QED BY <2>1, <2>3, <2>5, BecomesPinned
<1>. QED BY <1>2, <1>3, <1>4, <1>5, <1>6

\* The invariant holds: every execution fits the session and the revision that it
\* was created under (record_domain_event fills in the authority, lib.rs, and the
\* reducer the revision, journal.rs).
THEOREM ExecutionsArePinned == Spec => []Pinned
<1>1. Init => Pinned
      <2> SUFFICES ASSUME Init PROVE Pinned
          OBVIOUS
      <2>1. /\ revisions = <<BuiltIn>> /\ sessions = <<>> /\ executions = <<>> /\ offer = None
            /\ call = None
            BY DEF Init
      <2>2. Listed(<<>>) /\ DOMAIN <<>> = {}
            BY DEF Listed
      <2>3. /\ Listed(revisions) /\ revisions # <<>> /\ DOMAIN revisions = {1}
            /\ revisions[1] = BuiltIn
            <3>1. revisions \in Seq({BuiltIn}) /\ Len(revisions) = 1 /\ revisions[1] = BuiltIn
                  BY <2>1
            <3>. QED BY <3>1, SequenceOfItsElements, LenProperties, EmptySeq
      <2>4. Runs(BuiltIn.callables)
            BY FileAssumption DEF Runs
      <2>5. Settled
            BY <2>1, <2>2, <2>3, <2>4 DEF Settled
      <2>6. Good(executions, sessions, revisions) /\ CallIsGranted
            BY <2>1, <2>2 DEF Good, CallIsGranted
      <2>. QED BY <2>5, <2>6 DEF Pinned
<1>2. Pinned /\ [Next]_vars => Pinned'
      <2> SUFFICES ASSUME Pinned, [Next]_vars PROVE Pinned'
          OBVIOUS
      <2>1. CASE Offer \/ Install
            BY <2>1, InstallPreserves
      <2>2. ASSUME NEW t \in Targets, CreateSession(t) PROVE Pinned'
            BY <2>2, SessionsPreserve
      <2>3. ASSUME NEW s \in DOMAIN sessions,
                   \/ ForkSession(s) \/ CloseSession(s)
                   \/ \E r \in DOMAIN revisions : RebaseSession(s, r)
                   \/ \E t \in Targets : SetSessionTarget(s, t)
            PROVE  Pinned'
            BY <2>3, SessionsPreserve
      <2>4. ASSUME NEW s \in DOMAIN sessions,
                   \/ Submit(s)
                   \/ \E c \in DOMAIN revisions[sessions[s].revision].callables :
                         StartSessionOrchestration(s, c) \/ StartSessionAgent(s, c)
            PROVE  Pinned'
            BY <2>4, RequestsPreserve
      <2>5. ASSUME NEW e \in DOMAIN executions, NEW k, Resolve(e, k) PROVE Pinned'
            BY <2>5, ResolvePreserves
      <2>6. ASSUME NEW e \in DOMAIN executions, NEW c, StartOrchestration(e, c) \/ StartAgent(e, c)
            PROVE  Pinned'
            BY <2>6, ChildrenPreserve
      <2>7. ASSUME NEW e \in DOMAIN executions,
                   Begin(e) \/ Complete(e) \/ Stop(e) \/ \E k : LoadSkill(e, k) \/ InvokeTool(e, k)
            PROVE  Pinned'
            BY <2>7, ExecutionsPreserve
      <2>8. CASE UNCHANGED vars
            BY <2>8 DEF vars, Pinned, Settled, CallIsGranted, ConfigurationOf
      <2>. QED BY <2>1, <2>2, <2>3, <2>4, <2>5, <2>6, <2>7, <2>8 DEF Next
<1>. QED BY <1>1, <1>2, PTL DEF Spec

\* A file is refused exactly if it could not be run, and of what is accepted every
\* node comes after what it depends on and every skill is the one of the highest
\* precedence: topological_order sorts the nodes of any orchestration without a
\* cycle and finds any cycle, and the registration loops lose and replace nothing
\* (callables.rs, configuration.rs, context.rs).
THEOREM SoundFilesAreAccepted == Spec => []AcceptedIffRunnable
BY ExecutionsArePinned, PinnedAccepts, PTL

\* What ConductorRuntime assumes of an orchestration's definition
\* (RegistrationAssumption) register_orchestration sees to, in every revision: no
\* node comes twice, every dependency is a node, and dependencies have no cycle,
\* so that an orchestration always has a node to start (callables.rs).
THEOREM RegistrationSeesToOrder ==
    Spec => [](\A r \in DOMAIN revisions : \A c \in DOMAIN revisions[r].callables :
                  LET d == revisions[r].callables[c] IN
                  d.kind = "Orchestration" =>
                      /\ IsInjective([i \in DOMAIN d.nodes |-> d.nodes[i].id])
                      /\ \A i \in DOMAIN d.nodes : d.nodes[i].dependsOn \subseteq NodeIds(d.nodes)
                      /\ Acyclic(d.nodes))
<1> DEFINE Q == \A r \in DOMAIN revisions : \A c \in DOMAIN revisions[r].callables :
                   LET d == revisions[r].callables[c] IN
                   d.kind = "Orchestration" =>
                       /\ IsInjective([i \in DOMAIN d.nodes |-> d.nodes[i].id])
                       /\ \A i \in DOMAIN d.nodes : d.nodes[i].dependsOn \subseteq NodeIds(d.nodes)
                       /\ Acyclic(d.nodes)
<1>1. Pinned => Q
      <2> SUFFICES ASSUME Pinned, NEW r \in DOMAIN revisions, NEW c \in DOMAIN revisions[r].callables,
                          NEW d, d = revisions[r].callables[c], d.kind = "Orchestration"
                   PROVE  /\ IsInjective([i \in DOMAIN d.nodes |-> d.nodes[i].id])
                          /\ \A i \in DOMAIN d.nodes : d.nodes[i].dependsOn \subseteq NodeIds(d.nodes)
                          /\ Acyclic(d.nodes)
          OBVIOUS
      <2>1. Listed(d.nodes) /\ InOrder(d.nodes)
            BY DEF Pinned, Settled, Runs
      <2>2. Acyclic(d.nodes)
            BY <2>1, InOrderIsAcyclic
      <2>3. Len(d.nodes) \in Nat /\ DOMAIN d.nodes = 1..Len(d.nodes)
            BY <2>1, Places
      <2>4. \A i \in DOMAIN d.nodes : \A j \in 1..(i - 1) : j \in DOMAIN d.nodes
            BY <2>3
      <2>5. ASSUME NEW i \in DOMAIN d.nodes PROVE d.nodes[i].dependsOn \subseteq NodeIds(d.nodes)
            <3>1. {d.nodes[j].id : j \in 1..(i - 1)} \subseteq NodeIds(d.nodes)
                  BY <2>4 DEF NodeIds
            <3>. QED BY <2>1, <3>1 DEF InOrder
      <2>6. IsInjective([i \in DOMAIN d.nodes |-> d.nodes[i].id])
            BY <2>1 DEF InOrder
      <2>. QED BY <2>2, <2>5, <2>6
<1>. QED BY <1>1, ExecutionsArePinned, PTL

\* All of a tree runs under the revision and the target that its top was created
\* with, and with the models, tools and skills of that revision, however often
\* configurations are reloaded and sessions rebased (reload_configuration and
\* resolve_invocation, lib.rs).
THEOREM TreesArePinned == Spec => []TreeIsPinned
BY ExecutionsArePinned, PinnedTree, PTL

\* No descendant has what an ancestor could not delegate, and a tool that changes
\* files is called only below writers (effective_authority_for_execution, lib.rs).
THEOREM AuthorityShrinks == Spec => []AuthorityNeverExpands
BY ExecutionsArePinned, PinnedAuthority, PTL

\* An orchestration that was started may start each of its agents, because what was
\* registered has a cast of agents and roots may delegate to all of them
\* (register_orchestration, callables.rs; start_orchestration, lib.rs).
THEOREM CastsAreDelegated == Spec => []CastIsDelegated
BY ExecutionsArePinned, PinnedCast, PTL

\* A session that was closed has nothing left to run (close_session, lib.rs).
THEOREM ClosedSessionsAreQuiet == Spec => []ClosedIsQuiet
BY ExecutionsArePinned, PinnedQuiet, PTL
====
