----------------------------- MODULE TextProofs -----------------------------
(***************************************************************************)
(* What becomes of text: the CI config of a pipeline (ConfigProcessing)    *)
(* and the output of its jobs (JobLogs, JobWatch), which share no state.   *)
(*                                                                         *)
(* For any secrets, texts and graphs of jobs, a pipeline gets the secrets  *)
(* that its branch may see and the markers of its text become them; the    *)
(* jobs of a config that is accepted can be run, and every cycle among     *)
(* those of one that is not is reported.  For any output, cut anywhere,    *)
(* the stored logs make it up, and a browser that follows them misses      *)
(* nothing.  Recursive functions are reached through one theorem,          *)
(* Recursion.                                                              *)
(***************************************************************************)
EXTENDS ConfigProcessing, JobWatch, FiniteSetTheorems, SequenceTheorems,
        WellFoundedInduction, TLAPS

-----------------------------------------------------------------------------
(* Well-founded recursion.  A recursive function of TLA+ is a CHOOSE that   *)
(* satisfies its equation if something does: Recursion says that something *)
(* does, for an equation that looks only at what is below its argument.     *)

\* A nonempty set of numbers has a least one.
LEMMA LeastNumber ==
  ASSUME NEW T \in SUBSET Nat, T # {}
  PROVE  \E n \in T : \A m \in T : n <= m
<1>1. \E n \in T : \A m \in T : ~(<<m, n>> \in OpToRel(<, Nat))
  BY NatLessThanWellFounded, WFMin
<1>2. \E n \in T : \A m \in T : ~(m < n)
  BY <1>1, Zenon DEF OpToRel
<1> QED
  BY <1>2

\* Below is well founded.
WellFounded(Below, D) ==
  \A T \in SUBSET D : T # {} => \E x \in T : \A y \in T : <<y, x>> \notin Below

\* G computes the value of x from the values of what is below x.
LooksBelow(G, Below, D, S) ==
  /\ \A x \in D : \A f \in [D -> S] : G[<<x, f>>] \in S
  /\ \A x \in D : \A f, g \in [D -> S] :
       (\A y \in D : <<y, x>> \in Below => f[y] = g[y]) => G[<<x, f>>] = G[<<x, g>>]

Solves(f, G, D, S) == f \in [D -> S] /\ \A x \in D : f[x] = G[<<x, f>>]

\* If what is below every element can be exhausted, the equation has a solution:
\* the union of the solutions on the parts of D that are closed downwards.
LEMMA Recursion ==
  ASSUME NEW D, NEW S, S # {}, NEW Below, WellFounded(Below, D),
         NEW G, LooksBelow(G, Below, D, S)
  PROVE  \E f : Solves(f, G, D, S)
<1> DEFINE Partial(A, f) ==
             /\ A \in SUBSET D /\ f \in [D -> S]
             /\ \A x \in A : f[x] = G[<<x, f>>]
             /\ \A x \in A : \A y \in D : <<y, x>> \in Below => y \in A
<1>0. PICK a \in S : TRUE
  OBVIOUS
<1>1. ASSUME NEW A, NEW B, NEW f, NEW g, Partial(A, f), Partial(B, g), NEW x \in A \cap B
      PROVE  f[x] = g[x]
  <2> DEFINE T == {y \in A \cap B : f[y] # g[y]}
  <2> SUFFICES ASSUME T # {} PROVE FALSE
    OBVIOUS
  <2>1. T \in SUBSET D
    BY <1>1
  <2>2. PICK y \in T : \A z \in T : <<z, y>> \notin Below
    BY <2>1 DEF WellFounded
  <2>3. \A z \in D : <<z, y>> \in Below => f[z] = g[z]
    BY <1>1, <2>2
  <2>4. G[<<y, f>>] = G[<<y, g>>]
    BY <1>1, <2>3 DEF LooksBelow
  <2> QED
    BY <1>1, <2>4
<1>2. ASSUME NEW A, NEW f, Partial(A, f)
      PROVE  /\ A \in SUBSET D /\ f \in [D -> S]
             /\ \A x \in A : f[x] = G[<<x, f>>]
             /\ \A x \in A : \A y \in D : <<y, x>> \in Below => y \in A
  BY <1>2
<1>3. ASSUME NEW A \in SUBSET D, NEW f \in [D -> S],
             \A x \in A : f[x] = G[<<x, f>>] /\ \A y \in D : <<y, x>> \in Below => y \in A
      PROVE  Partial(A, f)
  BY <1>3
<1> HIDE DEF Partial
<1> DEFINE Whole == {x \in D : \E A, f : Partial(A, f) /\ x \in A}
           Value(x) == CHOOSE v : \E A, f : Partial(A, f) /\ x \in A /\ v = f[x]
           F == [x \in D |-> IF x \in Whole THEN Value(x) ELSE a]
<1>4. ASSUME NEW A, NEW f, Partial(A, f), NEW x \in A
      PROVE  x \in Whole /\ Value(x) = f[x]
  <2>1. \E v : \E B, g : Partial(B, g) /\ x \in B /\ v = g[x]
    BY <1>4
  <2>2. PICK B, g : Partial(B, g) /\ x \in B /\ Value(x) = g[x]
    BY <2>1
  <2>3. A \in SUBSET D
    BY <1>2, <1>4
  <2> QED
    BY <1>1, <1>4, <2>2, <2>3
<1>5. ASSUME NEW A, NEW f, Partial(A, f), NEW x \in A
      PROVE  x \in Whole /\ F[x] = f[x]
  <2>1. x \in Whole /\ Value(x) = f[x]
    BY <1>4, <1>5
  <2>2. x \in D
    BY <1>2, <1>5
  <2> HIDE DEF Whole, Value
  <2> QED BY <2>1, <2>2
<1>6. \A x \in Whole : x \in D /\ \E A, f : Partial(A, f) /\ x \in A
  OBVIOUS
<1>7. F \in [D -> S] /\ Whole \in SUBSET D
  <2> SUFFICES ASSUME NEW x \in D, x \in Whole PROVE Value(x) \in S
    OBVIOUS
  <2>1. PICK A, f : Partial(A, f) /\ x \in A
    OBVIOUS
  <2>2. f \in [D -> S]
    BY <1>2, <2>1
  <2>3. Value(x) = f[x]
    BY <1>4, <2>1
  <2> QED
    BY <2>2, <2>3
<1> HIDE DEF F, Whole, Value
<1>8. Partial(Whole, F)
  <2> SUFFICES ASSUME NEW x \in Whole
               PROVE  /\ F[x] = G[<<x, F>>]
                      /\ \A y \in D : <<y, x>> \in Below => y \in Whole
    BY <1>3, <1>7
  <2>1. PICK A, f : Partial(A, f) /\ x \in A
    BY <1>6
  <2>2. Partial(A, f)
    BY <2>1
  <2>3. /\ A \in SUBSET D /\ f \in [D -> S]
        /\ \A z \in A : f[z] = G[<<z, f>>]
        /\ \A z \in A : \A y \in D : <<y, z>> \in Below => y \in A
    BY <1>2, <2>2
  <2>4. \A y \in A : y \in Whole /\ F[y] = f[y]
    BY <1>5, <2>2
  <2>5. \A y \in D : <<y, x>> \in Below => y \in Whole /\ F[y] = f[y]
    BY <2>1, <2>3, <2>4
  <2>6. x \in D /\ G[<<x, F>>] = G[<<x, f>>]
    BY <1>7, <2>3, <2>5 DEF LooksBelow
  <2> QED
    BY <2>1, <2>3, <2>4, <2>5, <2>6
<1>9. /\ \A x \in Whole : F[x] = G[<<x, F>>]
      /\ \A x \in Whole : \A y \in D : <<y, x>> \in Below => y \in Whole
  BY <1>2, <1>8
<1>10. ASSUME D \ Whole # {} PROVE FALSE
  <2>1. PICK x \in D \ Whole : \A y \in D \ Whole : <<y, x>> \notin Below
    BY <1>10 DEF WellFounded
  <2> DEFINE f == [F EXCEPT ![x] = G[<<x, F>>]]
             A == Whole \cup {x}
  <2>2. f \in [D -> S] /\ A \in SUBSET D
    BY <1>7 DEF LooksBelow
  <2>3. \A y \in D \ {x} : f[y] = F[y]
    BY <1>7
  <2>4. \A y \in A, z \in D : <<z, y>> \in Below => z \in Whole /\ z # x
    BY <1>9, <2>1
  <2>5. /\ f[x] = G[<<x, F>>] /\ x \in A
        /\ \A y \in A : y \in Whole \/ y = x
        /\ \A z \in Whole : z \in A /\ z \in D
    BY <1>7
  <2> HIDE DEF f, A
  <2>6. ASSUME NEW y \in A PROVE G[<<y, f>>] = G[<<y, F>>]
    <3>1. y \in D /\ \A z \in D : <<z, y>> \in Below => f[z] = F[z]
      BY <2>2, <2>3, <2>4
    <3> QED
      BY <1>7, <2>2, <3>1 DEF LooksBelow
  <2>7. \A y \in A : f[y] = G[<<y, f>>]
    BY <1>9, <2>1, <2>3, <2>5, <2>6
  <2>8. Partial(A, f)
    BY <1>3, <2>2, <2>4, <2>5, <2>7
  <2> QED
    BY <1>5, <2>1, <2>5, <2>8
<1> QED
  BY <1>7, <1>9, <1>10 DEF Solves

-----------------------------------------------------------------------------
(* The search for cyclic dependencies.                                     *)

\* The elements of a sequence are its head and those of its tail.
LEMMA SetOfSequence ==
  ASSUME NEW X, NEW s \in Seq(X)
  PROVE  /\ ToSet(s) \subseteq X
         /\ s = <<>> => ToSet(s) = {}
         /\ \A x \in X : Append(s, x) \in Seq(X) /\ ToSet(Append(s, x)) = ToSet(s) \cup {x}
         /\ s # <<>> => /\ Head(s) \in X /\ Tail(s) \in Seq(X) /\ Len(Tail(s)) < Len(s)
                        /\ ToSet(s) = {Head(s)} \cup ToSet(Tail(s))
<1>1. ToSet(s) \subseteq X /\ (s = <<>> => ToSet(s) = {})
  BY DEF ToSet
<1>2. ASSUME NEW x \in X
      PROVE  Append(s, x) \in Seq(X) /\ ToSet(Append(s, x)) = ToSet(s) \cup {x}
  <2>1. DOMAIN Append(s, x) = 1..(Len(s) + 1) /\ DOMAIN s = 1..Len(s) /\ Len(s) \in Nat
    OBVIOUS
  <2>2. \A i \in 1..Len(s) : Append(s, x)[i] = s[i]
    OBVIOUS
  <2>3. Append(s, x)[Len(s) + 1] = x
    OBVIOUS
  <2>4. \A y \in ToSet(Append(s, x)) : y \in ToSet(s) \cup {x}
    BY <2>1, <2>2, <2>3 DEF ToSet
  <2>5. \A y \in ToSet(s) \cup {x} : y \in ToSet(Append(s, x))
    BY <2>1, <2>2, <2>3 DEF ToSet
  <2> QED
    BY <2>4, <2>5
<1>3. ASSUME s # <<>>
      PROVE  /\ Head(s) \in X /\ Tail(s) \in Seq(X) /\ Len(Tail(s)) < Len(s)
             /\ ToSet(s) = {Head(s)} \cup ToSet(Tail(s))
  <2>1. Head(s) = s[1] /\ Tail(s) \in Seq(X) /\ Len(Tail(s)) = Len(s) - 1 /\ Len(s) \in Nat \ {0}
    BY <1>3
  <2>2. \A i \in 1..(Len(s) - 1) : Tail(s)[i] = s[i + 1]
    BY <1>3
  <2>3. DOMAIN s = 1..Len(s) /\ DOMAIN Tail(s) = 1..(Len(s) - 1)
    BY <2>1
  <2>4. ASSUME NEW i \in 1..Len(s) PROVE s[i] \in {Head(s)} \cup ToSet(Tail(s))
    <3>1. CASE i = 1
      BY <2>1, <3>1
    <3>2. CASE i # 1
      <4>1. i - 1 \in 1..(Len(s) - 1) /\ (i - 1) + 1 = i
        BY <2>1, <3>2
      <4>2. Tail(s)[i - 1] = s[i]
        BY <2>2, <4>1
      <4> QED
        BY <2>3, <4>1, <4>2 DEF ToSet
    <3> QED
      BY <3>1, <3>2
  <2>5. \A x \in ToSet(Tail(s)) : x \in ToSet(s)
    BY <2>1, <2>2, <2>3 DEF ToSet
  <2>6. Head(s) \in ToSet(s) /\ Head(s) \in X
    BY <2>1, <2>3 DEF ToSet
  <2>7. \A x \in ToSet(s) : x \in {Head(s)} \cup ToSet(Tail(s))
    BY <2>3, <2>4 DEF ToSet
  <2> QED
    BY <2>1, <2>5, <2>6, <2>7
<1> QED
  BY <1>1, <1>2, <1>3

Parsed == Names \subseteq Job /\ IsFiniteSet(Names) /\ \A j \in Names : jobs[j] \in Seq(Job)

\* A call that descends has fewer jobs to visit, one that goes on a shorter list.
ToVisit(call) == Cardinality(Names \ ToSet(call[2]))
LowerCall ==
  {p \in Calls \X Calls :
     \/ ToVisit(p[1]) < ToVisit(p[2])
     \/ ToVisit(p[1]) = ToVisit(p[2]) /\ Len(p[1][1]) < Len(p[2][1])}

LEMMA CallType ==
  ASSUME Parsed, NEW call \in Calls
  PROVE  /\ call[1] \in Seq(Job) /\ call[2] \in Seq(Job) /\ call = <<call[1], call[2]>>
         /\ ToVisit(call) \in Nat /\ Len(call[1]) \in Nat
<1>1. call[1] \in Seq(Job) /\ call[2] \in Seq(Job) /\ call = <<call[1], call[2]>>
  BY DEF Calls
<1>2. IsFiniteSet(Names \ ToSet(call[2]))
  BY FS_Difference DEF Parsed
<1> QED
  BY <1>1, <1>2, FS_CardinalityType DEF ToVisit

LEMMA LowerCallIs ==
  ASSUME NEW c \in Calls, NEW d \in Calls
  PROVE  <<c, d>> \in LowerCall <=>
           ToVisit(c) < ToVisit(d) \/ (ToVisit(c) = ToVisit(d) /\ Len(c[1]) < Len(d[1]))
<1>1. <<c, d>> \in Calls \X Calls /\ <<c, d>>[1] = c /\ <<c, d>>[2] = d
  OBVIOUS
<1> QED
  BY <1>1 DEF LowerCall

\* The search ends: each call visits fewer jobs, or has fewer dependencies left.
LEMMA LowestCall ==
  ASSUME Parsed
  PROVE  WellFounded(LowerCall, Calls)
<1> SUFFICES ASSUME NEW T \in SUBSET Calls, T # {}
             PROVE  \E x \in T : \A y \in T : <<y, x>> \notin LowerCall
  BY DEF WellFounded
<1>1. \A c \in T : ToVisit(c) \in Nat /\ Len(c[1]) \in Nat
  BY CallType
<1> DEFINE Counts == {ToVisit(c) : c \in T}
<1>2. PICK n \in Counts : \A m \in Counts : n <= m
  <2>1. Counts \in SUBSET Nat /\ Counts # {}
    BY <1>1
  <2> HIDE DEF Counts
  <2> QED BY <2>1, LeastNumber
<1> DEFINE Few == {c \in T : ToVisit(c) = n}
           Lengths == {Len(c[1]) : c \in Few}
<1>3. PICK k \in Lengths : \A m \in Lengths : k <= m
  <2>1. Lengths \in SUBSET Nat /\ Lengths # {}
    BY <1>1, <1>2
  <2> HIDE DEF Lengths
  <2> QED BY <2>1, LeastNumber
<1>4. PICK x \in T : ToVisit(x) = n /\ Len(x[1]) = k
  BY <1>3
<1>5. \A y \in T : n <= ToVisit(y) /\ (ToVisit(y) = n => k <= Len(y[1]))
  BY <1>2, <1>3
<1>6. \A y \in T : ~(ToVisit(y) < ToVisit(x) \/ (ToVisit(y) = ToVisit(x) /\ Len(y[1]) < Len(x[1])))
  BY <1>1, <1>4, <1>5
<1> QED
  <2>1. \A y \in T : <<y, x>> \notin LowerCall
    BY <1>6, LowerCallIs
  <2> QED BY <2>1

\* The calls that a call makes.
LEMMA LowerCalls ==
  ASSUME Parsed, NEW call \in Calls, call[1] # <<>>
  PROVE  LET dep == Head(call[1])
             rest == Tail(call[1])
             chain == Append(call[2], dep)
         IN /\ dep \in Job /\ chain \in Seq(Job)
            /\ <<rest, call[2]>> \in Calls /\ <<<<rest, call[2]>>, call>> \in LowerCall
            /\ <<rest, chain>> \in Calls /\ <<<<rest, chain>>, call>> \in LowerCall
            /\ <<Dependencies(dep), chain>> \in Calls
            /\ dep \notin ToSet(call[2]) => <<<<Dependencies(dep), chain>>, call>> \in LowerCall
<1> DEFINE dep == Head(call[1])
           rest == Tail(call[1])
           chain == Append(call[2], dep)
<1>1. call[1] \in Seq(Job) /\ call[2] \in Seq(Job) /\ call = <<call[1], call[2]>> /\ ToVisit(call) \in Nat
  BY CallType
<1>2. dep \in Job /\ rest \in Seq(Job) /\ Len(rest) < Len(call[1])
  BY <1>1, SetOfSequence
<1>3. chain \in Seq(Job) /\ ToSet(chain) = ToSet(call[2]) \cup {dep}
  BY <1>1, <1>2, SetOfSequence
<1>4. Dependencies(dep) \in Seq(Job)
  BY DEF Dependencies, Parsed
<1> HIDE DEF dep, rest, chain
<1>5. /\ <<rest, call[2]>> \in Calls /\ <<rest, chain>> \in Calls
      /\ <<Dependencies(dep), chain>> \in Calls
  BY <1>1, <1>2, <1>3, <1>4 DEF Calls
<1> DEFINE now == Names \ ToSet(call[2])
           then == Names \ ToSet(chain)
<1>6. IsFiniteSet(now) /\ then \subseteq now /\ then = now \ {dep}
  BY <1>3, FS_Difference DEF Parsed
<1>7. ToVisit(call) = Cardinality(now) /\ ToVisit(<<rest, call[2]>>) = Cardinality(now)
      /\ ToVisit(<<rest, chain>>) = Cardinality(then)
      /\ ToVisit(<<Dependencies(dep), chain>>) = Cardinality(then)
  BY DEF ToVisit
<1>12. dep \in Names /\ dep \notin ToSet(call[2]) => dep \in now
  OBVIOUS
<1>13. dep \notin Names => then = now
  BY <1>6
<1> HIDE DEF now, then
<1>8. IsFiniteSet(then) /\ Cardinality(then) <= Cardinality(now)
      /\ Cardinality(then) \in Nat /\ Cardinality(now) \in Nat
  BY <1>6, FS_Subset, FS_CardinalityType
<1>9. Len(rest) \in Nat /\ Len(call[1]) \in Nat
  BY <1>1, <1>2
<1>10. <<<<rest, call[2]>>, call>> \in LowerCall /\ <<<<rest, chain>>, call>> \in LowerCall
  <2>1. <<rest, call[2]>>[1] = rest /\ <<rest, chain>>[1] = rest
    OBVIOUS
  <2>2. ToVisit(<<rest, chain>>) < ToVisit(call) \/ ToVisit(<<rest, chain>>) = ToVisit(call)
    BY <1>7, <1>8
  <2>3. <<<<rest, chain>>, call>> \in LowerCall
    BY <1>2, <1>5, <2>1, <2>2, LowerCallIs
  <2>4. <<<<rest, call[2]>>, call>> \in LowerCall
    BY <1>2, <1>5, <1>7, <2>1, LowerCallIs
  <2> QED
    BY <2>3, <2>4
<1>11. ASSUME dep \notin ToSet(call[2])
       PROVE  <<<<Dependencies(dep), chain>>, call>> \in LowerCall
  <2>1. CASE dep \in Names
    <3>1. dep \in now
      BY <1>11, <1>12, <2>1
    <3>2. Cardinality(then) = Cardinality(now) - 1
      BY <1>6, <3>1, FS_RemoveElement
    <3>3. Cardinality(then) < Cardinality(now)
      BY <1>8, <3>2
    <3> QED
      BY <1>5, <1>7, <3>3, LowerCallIs
  <2>2. CASE dep \notin Names
    <3>1. Dependencies(dep) = <<>> /\ <<Dependencies(dep), chain>>[1] = Dependencies(dep)
      BY <2>2 DEF Dependencies
    <3>2. Len(<<Dependencies(dep), chain>>[1]) = 0
      BY <3>1
    <3>3. 0 < Len(call[1])
      BY <1>2, <1>9
    <3> QED
      BY <1>5, <1>7, <1>13, <2>2, <3>2, <3>3, LowerCallIs
  <2> QED
    BY <2>1, <2>2
<1> QED
  BY <1>2, <1>3, <1>5, <1>10, <1>11 DEF dep, rest, chain

\* What the search finds below a call, w being what it finds below others.
Found(w, call) ==
  LET dep == Head(call[1])
      chain == Append(call[2], dep)
  IN IF call[1] = <<>> THEN {}
     ELSE IF dep \in ToSet(call[2]) THEN {chain} \cup w[<<Tail(call[1]), call[2]>>]
     ELSE w[<<Dependencies(dep), chain>>] \cup w[<<Tail(call[1]), chain>>]

\* It depends on what is found below lower calls only.
LEMMA FoundBelow ==
  ASSUME Parsed, NEW call \in Calls, NEW v, NEW w,
         \A c \in Calls : <<c, call>> \in LowerCall => v[c] = w[c]
  PROVE  Found(v, call) = Found(w, call)
<1>1. CASE call[1] = <<>>
  BY <1>1 DEF Found
<1>2. CASE call[1] # <<>>
  <2> DEFINE dep == Head(call[1])
             chain == Append(call[2], dep)
  <2>1. /\ v[<<Tail(call[1]), call[2]>>] = w[<<Tail(call[1]), call[2]>>]
        /\ v[<<Tail(call[1]), chain>>] = w[<<Tail(call[1]), chain>>]
        /\ dep \notin ToSet(call[2]) => v[<<Dependencies(dep), chain>>] = w[<<Dependencies(dep), chain>>]
    BY <1>2, LowerCalls
  <2> QED
    BY <1>2, <2>1 DEF Found
<1> QED
  BY <1>1, <1>2

\* What the search finds are chains of jobs.
LEMMA FoundType ==
  ASSUME Parsed, NEW call \in Calls, NEW w \in [Calls -> SUBSET Seq(Job)]
  PROVE  Found(w, call) \in SUBSET Seq(Job)
<1>1. CASE call[1] = <<>>
  BY <1>1 DEF Found
<1>2. CASE call[1] # <<>>
  <2> DEFINE dep == Head(call[1])
             chain == Append(call[2], dep)
  <2>1. /\ chain \in Seq(Job)
        /\ w[<<Tail(call[1]), call[2]>>] \in SUBSET Seq(Job)
        /\ w[<<Tail(call[1]), chain>>] \in SUBSET Seq(Job)
        /\ w[<<Dependencies(dep), chain>>] \in SUBSET Seq(Job)
    BY <1>2, LowerCalls
  <2> QED
    BY <1>2, <2>1 DEF Found
<1> QED
  BY <1>1, <1>2

\* Walk satisfies its equation: the search ends.
LEMMA WalkFinds ==
  ASSUME Parsed
  PROVE  /\ Walk \in [Calls -> SUBSET Seq(Job)]
         /\ \A call \in Calls : Walk[call] = Found(Walk, call)
<1> DEFINE S == SUBSET Seq(Job)
           G == [p \in Calls \X [Calls -> S] |-> Found(p[2], p[1])]
<1>1. \A call \in Calls, w \in [Calls -> S] : G[<<call, w>>] = Found(w, call)
  OBVIOUS
<1>2. \A call \in Calls, w \in [Calls -> S] : G[<<call, w>>] \in S
  BY <1>1, FoundType
<1>3. LooksBelow(G, LowerCall, Calls, S)
  <2> SUFFICES ASSUME NEW call \in Calls, NEW v \in [Calls -> S], NEW w \in [Calls -> S],
                      \A c \in Calls : <<c, call>> \in LowerCall => v[c] = w[c]
               PROVE  G[<<call, v>>] = G[<<call, w>>]
    BY <1>2 DEF LooksBelow
  <2>1. Found(v, call) = Found(w, call)
    BY FoundBelow
  <2> QED
    BY <1>1, <2>1
<1>4. S # {}
  OBVIOUS
<1> HIDE DEF G, S
<1>5. PICK w \in [Calls -> S] : \A call \in Calls : w[call] = G[<<call, w>>]
  BY <1>3, <1>4, LowestCall, Recursion DEF Solves
<1>6. w = [call \in Calls |-> Found(w, call)]
  BY <1>1, <1>5
<1>7. Walk = [call \in Calls |-> Found(Walk, call)]
  BY <1>6, Zenon DEF Walk, Found
<1>8. Walk = [call \in Calls |-> Walk[call]] /\ \A call \in Calls : Walk[call] = Found(Walk, call)
  <2> HIDE DEF Walk
  <2> QED BY <1>7
<1>9. \A call \in Calls : Walk[call] = w[call]
  <2> HIDE DEF Walk
  <2> DEFINE T == {call \in Calls : Walk[call] # w[call]}
  <2> SUFFICES ASSUME T # {} PROVE FALSE
    OBVIOUS
  <2>1. PICK call \in T : \A c \in T : <<c, call>> \notin LowerCall
    BY LowestCall DEF WellFounded
  <2>2. \A c \in Calls : <<c, call>> \in LowerCall => Walk[c] = w[c]
    BY <2>1
  <2>3. Found(Walk, call) = Found(w, call)
    BY <2>1, <2>2, FoundBelow
  <2> QED
    BY <1>1, <1>5, <1>8, <2>1, <2>3
<1> QED
  BY <1>5, <1>8, <1>9 DEF S

\* What a search that finds nothing goes through: each dependency is new to the
\* chain, and nothing is found below it nor below those that follow.
LEMMA NothingFound ==
  ASSUME Parsed, NEW call \in Calls, Walk[call] = {}, call[1] # <<>>
  PROVE  LET dep == Head(call[1])
             chain == Append(call[2], dep)
         IN /\ dep \notin ToSet(call[2])
            /\ Walk[<<Dependencies(dep), chain>>] = {} /\ Walk[<<Tail(call[1]), chain>>] = {}
            /\ ToSet(call[1]) = {dep} \cup ToSet(Tail(call[1]))
            /\ ToSet(chain) = ToSet(call[2]) \cup {dep}
<1>1. Found(Walk, call) = {}
  BY WalkFinds
<1>2. Head(call[1]) \in Job /\ ToSet(call[1]) = {Head(call[1])} \cup ToSet(Tail(call[1]))
  BY CallType, SetOfSequence
<1>3. ToSet(Append(call[2], Head(call[1]))) = ToSet(call[2]) \cup {Head(call[1])}
  BY <1>2, CallType, SetOfSequence
<1> QED
  BY <1>1, <1>2, <1>3 DEF Found

\* The call that searches from a job.
LEMMA CyclesCall ==
  ASSUME Parsed, NEW j \in Names
  PROVE  /\ <<jobs[j], <<j>>>> \in Calls
         /\ ToSet(<<j>>) = {j}
         /\ Cycles(j) = Walk[<<jobs[j], <<j>>>>] /\ Cycles(j) \subseteq Seq(Job)
<1>1. jobs[j] \in Seq(Job) /\ <<j>> \in Seq(Job)
  BY DEF Parsed
<1>2. <<jobs[j], <<j>>>> \in Calls
  BY <1>1 DEF Calls
<1>3. ToSet(<<j>>) = {j}
  BY DEF ToSet
<1> QED
  BY <1>2, <1>3, WalkFinds DEF Cycles

\* Jobs each of which depends on one of them are found: a search that enters
\* them cannot leave, so it would go on for ever.
LEMMA AcyclicIfNone ==
  ASSUME Parsed, \A j \in Names : Cycles(j) = {}
  PROVE  Acyclic
<1> SUFFICES ASSUME NEW S \in SUBSET Names, S # {}, \A j \in S : ToSet(jobs[j]) \cap S # {}
             PROVE  FALSE
  BY DEF Acyclic
<1> DEFINE T == {c \in Calls : Walk[c] = {} /\ ToSet(c[1]) \cap S # {}}
<1>1. PICK j \in S : TRUE
  OBVIOUS
<1>2. <<jobs[j], <<j>>>> \in T
  <2>1. <<jobs[j], <<j>>>>[1] = jobs[j]
    OBVIOUS
  <2> HIDE DEF T
  <2> QED BY <1>1, <2>1, CyclesCall DEF T
<1>3. PICK c \in T : \A d \in T : <<d, c>> \notin LowerCall
  <2>1. T \in SUBSET Calls /\ T # {}
    BY <1>2
  <2> HIDE DEF T
  <2> QED BY <2>1, LowestCall DEF WellFounded
<1>4. c \in Calls /\ Walk[c] = {} /\ ToSet(c[1]) \cap S # {}
  BY <1>3
<1>5. \A d \in Calls : Walk[d] = {} /\ ToSet(d[1]) \cap S # {} => <<d, c>> \notin LowerCall
  BY <1>3
<1> HIDE DEF T
<1>6. c[1] # <<>>
  BY <1>4, CallType, SetOfSequence
<1> DEFINE dep == Head(c[1])
           rest == Tail(c[1])
           chain == Append(c[2], dep)
<1>7. /\ dep \notin ToSet(c[2]) /\ Walk[<<Dependencies(dep), chain>>] = {}
      /\ Walk[<<rest, chain>>] = {} /\ ToSet(c[1]) = {dep} \cup ToSet(rest)
  BY <1>4, <1>6, NothingFound
<1>8. /\ <<rest, chain>> \in Calls /\ <<<<rest, chain>>, c>> \in LowerCall
      /\ <<Dependencies(dep), chain>> \in Calls
      /\ dep \notin ToSet(c[2]) => <<<<Dependencies(dep), chain>>, c>> \in LowerCall
  BY <1>4, <1>6, LowerCalls
<1> HIDE DEF dep, rest, chain
<1>9. CASE dep \in S
  <2>1. Dependencies(dep) = jobs[dep] /\ <<Dependencies(dep), chain>>[1] = jobs[dep]
    BY <1>9 DEF Dependencies
  <2> QED
    BY <1>5, <1>7, <1>8, <1>9, <2>1
<1>10. CASE dep \notin S
  <2>1. <<rest, chain>>[1] = rest /\ ToSet(rest) \cap S # {}
    BY <1>4, <1>7, <1>10
  <2> QED
    BY <1>5, <1>7, <1>8, <2>1
<1> QED
  BY <1>9, <1>10

\* A search that finds nothing has descended into every dependency, below a
\* chain that does not have it.
LEMMA Descended ==
  ASSUME Parsed, NEW call \in Calls, Walk[call] = {}, NEW d \in ToSet(call[1])
  PROVE  /\ d \notin ToSet(call[2])
         /\ \E chain \in Seq(Job) : /\ ToSet(call[2]) \subseteq ToSet(chain)
                                    /\ Walk[<<Dependencies(d), chain>>] = {}
<1> DEFINE Bad(c) == /\ Walk[c] = {} /\ ToSet(call[2]) \subseteq ToSet(c[2]) /\ d \in ToSet(c[1])
           T == {c \in Calls : Bad(c)}
<1>1. call \in T
  OBVIOUS
<1>2. PICK c \in T : \A e \in T : <<e, c>> \notin LowerCall
  <2>1. T \in SUBSET Calls /\ T # {}
    BY <1>1
  <2> HIDE DEF T
  <2> QED BY <2>1, LowestCall DEF WellFounded
<1>3. c \in Calls /\ Bad(c) /\ \A e \in Calls : Bad(e) => <<e, c>> \notin LowerCall
  BY <1>2
<1> HIDE DEF T
<1>4. c[1] # <<>>
  BY <1>3, CallType, SetOfSequence
<1> DEFINE dep == Head(c[1])
           rest == Tail(c[1])
           chain == Append(c[2], dep)
<1>5. /\ dep \notin ToSet(c[2]) /\ Walk[<<Dependencies(dep), chain>>] = {}
      /\ Walk[<<rest, chain>>] = {} /\ ToSet(c[1]) = {dep} \cup ToSet(rest)
      /\ ToSet(chain) = ToSet(c[2]) \cup {dep}
  BY <1>3, <1>4, NothingFound
<1>6. <<rest, chain>> \in Calls /\ <<<<rest, chain>>, c>> \in LowerCall /\ chain \in Seq(Job)
  BY <1>3, <1>4, LowerCalls
<1> HIDE DEF dep, rest, chain
<1>7. d = dep
  <2> SUFFICES ASSUME d # dep PROVE FALSE
    OBVIOUS
  <2>1. <<rest, chain>>[1] = rest /\ <<rest, chain>>[2] = chain
    OBVIOUS
  <2>2. Bad(<<rest, chain>>)
    BY <1>3, <1>5, <2>1
  <2> HIDE DEF Bad
  <2> QED
    BY <1>3, <1>6, <2>2
<1>8. d \notin ToSet(call[2])
  BY <1>3, <1>5, <1>7
<1>9. ToSet(call[2]) \subseteq ToSet(chain) /\ Walk[<<Dependencies(d), chain>>] = {}
  BY <1>3, <1>5, <1>7
<1> QED
  BY <1>6, <1>8, <1>9

\* What a search descends into without finding a cycle is closed under
\* dependencies and does not have the job it began with.
LEMMA OnCycleIsFound ==
  ASSUME Parsed, NEW j \in Names, OnCycle(j)
  PROVE  Cycles(j) # {}
<1> SUFFICES ASSUME Cycles(j) = {} PROVE FALSE
  OBVIOUS
<1> DEFINE Below(d) == \E c \in Calls : Walk[c] = {} /\ j \in ToSet(c[2]) /\ d \in ToSet(c[1])
           S == {d \in Names : Below(d)}
<1>1. Deps(j) \subseteq S
  <2>1. <<jobs[j], <<j>>>>[1] = jobs[j] /\ <<jobs[j], <<j>>>>[2] = <<j>>
    OBVIOUS
  <2>2. \A d \in ToSet(jobs[j]) : Below(d)
    BY <2>1, CyclesCall
  <2> QED
    BY <2>2 DEF Deps
<1>2. ASSUME NEW k \in S PROVE Deps(k) \subseteq S
  <2>1. PICK c \in Calls : Walk[c] = {} /\ j \in ToSet(c[2]) /\ k \in ToSet(c[1])
    OBVIOUS
  <2>2. PICK chain \in Seq(Job) : j \in ToSet(chain) /\ Walk[<<Dependencies(k), chain>>] = {}
    BY <2>1, Descended
  <2>3. Dependencies(k) = jobs[k] /\ jobs[k] \in Seq(Job)
    BY DEF Dependencies, Parsed
  <2>4. <<jobs[k], chain>> \in Calls /\ <<jobs[k], chain>>[1] = jobs[k] /\ <<jobs[k], chain>>[2] = chain
    BY <2>3 DEF Calls
  <2>5. \A d \in ToSet(jobs[k]) : Below(d)
    BY <2>2, <2>3, <2>4
  <2> QED
    BY <2>5 DEF Deps
<1>3. j \notin S
  <2> SUFFICES ASSUME j \in S PROVE FALSE
    OBVIOUS
  <2>1. PICK c \in Calls : Walk[c] = {} /\ j \in ToSet(c[2]) /\ j \in ToSet(c[1])
    OBVIOUS
  <2> QED
    BY <2>1, Descended
<1>4. S \in SUBSET Names
  OBVIOUS
<1> HIDE DEF S
<1> QED
  BY <1>1, <1>2, <1>3, <1>4 DEF OnCycle

-----------------------------------------------------------------------------
(* Functions that are defined from a number to the next.                   *)

\* Induction up to a number, over a set rather than a predicate.
LEMMA UpTo ==
  ASSUME NEW n \in Nat, NEW P, 0 \in P, \A i \in 1..n : i - 1 \in P => i \in P
  PROVE  \A i \in 0..n : i \in P
<1> DEFINE T == {i \in 0..n : i \notin P}
<1> SUFFICES ASSUME T # {} PROVE FALSE
  OBVIOUS
<1>1. T \in SUBSET Nat
  OBVIOUS
<1>2. PICK i \in T : \A k \in T : i <= k
  <2> HIDE DEF T
  <2> QED BY <1>1, LeastNumber
<1>3. i \in 1..n /\ i \notin P
  BY <1>2
<1>4. i - 1 \in 0..n /\ ~(i <= i - 1)
  BY <1>3
<1>5. i - 1 \in P
  BY <1>2, <1>4
<1> QED
  BY <1>3, <1>5

\* H computes a value from a number and the value before it.
Iterates(f, n, H, a, S) ==
  f \in [0..n -> S] /\ f[0] = a /\ \A i \in 1..n : f[i] = H[<<i, f[i - 1]>>]

\* A function is defined by its first value and its step.
LEMMA Iteration ==
  ASSUME NEW n \in Nat, NEW S, NEW a \in S, NEW H, \A i \in 1..n, x \in S : H[<<i, x>>] \in S
  PROVE  \E f : Iterates(f, n, H, a, S)
<1> DEFINE D == 0..n
           Before == {p \in D \X D : p[1] + 1 = p[2]}
           G == [p \in D \X [D -> S] |-> IF p[1] = 0 THEN a ELSE H[<<p[1], p[2][p[1] - 1]>>]]
<1>1. \A i \in D, f \in [D -> S] : G[<<i, f>>] = IF i = 0 THEN a ELSE H[<<i, f[i - 1]>>]
  OBVIOUS
<1>2. \A i, k \in D : <<k, i>> \in Before <=> k + 1 = i
  OBVIOUS
<1>3. \A i \in D \ {0} : i - 1 \in D /\ (i - 1) + 1 = i /\ i \in 1..n
  OBVIOUS
<1> HIDE DEF G, Before
<1>4. WellFounded(Before, D)
  <2> SUFFICES ASSUME NEW T \in SUBSET D, T # {}
               PROVE  \E x \in T : \A y \in T : <<y, x>> \notin Before
    BY DEF WellFounded
  <2>1. PICK x \in T : \A y \in T : x <= y
    BY LeastNumber
  <2>2. \A y \in T : y + 1 # x
    BY <2>1
  <2> QED
    BY <1>2, <2>1, <2>2
<1>5. LooksBelow(G, Before, D, S)
  <2>1. ASSUME NEW i \in D, NEW f \in [D -> S] PROVE G[<<i, f>>] \in S
    <3>1. CASE i = 0
      BY <1>1, <3>1
    <3>2. CASE i # 0
      <4>1. f[i - 1] \in S /\ i \in 1..n
        BY <1>3, <3>2
      <4> QED
        BY <1>1, <3>2, <4>1
    <3> QED
      BY <3>1, <3>2
  <2>2. ASSUME NEW i \in D, NEW f \in [D -> S], NEW g \in [D -> S],
               \A k \in D : <<k, i>> \in Before => f[k] = g[k]
        PROVE  G[<<i, f>>] = G[<<i, g>>]
    <3>1. CASE i = 0
      BY <1>1, <3>1
    <3>2. CASE i # 0
      <4>1. f[i - 1] = g[i - 1]
        BY <1>2, <1>3, <2>2, <3>2
      <4> QED
        BY <1>1, <3>2, <4>1
    <3> QED
      BY <3>1, <3>2
  <2> HIDE DEF D
  <2> QED
    BY <2>1, <2>2 DEF LooksBelow
<1>6. S # {}
  OBVIOUS
<1>7. PICK f : Solves(f, G, D, S)
  <2> HIDE DEF D
  <2> QED BY <1>4, <1>5, <1>6, Recursion
<1>8. f \in [D -> S] /\ \A i \in D : f[i] = G[<<i, f>>]
  BY <1>7 DEF Solves
<1>9. f[0] = a /\ \A i \in 1..n : f[i] = H[<<i, f[i - 1]>>]
  <2>1. 0 \in D /\ \A i \in 1..n : i \in D /\ i # 0
    OBVIOUS
  <2> HIDE DEF D
  <2> QED
    BY <1>1, <1>8, <2>1
<1> QED
  BY <1>8, <1>9 DEF Iterates

-----------------------------------------------------------------------------
(* The concatenation of sequences.                                         *)

\* FlattenSeq of a sequence of sequences, from one to the next.
LEMMA Flattens ==
  ASSUME NEW X, NEW n \in Nat, NEW s \in [1..n -> Seq(X)]
  PROVE  \E g \in [0..n -> Seq(X)] :
           /\ g[0] = <<>> /\ \A i \in 1..n : g[i] = g[i - 1] \o s[i]
           /\ FlattenSeq(s) = g[n]
<1> DEFINE H == [p \in (1..n) \X Seq(X) |-> p[2] \o s[p[1]]]
<1>1. \A i \in 1..n, x \in Seq(X) : H[<<i, x>>] = x \o s[i] /\ H[<<i, x>>] \in Seq(X)
  <2>1. \A i \in 1..n, x \in Seq(X) : H[<<i, x>>] = x \o s[i]
    OBVIOUS
  <2>2. \A i \in 1..n, x \in Seq(X) : x \o s[i] \in Seq(X)
    BY ConcatProperties
  <2> QED
    BY <2>1, <2>2
<1>2. <<>> \in Seq(X)
  OBVIOUS
<1> HIDE DEF H
<1>3. PICK g : Iterates(g, n, H, <<>>, Seq(X))
  BY <1>1, <1>2, Iteration
<1>4. g \in [0..n -> Seq(X)] /\ g[0] = <<>> /\ \A i \in 1..n : g[i] = g[i - 1] \o s[i]
  <2>1. /\ g \in [0..n -> Seq(X)] /\ g[0] = <<>>
        /\ \A i \in 1..n : g[i] = H[<<i, g[i - 1]>>] /\ i - 1 \in 0..n
    BY <1>3 DEF Iterates
  <2> QED
    BY <1>1, <2>1
<1>5. DOMAIN s = 1..n /\ Len(s) = n
  OBVIOUS
<1>6. CASE n = 0
  <2>1. s = <<>>
    BY <1>5, <1>6
  <2>2. FlattenSeq(s) = s
    BY <1>5, <1>6 DEF FlattenSeq
  <2> QED
    BY <1>4, <1>6, <2>1, <2>2
<1>7. CASE n # 0
  <2> DEFINE Step(f, i) == IF i = 1 THEN s[i] ELSE f[i - 1] \o s[i]
             flatten == CHOOSE f : f = [i \in 1..Len(s) |-> Step(f, i)]
             h == [i \in 1..n |-> g[i]]
  <2>0. g[1] = s[1]
    <3>1. 1 \in 1..n /\ 1 - 1 = 0
      BY <1>7
    <3>2. g[1] = <<>> \o s[1] /\ s[1] \in Seq(X)
      BY <1>4, <3>1
    <3> QED
      BY <3>2, ConcatEmptySeq
  <2>1. FlattenSeq(s) = flatten[n]
    BY <1>5, <1>7 DEF FlattenSeq
  <2>2. h = [i \in 1..Len(s) |-> Step(h, i)]
    <3>1. \A i \in 1..n : i # 1 => i - 1 \in 1..n
      OBVIOUS
    <3>2. \A i \in 1..n : h[i] = Step(h, i)
      BY <1>4, <2>0, <3>1
    <3> HIDE DEF Step
    <3> QED
      BY <1>5, <3>2
  <2>3. flatten = [i \in 1..Len(s) |-> Step(flatten, i)]
    <3> HIDE DEF Step
    <3> QED BY <2>2, Zenon
  <2> HIDE DEF flatten
  <2>4. \A i \in 1..n : flatten[i] = IF i = 1 THEN s[i] ELSE flatten[i - 1] \o s[i]
    BY <1>5, <2>3
  <2> DEFINE P == {i \in 0..n : i > 0 => flatten[i] = g[i]}
  <2>5. \A i \in 0..n : i \in P
    <3>1. ASSUME NEW i \in 1..n, i - 1 \in P PROVE i \in P
      <4>1. CASE i = 1
        <5>1. flatten[i] = g[i]
          BY <2>0, <2>4, <4>1
        <5> QED
          BY <5>1
      <4>2. CASE i # 1
        <5>1. flatten[i - 1] = g[i - 1]
          BY <3>1, <4>2
        <5>2. flatten[i] = g[i]
          BY <1>4, <2>4, <4>2, <5>1
        <5> QED
          BY <5>2
      <4> QED
        BY <4>1, <4>2
    <3>2. 0 \in P
      OBVIOUS
    <3> HIDE DEF P
    <3> QED
      BY <3>1, <3>2, UpTo
  <2>6. flatten[n] = g[n]
    BY <1>7, <2>5
  <2> QED
    BY <1>4, <2>1, <2>6
<1> QED
  BY <1>6, <1>7

-----------------------------------------------------------------------------
(* The replacement of markers.                                             *)

\* The tokens of a config with its markers replaced.
Output == Token \cup {Plain(secrets[n]) : n \in DOMAIN secrets}
Progress == [pending : Nat, out : Seq(Output), missing : BOOLEAN]

\* The kinds of tokens exclude each other.
LEMMA TokenShape ==
  /\ Slash \in Output /\ Other \in Output
  /\ \A t \in Token :
       /\ t \in Output
       /\ t.token \in {"slash", "other", "marker"}
       /\ t.token = "slash" <=> t = Slash
       /\ t.token = "other" <=> t = Other
       /\ t.token = "marker" => t.name \in Name /\ t = Marker(t.name)
  /\ \A n \in Name : Marker(n) \in Output
  /\ \A n \in DOMAIN secrets : Plain(secrets[n]) \in Output
<1>1. Slash.token = "slash" /\ Other.token = "other"
  BY DEF Slash, Other
<1>2. \A n : Marker(n).token = "marker" /\ Marker(n).name = n
  BY DEF Marker
<1> QED
  BY <1>1, <1>2 DEF Token, Output

LEMMA SlashesAre ==
  ASSUME NEW n \in Nat
  PROVE  /\ Slashes(n) \in Seq(Output) /\ Slashes(n + 1) \in Seq(Output)
         /\ Slashes(0) = <<>>
         /\ Slashes(n) \o <<Slash>> = Slashes(n + 1)
<1>1. ASSUME NEW m \in Nat
      PROVE  /\ Slashes(m) \in Seq(Output) /\ Len(Slashes(m)) = m
             /\ \A i \in 1..m : Slashes(m)[i] = Slash
  BY TokenShape DEF Slashes
<1>2. Slashes(0) = <<>>
  BY <1>1
<1>3. Slashes(n) \o <<Slash>> = Slashes(n + 1)
  <2> DEFINE s == Slashes(n)
             t == <<Slash>>
             u == Slashes(n + 1)
  <2>1. s \in Seq(Output) /\ t \in Seq(Output) /\ u \in Seq(Output)
    BY <1>1, TokenShape
  <2>2. Len(s) = n /\ Len(t) = 1 /\ Len(u) = n + 1 /\ t[1] = Slash
    BY <1>1
  <2>3. /\ \A i \in 1..n : s[i] = Slash
        /\ \A i \in 1..(n + 1) : u[i] = Slash
    BY <1>1
  <2> HIDE DEF s, t, u
  <2>4. /\ s \o t \in Seq(Output) /\ Len(s \o t) = n + 1
        /\ \A i \in 1..(n + 1) : (s \o t)[i] = IF i <= n THEN s[i] ELSE t[i - n]
    <3>1. /\ s \o t \in Seq(Output) /\ Len(s \o t) = Len(s) + Len(t)
          /\ \A i \in 1..(Len(s) + Len(t)) :
               (s \o t)[i] = IF i <= Len(s) THEN s[i] ELSE t[i - Len(s)]
      BY <2>1, ConcatProperties
    <3> QED
      BY <2>2, <3>1
  <2>5. \A i \in 1..(n + 1) : (s \o t)[i] = u[i]
    <3> TAKE i \in 1..(n + 1)
    <3>1. CASE i <= n
      BY <2>3, <2>4, <3>1
    <3>2. CASE ~(i <= n)
      <4>1. i - n = 1
        BY <3>2
      <4> QED
        BY <2>2, <2>3, <2>4, <3>2, <4>1
    <3> QED
      BY <3>1, <3>2
  <2>6. s \o t = u
    BY <2>1, <2>2, <2>4, <2>5
  <2> QED
    BY <2>6 DEF s, t, u
<1>4. Slashes(n) \in Seq(Output) /\ Slashes(n + 1) \in Seq(Output)
  <2>1. n + 1 \in Nat
    OBVIOUS
  <2> QED
    BY <1>1, <2>1
<1> QED
  BY <1>2, <1>3, <1>4

\* A marker's value, if there is one.
ValueOf(name) == IF name \in DOMAIN secrets THEN <<Plain(secrets[name])>> ELSE <<>>

\* What a token does to what was read before it.
ReadsAs(acc, t, r) ==
  /\ r \in Progress
  /\ t.token = "slash" =>
       r.pending = acc.pending + 1 /\ r.out = acc.out /\ r.missing = acc.missing
  /\ t.token = "other" =>
       /\ r.pending = 0 /\ r.missing = acc.missing
       /\ r.out = (acc.out \o Slashes(acc.pending)) \o <<Other>>
  /\ t.token = "marker" /\ acc.pending % 2 # 0 =>
       /\ r.pending = 0 /\ r.missing = acc.missing
       /\ r.out = (acc.out \o Slashes(acc.pending - 1)) \o <<t>>
  /\ t.token = "marker" /\ acc.pending % 2 = 0 =>
       /\ r.pending = 0 /\ r.missing = (acc.missing \/ t.name \notin DOMAIN secrets)
       /\ r.out = (acc.out \o Slashes(acc.pending)) \o ValueOf(t.name)

\* The reader does that.
LEMMA ReadDoes ==
  ASSUME NEW acc \in Progress, NEW t \in Token
  PROVE  ReadsAs(acc, t, Read(acc, t))
<1> DEFINE r == Read(acc, t)
<1>1. acc.pending \in Nat /\ acc.out \in Seq(Output) /\ acc.missing \in BOOLEAN
  BY DEF Progress
<1>2. \A p \in Nat : [acc EXCEPT !.pending = p] \in Progress
  BY DEF Progress
<1>3. \A out \in Seq(Output) : [acc EXCEPT !.pending = 0, !.out = out] \in Progress
  BY DEF Progress
<1>4. \A out \in Seq(Output), m \in BOOLEAN : [pending |-> 0, out |-> out, missing |-> m] \in Progress
  BY DEF Progress
<1>5. \A n \in Nat, u \in Seq(Output) : (acc.out \o Slashes(n)) \o u \in Seq(Output)
  BY <1>1, SlashesAre, ConcatProperties
<1>6. CASE t.token = "slash"
  <2>1. r = [acc EXCEPT !.pending = acc.pending + 1]
    BY <1>6 DEF Read
  <2>2. r \in Progress
    BY <1>1, <1>2, <2>1
  <2>3. r.pending = acc.pending + 1 /\ r.out = acc.out /\ r.missing = acc.missing
    BY <2>1 DEF Progress
  <2> QED
    BY <1>6, <2>2, <2>3 DEF ReadsAs
<1>7. CASE t.token = "other"
  <2> DEFINE o == (acc.out \o Slashes(acc.pending)) \o <<Other>>
  <2>1. r = [acc EXCEPT !.pending = 0, !.out = o]
    BY <1>7 DEF Read
  <2>2. o \in Seq(Output)
    BY <1>1, <1>5, TokenShape
  <2> HIDE DEF o
  <2>3. r \in Progress
    BY <1>3, <2>1, <2>2
  <2>4. r.pending = 0 /\ r.out = o /\ r.missing = acc.missing
    BY <2>1 DEF Progress
  <2> QED
    BY <1>7, <2>3, <2>4 DEF o, ReadsAs
<1>8. CASE t.token = "marker"
  <2>0. r = ReadMarker(acc, t.name)
    BY <1>8 DEF Read
  <2>1. t.name \in Name /\ t = Marker(t.name) /\ t \in Output
    BY <1>8, TokenShape
  <2>2. CASE acc.pending % 2 # 0
    <3> DEFINE o == (acc.out \o Slashes(acc.pending - 1)) \o <<t>>
    <3>1. r = [acc EXCEPT !.pending = 0, !.out = o]
      BY <2>0, <2>1, <2>2 DEF ReadMarker
    <3>2. o \in Seq(Output)
      <4>1. acc.pending - 1 \in Nat
        BY <1>1, <2>2
      <4>2. <<t>> \in Seq(Output)
        BY <2>1
      <4> QED
        BY <1>5, <4>1, <4>2
    <3> HIDE DEF o
    <3>3. r \in Progress
      BY <1>3, <3>1, <3>2
    <3>4. r.pending = 0 /\ r.out = o /\ r.missing = acc.missing
      BY <3>1 DEF Progress
    <3> QED
      BY <1>8, <2>2, <3>3, <3>4 DEF o, ReadsAs
  <2>3. CASE acc.pending % 2 = 0
    <3> DEFINE o == (acc.out \o Slashes(acc.pending)) \o ValueOf(t.name)
               m == acc.missing \/ t.name \notin DOMAIN secrets
    <3>1. r = [pending |-> 0, out |-> o, missing |-> m]
      BY <2>0, <2>3 DEF ReadMarker, ValueOf
    <3>2. o \in Seq(Output)
      <4>1. ValueOf(t.name) \in Seq(Output)
        BY TokenShape DEF ValueOf
      <4> QED
        BY <1>1, <1>5, <4>1
    <3> HIDE DEF o
    <3>3. r \in Progress
      BY <1>4, <3>1, <3>2
    <3>4. r.pending = 0 /\ r.out = o /\ r.missing = m
      BY <3>1
    <3> QED
      BY <1>8, <2>3, <3>3, <3>4 DEF o, ReadsAs
  <2> QED
    BY <2>2, <2>3
<1> QED
  BY <1>6, <1>7, <1>8, TokenShape DEF ReadsAs

Start == [pending |-> 0, out |-> <<>>, missing |-> FALSE]

\* Reading satisfies its equation.
LEMMA Reads ==
  ASSUME plainConfig \in Seq(Token)
  PROVE  /\ \A i \in 0..Len(plainConfig) : Reading[i] \in Progress
         /\ Reading[0] = Start
         /\ \A i \in 1..Len(plainConfig) : Reading[i] = Read(Reading[i - 1], plainConfig[i])
<1> DEFINE n == Len(plainConfig)
           H == [p \in (1..n) \X Progress |-> Read(p[2], plainConfig[p[1]])]
           Follows(f, i) == IF i = 0 THEN Start ELSE Read(f[i - 1], plainConfig[i])
<1>1. n \in Nat /\ \A i \in 1..n : plainConfig[i] \in Token
  OBVIOUS
<1>2. \A i \in 1..n, x \in Progress : H[<<i, x>>] = Read(x, plainConfig[i])
  OBVIOUS
<1>3. \A i \in 1..n, x \in Progress : H[<<i, x>>] \in Progress
  BY <1>1, <1>2, ReadDoes DEF ReadsAs
<1>4. Start \in Progress
  BY DEF Start, Progress
<1> HIDE DEF H
<1>5. PICK f : Iterates(f, n, H, Start, Progress)
  BY <1>1, <1>3, <1>4, Iteration
<1>6. f \in [0..n -> Progress] /\ f[0] = Start /\ \A i \in 1..n : f[i] = H[<<i, f[i - 1]>>]
  BY <1>5 DEF Iterates
<1>7. \A i \in 0..n : f[i] = Follows(f, i)
  <2>1. \A i \in 0..n : i # 0 => i \in 1..n /\ i - 1 \in 0..n
    BY <1>1
  <2> QED
    BY <1>2, <1>6, <2>1
<1>8. f = [i \in 0..n |-> Follows(f, i)]
  <2> HIDE DEF Follows
  <2> QED BY <1>6, <1>7
<1>9. Reading = [i \in 0..n |-> Follows(Reading, i)]
  BY <1>8, Zenon DEF Reading, Start
<1> HIDE DEF Reading
<1>10. \A i \in 0..n : Reading[i] = Follows(Reading, i)
  <2> HIDE DEF Follows
  <2> QED BY <1>9
<1>11. Reading[0] = Start /\ \A i \in 1..n : Reading[i] = Read(Reading[i - 1], plainConfig[i])
  BY <1>1, <1>10
<1>12. \A i \in 0..n : i \in {k \in 0..n : Reading[k] \in Progress}
  <2> DEFINE P == {k \in 0..n : Reading[k] \in Progress}
  <2>1. 0 \in P
    BY <1>1, <1>4, <1>11
  <2>2. ASSUME NEW i \in 1..n, i - 1 \in P PROVE i \in P
    <3>1. Reading[i - 1] \in Progress /\ plainConfig[i] \in Token /\ i \in 0..n
      BY <1>1, <2>2
    <3>2. Read(Reading[i - 1], plainConfig[i]) \in Progress
      BY <3>1, ReadDoes DEF ReadsAs
    <3> QED
      BY <1>11, <3>1, <3>2
  <2> HIDE DEF P
  <2>3. \A i \in 0..n : i \in P
    BY <1>1, <2>1, <2>2, UpTo
  <2> QED
    BY <2>3 DEF P
<1> QED
  BY <1>11, <1>12

\* What the token at a position does.
LEMMA ReadingDoes ==
  ASSUME plainConfig \in Seq(Token), NEW i \in 1..Len(plainConfig)
  PROVE  /\ i - 1 \in 0..Len(plainConfig) /\ Reading[i - 1] \in Progress
         /\ plainConfig[i] \in Token
         /\ ReadsAs(Reading[i - 1], plainConfig[i], Reading[i])
<1>1. i - 1 \in 0..Len(plainConfig) /\ plainConfig[i] \in Token
  OBVIOUS
<1>2. Reading[i - 1] \in Progress /\ Reading[i] = Read(Reading[i - 1], plainConfig[i])
  BY <1>1, Reads
<1>3. ReadsAs(Reading[i - 1], plainConfig[i], Read(Reading[i - 1], plainConfig[i]))
  BY <1>1, <1>2, ReadDoes
<1> QED
  BY <1>1, <1>2, <1>3

\* The backslashes right before a position.
Run(i) == {k \in 1..(i - 1) : \A m \in k..(i - 1) : plainConfig[m] = Slash}

\* A backslash prolongs the run, anything else ends it.
LEMMA RunGrows ==
  ASSUME NEW i \in Nat \ {0}
  PROVE  /\ plainConfig[i] = Slash => Run(i + 1) = Run(i) \cup {i} /\ i \notin Run(i)
         /\ plainConfig[i] # Slash => Run(i + 1) = {}
<1>1. (i + 1) - 1 = i
  OBVIOUS
<1>2. ASSUME plainConfig[i] = Slash
      PROVE  Run(i + 1) = Run(i) \cup {i} /\ i \notin Run(i)
  <2>1. ASSUME NEW k \in Run(i + 1) PROVE k \in Run(i) \cup {i}
    <3>1. k \in 1..i /\ \A m \in k..i : plainConfig[m] = Slash
      BY <1>1 DEF Run
    <3>2. k # i => k \in 1..(i - 1)
      BY <3>1
    <3>3. \A m \in k..(i - 1) : m \in k..i
      BY <3>1
    <3> QED
      BY <3>1, <3>2, <3>3 DEF Run
  <2>2. ASSUME NEW k \in Run(i) PROVE k \in Run(i + 1)
    <3>1. k \in 1..(i - 1) /\ \A m \in k..(i - 1) : plainConfig[m] = Slash
      BY DEF Run
    <3>2. k \in 1..i /\ \A m \in k..i : m = i \/ m \in k..(i - 1)
      BY <3>1
    <3> QED
      BY <1>1, <1>2, <3>1, <3>2 DEF Run
  <2>3. i \in Run(i + 1)
    <3>1. i \in 1..i /\ \A m \in i..i : m = i
      OBVIOUS
    <3> QED
      BY <1>1, <1>2, <3>1 DEF Run
  <2>4. i \notin Run(i)
    BY DEF Run
  <2> QED
    BY <2>1, <2>2, <2>3, <2>4
<1>3. ASSUME plainConfig[i] # Slash, NEW k \in Run(i + 1) PROVE FALSE
  <2>1. k \in 1..i /\ \A m \in k..i : plainConfig[m] = Slash
    BY <1>1 DEF Run
  <2>2. i \in k..i
    BY <2>1
  <2> QED
    BY <1>3, <2>1, <2>2
<1> QED
  BY <1>2, <1>3

\* The backslashes that are pending are those right before what comes next.
LEMMA PendingIs ==
  ASSUME plainConfig \in Seq(Token)
  PROVE  \A i \in 0..Len(plainConfig) :
           IsFiniteSet(Run(i + 1)) /\ Reading[i].pending = Cardinality(Run(i + 1))
<1> DEFINE n == Len(plainConfig)
           P == {i \in 0..n : IsFiniteSet(Run(i + 1)) /\ Reading[i].pending = Cardinality(Run(i + 1))}
<1>1. n \in Nat
  OBVIOUS
<1>2. 0 \in P
  <2>1. Run(0 + 1) = {}
    BY DEF Run
  <2>2. Reading[0].pending = 0
    BY Reads DEF Start
  <2>3. IsFiniteSet({}) /\ Cardinality({}) = 0
    BY FS_EmptySet
  <2>4. IsFiniteSet(Run(0 + 1)) /\ Reading[0].pending = Cardinality(Run(0 + 1))
    BY <2>1, <2>2, <2>3
  <2>5. 0 \in 0..n
    BY <1>1
  <2> QED
    BY <2>4, <2>5
<1>3. ASSUME NEW i \in 1..n, i - 1 \in P PROVE i \in P
  <2>1. IsFiniteSet(Run(i)) /\ Reading[i - 1].pending = Cardinality(Run(i))
    <3>1. (i - 1) + 1 = i
      OBVIOUS
    <3> QED
      BY <1>3, <3>1
  <2>2. /\ ReadsAs(Reading[i - 1], plainConfig[i], Reading[i])
        /\ Reading[i - 1] \in Progress /\ plainConfig[i] \in Token
    BY ReadingDoes
  <2>3. CASE plainConfig[i] = Slash
    <3>1. Reading[i].pending = Reading[i - 1].pending + 1
      <4>1. plainConfig[i].token = "slash"
        BY <2>2, <2>3, TokenShape
      <4> QED
        BY <2>2, <4>1 DEF ReadsAs
    <3>2. IsFiniteSet(Run(i + 1)) /\ Cardinality(Run(i + 1)) = Cardinality(Run(i)) + 1
      <4>1. Run(i + 1) = Run(i) \cup {i} /\ i \notin Run(i)
        BY <2>3, RunGrows
      <4>2. IsFiniteSet(Run(i) \cup {i}) /\ Cardinality(Run(i) \cup {i}) = Cardinality(Run(i)) + 1
        BY <2>1, <4>1, FS_AddElement
      <4> QED
        BY <4>1, <4>2
    <3> QED
      BY <2>1, <3>1, <3>2
  <2>4. CASE plainConfig[i] # Slash
    <3>1. Reading[i].pending = 0
      <4>1. plainConfig[i].token \in {"other", "marker"} /\ Reading[i - 1].pending \in Nat
        BY <2>2, <2>4, TokenShape DEF Progress
      <4>2. Reading[i - 1].pending % 2 = 0 \/ Reading[i - 1].pending % 2 # 0
        OBVIOUS
      <4> QED
        BY <2>2, <4>1, <4>2 DEF ReadsAs
    <3>2. Run(i + 1) = {}
      BY <2>4, RunGrows
    <3>3. IsFiniteSet({}) /\ Cardinality({}) = 0
      BY FS_EmptySet
    <3>4. IsFiniteSet(Run(i + 1)) /\ Reading[i].pending = Cardinality(Run(i + 1))
      BY <3>1, <3>2, <3>3
    <3>5. i \in 0..n
      BY <1>1
    <3> QED
      BY <3>4, <3>5
  <2> QED
    BY <2>3, <2>4
<1> HIDE DEF P
<1>4. \A i \in 0..n : i \in P
  BY <1>1, <1>2, <1>3, UpTo
<1> QED
  BY <1>4 DEF P

LEMMA PendingBefore ==
  ASSUME plainConfig \in Seq(Token), NEW i \in 1..Len(plainConfig)
  PROVE  /\ Reading[i - 1].pending = SlashesBefore(i) /\ SlashesBefore(i) \in Nat
         /\ Reading[i].pending = SlashesBefore(i + 1)
         /\ plainConfig[i].token = "slash" => SlashesBefore(i + 1) = SlashesBefore(i) + 1
         /\ plainConfig[i].token # "slash" => SlashesBefore(i + 1) = 0
<1>1. i - 1 \in 0..Len(plainConfig) /\ (i - 1) + 1 = i /\ i \in 0..Len(plainConfig)
  OBVIOUS
<1>2. SlashesBefore(i) = Cardinality(Run(i)) /\ SlashesBefore(i + 1) = Cardinality(Run(i + 1))
  BY DEF SlashesBefore, Run
<1>3. /\ Reading[i - 1].pending = SlashesBefore(i) /\ IsFiniteSet(Run(i))
      /\ Reading[i].pending = SlashesBefore(i + 1)
  BY <1>1, <1>2, PendingIs
<1>4. SlashesBefore(i) \in Nat
  BY <1>1, <1>3, Reads DEF Progress
<1>5. plainConfig[i] \in Token
  OBVIOUS
<1>6. plainConfig[i].token = "slash" => SlashesBefore(i + 1) = SlashesBefore(i) + 1
  <2>1. ASSUME plainConfig[i] = Slash
        PROVE  SlashesBefore(i + 1) = SlashesBefore(i) + 1
    <3>1. Run(i + 1) = Run(i) \cup {i} /\ i \notin Run(i)
      BY <2>1, RunGrows
    <3>2. Cardinality(Run(i) \cup {i}) = Cardinality(Run(i)) + 1
      BY <1>3, <3>1, FS_AddElement
    <3> QED
      BY <1>2, <3>1, <3>2
  <2> QED
    BY <1>5, <2>1, TokenShape
<1>7. plainConfig[i].token # "slash" => SlashesBefore(i + 1) = 0
  <2>1. ASSUME plainConfig[i] # Slash PROVE SlashesBefore(i + 1) = 0
    <3>1. Run(i + 1) = {}
      BY <2>1, RunGrows
    <3>2. Cardinality({}) = 0
      BY FS_EmptySet
    <3> QED
      BY <1>2, <3>1, <3>2
  <2> QED
    BY <1>5, <2>1, TokenShape
<1> QED
  BY <1>3, <1>4, <1>6, <1>7

\* The names of the secrets the pipeline may use.
Known == \A n \in Name : n \in DOMAIN secrets <=> \E s \in ToSet(Candidates) : s.name = n /\ Admits(s)

\* A marker is unknown if it is not escaped and no secret has its name.
LEMMA UnknownIs ==
  ASSUME plainConfig \in Seq(Token), Known, NEW i \in 1..Len(plainConfig)
  PROVE  Unknown(i) <=> /\ plainConfig[i].token = "marker" /\ SlashesBefore(i) % 2 = 0
                        /\ plainConfig[i].name \notin DOMAIN secrets
<1>1. plainConfig[i] \in Token
  OBVIOUS
<1>2. plainConfig[i].token = "marker" => plainConfig[i].name \in Name
  BY <1>1, TokenShape
<1>3. SlashesBefore(i) % 2 = 0 <=> SlashesBefore(i) % 2 # 1
  BY PendingBefore
<1> QED
  BY <1>2, <1>3 DEF Unknown, Escaped, Known

\* Reading fails at a marker that names no secret the pipeline may use.
LEMMA MissingIs ==
  ASSUME plainConfig \in Seq(Token), Known
  PROVE  \A i \in 0..Len(plainConfig) : Reading[i].missing <=> \E k \in 1..i : Unknown(k)
<1> DEFINE n == Len(plainConfig)
           P == {i \in 0..n : Reading[i].missing <=> \E k \in 1..i : Unknown(k)}
<1>1. n \in Nat
  OBVIOUS
<1>2. 0 \in P
  BY <1>1, Reads DEF Start
<1>3. ASSUME NEW i \in 1..n, i - 1 \in P PROVE i \in P
  <2>1. /\ ReadsAs(Reading[i - 1], plainConfig[i], Reading[i])
        /\ plainConfig[i] \in Token
        /\ Reading[i - 1].missing \in BOOLEAN /\ Reading[i - 1].pending = SlashesBefore(i)
    BY ReadingDoes, PendingBefore DEF Progress
  <2>2. Reading[i].missing <=> Reading[i - 1].missing \/ Unknown(i)
    <3>1. CASE plainConfig[i].token # "marker"
      <4>1. Reading[i].missing = Reading[i - 1].missing
        <5>1. plainConfig[i].token = "slash" \/ plainConfig[i].token = "other"
          BY <2>1, <3>1, TokenShape
        <5> QED
          BY <2>1, <5>1 DEF ReadsAs
      <4>2. ~Unknown(i)
        BY <3>1 DEF Unknown
      <4> QED
        BY <4>1, <4>2
    <3>2. CASE plainConfig[i].token = "marker" /\ SlashesBefore(i) % 2 # 0
      <4>1. Reading[i].missing = Reading[i - 1].missing
        BY <2>1, <3>2 DEF ReadsAs
      <4>2. ~Unknown(i)
        BY <3>2, UnknownIs
      <4> QED
        BY <4>1, <4>2
    <3>3. CASE plainConfig[i].token = "marker" /\ SlashesBefore(i) % 2 = 0
      <4>1. Reading[i].missing = (Reading[i - 1].missing \/ plainConfig[i].name \notin DOMAIN secrets)
        BY <2>1, <3>3 DEF ReadsAs
      <4>2. Unknown(i) <=> plainConfig[i].name \notin DOMAIN secrets
        BY <3>3, UnknownIs
      <4> QED
        BY <4>1, <4>2
    <3> QED
      BY <3>1, <3>2, <3>3
  <2>3. (\E k \in 1..i : Unknown(k)) <=> (\E k \in 1..(i - 1) : Unknown(k)) \/ Unknown(i)
    <3>1. \A k \in 1..i : k = i \/ k \in 1..(i - 1)
      OBVIOUS
    <3>2. i \in 1..i /\ \A k \in 1..(i - 1) : k \in 1..i
      OBVIOUS
    <3> QED
      BY <3>1, <3>2
  <2>4. Reading[i - 1].missing <=> \E k \in 1..(i - 1) : Unknown(k)
    BY <1>3
  <2> QED
    BY <2>2, <2>3, <2>4
<1> HIDE DEF P
<1>4. \A i \in 0..n : i \in P
  BY <1>1, <1>2, <1>3, UpTo
<1> QED
  BY <1>4 DEF P

Images == [i \in DOMAIN plainConfig |-> Image(i)]

LEMMA ImageType ==
  ASSUME plainConfig \in Seq(Token), Known, NEW i \in 1..Len(plainConfig), ~Unknown(i)
  PROVE  Image(i) \in Seq(Output)
<1>1. plainConfig[i] \in Token /\ plainConfig[i] \in Output
  BY TokenShape
<1>2. CASE plainConfig[i].token = "marker" /\ ~Escaped(i)
  <2>1. SlashesBefore(i) % 2 = 0
    BY <1>2, PendingBefore DEF Escaped
  <2>2. plainConfig[i].name \in DOMAIN secrets
    BY <1>2, <2>1, UnknownIs
  <2>3. Plain(secrets[plainConfig[i].name]) \in Output
    BY <2>2, TokenShape
  <2> QED
    BY <1>2, <2>3 DEF Image
<1>3. CASE ~(plainConfig[i].token = "marker" /\ ~Escaped(i))
  <2>1. Image(i) = <<>> \/ Image(i) = <<plainConfig[i]>>
    BY <1>3 DEF Image
  <2>2. <<>> \in Seq(Output) /\ <<plainConfig[i]>> \in Seq(Output)
    BY <1>1
  <2> QED
    BY <2>1, <2>2
<1> QED
  BY <1>2, <1>3

\* A backslash is held back from the text before an escaped marker.
HeldBack(i) == IF i < Len(plainConfig) /\ Escaped(i + 1) THEN 1 ELSE 0

LEMMA HeldBackIs ==
  ASSUME plainConfig \in Seq(Token), NEW i \in 1..Len(plainConfig)
  PROVE  /\ HeldBack(i - 1) = IF Escaped(i) THEN 1 ELSE 0
         /\ SlashesBefore(i + 1) = 0 => HeldBack(i) = 0
         /\ Escaped(i) <=> plainConfig[i].token = "marker" /\ SlashesBefore(i) % 2 # 0
<1>1. i - 1 < Len(plainConfig) /\ (i - 1) + 1 = i
  OBVIOUS
<1>2. HeldBack(i - 1) = IF Escaped(i) THEN 1 ELSE 0
  BY <1>1 DEF HeldBack
<1>3. SlashesBefore(i + 1) = 0 => HeldBack(i) = 0
  <2>1. 0 % 2 # 1
    OBVIOUS
  <2> QED
    BY <2>1 DEF HeldBack, Escaped
<1>4. SlashesBefore(i) % 2 = 1 <=> SlashesBefore(i) % 2 # 0
  BY PendingBefore
<1> QED
  BY <1>2, <1>3, <1>4 DEF Escaped

LEMMA Joined ==
  ASSUME NEW s \in Seq(Output), NEW n \in Nat, NEW t \in Seq(Output)
  PROVE  /\ s \o Slashes(n) \in Seq(Output) /\ (s \o Slashes(n)) \o t \in Seq(Output)
         /\ s \o Slashes(0) = s /\ s \o <<>> = s
         /\ (s \o Slashes(n)) \o <<Slash>> = s \o Slashes(n + 1)
<1>1. s \o Slashes(n) \in Seq(Output) /\ (s \o Slashes(n)) \o t \in Seq(Output)
  BY SlashesAre, ConcatProperties
<1>2. s \o Slashes(0) = s /\ s \o <<>> = s
  BY SlashesAre, ConcatEmptySeq
<1>3. (s \o Slashes(n)) \o <<Slash>> = s \o Slashes(n + 1)
  <2>1. <<Slash>> \in Seq(Output)
    BY TokenShape
  <2> DEFINE u == Slashes(n)
             v == <<Slash>>
  <2>2. (s \o u) \o v = s \o (u \o v)
    <3>1. u \in Seq(Output) /\ v \in Seq(Output)
      BY <2>1, SlashesAre
    <3> HIDE DEF u, v
    <3> QED
      BY <3>1, ConcatAssociative
  <2> QED
    BY <2>2, SlashesAre
<1> QED
  BY <1>1, <1>2, <1>3

\* What has been read, with the backslashes that are pending and not held back,
\* is what the images so far make up.
SoFar(i) == Reading[i].out \o Slashes(Reading[i].pending - HeldBack(i))

LEMMA SoFarGrows ==
  ASSUME plainConfig \in Seq(Token), Known, NEW i \in 1..Len(plainConfig), ~Unknown(i)
  PROVE  SoFar(i) = SoFar(i - 1) \o Image(i)
<1> DEFINE a == Reading[i - 1]
           r == Reading[i]
           t == plainConfig[i]
<1>1. /\ a \in Progress /\ t \in Token /\ ReadsAs(a, t, r)
      /\ a.pending = SlashesBefore(i) /\ a.pending \in Nat /\ a.out \in Seq(Output)
      /\ r.pending = SlashesBefore(i + 1)
  BY ReadingDoes, PendingBefore DEF Progress
<1>2. r \in Progress /\ r.out \in Seq(Output)
  BY <1>1 DEF ReadsAs, Progress
<1>3. SoFar(i - 1) = a.out \o Slashes(a.pending - HeldBack(i - 1))
  BY DEF SoFar
<1>4. SoFar(i) = r.out \o Slashes(r.pending - HeldBack(i))
  BY DEF SoFar
<1>5. CASE t.token = "slash"
  <2>1. t = Slash /\ r.out = a.out /\ r.pending = a.pending + 1
    BY <1>1, <1>5, TokenShape DEF ReadsAs
  <2>2. HeldBack(i - 1) = 0
    BY <1>5, HeldBackIs
  <2>3. SoFar(i - 1) = a.out \o Slashes(a.pending)
    <3>1. a.pending - HeldBack(i - 1) = a.pending
      BY <1>1, <2>2
    <3> QED
      BY <1>3, <3>1
  <2>4. CASE HeldBack(i) = 1
    <3>1. Image(i) = <<>>
      BY <1>5, <2>4 DEF Image, HeldBack
    <3>2. r.pending - HeldBack(i) = a.pending
      BY <1>1, <2>1, <2>4
    <3>3. SoFar(i - 1) \in Seq(Output)
      BY <1>1, <2>3, Joined
    <3>4. SoFar(i - 1) \o <<>> = SoFar(i - 1)
      BY <3>3, ConcatEmptySeq
    <3> QED
      BY <1>4, <2>1, <2>3, <3>1, <3>2, <3>4
  <2>5. CASE HeldBack(i) = 0
    <3>1. Image(i) = <<Slash>>
      BY <1>5, <2>1, <2>5 DEF Image, HeldBack
    <3>2. r.pending - HeldBack(i) = a.pending + 1
      BY <1>1, <2>1, <2>5
    <3>3. (a.out \o Slashes(a.pending)) \o <<Slash>> = a.out \o Slashes(a.pending + 1)
      BY <1>1, Joined
    <3> QED
      BY <1>4, <2>1, <2>3, <3>1, <3>2, <3>3
  <2> QED
    BY <2>4, <2>5 DEF HeldBack
<1>6. ASSUME t.token # "slash"
      PROVE  SoFar(i) = r.out
  <2>1. r.pending = 0 /\ HeldBack(i) = 0
    BY <1>1, <1>6, PendingBefore, HeldBackIs
  <2>2. r.pending - HeldBack(i) = 0
    BY <2>1
  <2> QED
    BY <1>2, <1>4, <2>2, Joined
<1>7. CASE t.token = "other"
  <2>1. HeldBack(i - 1) = 0 /\ ~(i < Len(plainConfig) /\ Escaped(i + 1))
    BY <1>1, <1>7, HeldBackIs, PendingBefore DEF HeldBack
  <2>2. Image(i) = <<t>> /\ t = Other
    BY <1>1, <1>7, <2>1, TokenShape DEF Image
  <2>3. a.pending - HeldBack(i - 1) = a.pending
    BY <1>1, <2>1
  <2>4. r.out = (a.out \o Slashes(a.pending)) \o <<Other>>
    BY <1>1, <1>7 DEF ReadsAs
  <2> QED
    BY <1>3, <1>6, <1>7, <2>2, <2>3, <2>4
<1>8. CASE t.token = "marker" /\ a.pending % 2 # 0
  <2>1. Escaped(i)
    BY <1>1, <1>8, HeldBackIs
  <2>2. HeldBack(i - 1) = 1 /\ ~(i < Len(plainConfig) /\ Escaped(i + 1))
    BY <1>1, <1>8, <2>1, HeldBackIs, PendingBefore DEF HeldBack
  <2>3. Image(i) = <<t>>
    BY <2>1, <2>2 DEF Image
  <2>4. a.pending - HeldBack(i - 1) = a.pending - 1
    BY <1>1, <2>2
  <2>5. r.out = (a.out \o Slashes(a.pending - 1)) \o <<t>>
    BY <1>1, <1>8 DEF ReadsAs
  <2> QED
    BY <1>3, <1>6, <1>8, <2>3, <2>4, <2>5
<1>9. CASE t.token = "marker" /\ a.pending % 2 = 0
  <2>1. ~Escaped(i)
    BY <1>1, <1>9, HeldBackIs
  <2>2. HeldBack(i - 1) = 0
    BY <2>1, HeldBackIs
  <2>3. t.name \in DOMAIN secrets
    BY <1>1, <1>9, UnknownIs
  <2>4. Image(i) = ValueOf(t.name)
    BY <1>9, <2>1, <2>3 DEF Image, ValueOf
  <2>5. a.pending - HeldBack(i - 1) = a.pending
    BY <1>1, <2>2
  <2>6. r.out = (a.out \o Slashes(a.pending)) \o ValueOf(t.name)
    BY <1>1, <1>9 DEF ReadsAs
  <2> QED
    BY <1>3, <1>6, <1>9, <2>4, <2>5, <2>6
<1>10. t.token \in {"slash", "other", "marker"}
  BY <1>1, TokenShape
<1>11. a.pending % 2 # 0 \/ a.pending % 2 = 0
  OBVIOUS
<1> QED
  BY <1>5, <1>7, <1>8, <1>9, <1>10, <1>11

\* What replaceSecrets gives: it fails exactly for an unknown marker, and the
\* text is otherwise made up of the images of the tokens.
LEMMA ReplacedIs ==
  ASSUME plainConfig \in Seq(Token), Known
  PROVE  /\ Replaced.missing <=> \E i \in DOMAIN plainConfig : Unknown(i)
         /\ Replaced.out \in Seq(Output)
         /\ (\A i \in DOMAIN plainConfig : ~Unknown(i)) => Replaced.out = FlattenSeq(Images)
<1> DEFINE n == Len(plainConfig)
           end == Reading[n]
<1>1. n \in Nat /\ DOMAIN plainConfig = 1..n /\ n \in 0..n
  OBVIOUS
<1>2. end \in Progress /\ end.pending \in Nat /\ end.out \in Seq(Output)
  BY <1>1, Reads DEF Progress
<1>3. Replaced.missing = end.missing /\ Replaced.out = end.out \o Slashes(end.pending)
  BY DEF Replaced
<1>4. Replaced.missing <=> \E i \in DOMAIN plainConfig : Unknown(i)
  BY <1>1, <1>3, MissingIs
<1>5. Replaced.out \in Seq(Output)
  <2>1. <<>> \in Seq(Output)
    OBVIOUS
  <2> QED
    BY <1>2, <1>3, <2>1, Joined
<1>6. ASSUME \A i \in 1..n : ~Unknown(i)
      PROVE  Replaced.out = FlattenSeq(Images)
  <2>1. Images \in [1..n -> Seq(Output)] /\ \A i \in 1..n : Images[i] = Image(i)
    BY <1>1, <1>6, ImageType DEF Images
  <2>2. PICK g \in [0..n -> Seq(Output)] :
          /\ g[0] = <<>> /\ \A i \in 1..n : g[i] = g[i - 1] \o Images[i]
          /\ FlattenSeq(Images) = g[n]
    BY <1>1, <2>1, Flattens
  <2> DEFINE P == {i \in 0..n : SoFar(i) = g[i]}
  <2>3. 0 \in P
    <3>1. Reading[0].out = <<>> /\ Reading[0].pending = 0
      BY Reads DEF Start
    <3>2. HeldBack(0) = 0
      <4>1. CASE n = 0
        BY <4>1 DEF HeldBack
      <4>2. CASE n # 0
        <5>1. 1 \in 1..n /\ 1 - 1 = 0
          BY <1>1, <4>2
        <5>2. SlashesBefore(1) = 0
          BY <3>1, <5>1, PendingBefore
        <5>3. 0 % 2 # 1
          OBVIOUS
        <5>4. 0 + 1 = 1
          OBVIOUS
        <5> QED
          BY <5>2, <5>3, <5>4 DEF HeldBack, Escaped
      <4> QED
        BY <4>1, <4>2
    <3>3. Reading[0].pending - HeldBack(0) = 0
      BY <3>1, <3>2
    <3>4. SoFar(0) = <<>>
      <4>1. <<>> \in Seq(Output)
        OBVIOUS
      <4> QED
        BY <3>1, <3>3, <4>1, Joined DEF SoFar
    <3>5. 0 \in 0..n
      BY <1>1
    <3> QED
      BY <2>2, <3>4, <3>5
  <2>4. ASSUME NEW i \in 1..n, i - 1 \in P PROVE i \in P
    <3>1. SoFar(i) = SoFar(i - 1) \o Image(i)
      BY <1>6, SoFarGrows
    <3>2. i \in 0..n
      BY <1>1
    <3>3. SoFar(i - 1) = g[i - 1]
      BY <2>4
    <3> QED
      BY <2>1, <2>2, <3>1, <3>2, <3>3
  <2> HIDE DEF P
  <2>5. n \in P
    BY <1>1, <2>3, <2>4, UpTo
  <2>6. SoFar(n) = g[n]
    BY <2>5 DEF P
  <2>7. SoFar(n) = end.out \o Slashes(end.pending)
    <3>1. HeldBack(n) = 0
      BY <1>1 DEF HeldBack
    <3>2. end.pending - HeldBack(n) = end.pending
      BY <1>2, <3>1
    <3> QED
      BY <3>2 DEF SoFar
  <2> QED
    BY <1>3, <2>2, <2>6, <2>7
<1> QED
  BY <1>1, <1>4, <1>5, <1>6

-----------------------------------------------------------------------------
(* The inductive invariant.                                                *)

\* What the pipeline was given, which no step changes.
Given ==
  /\ Parsed /\ image \in BOOLEAN /\ imageless \subseteq Job
  /\ commit \in [branch : Branch, protectedBranch : BOOLEAN]
  /\ globalSecrets \in Seq(Secret)
  /\ plainConfig \in Seq(Token)
  /\ configEnv.config \subseteq Name /\ configEnv.job \subseteq Name

NamesApart(list) == \A i, k \in DOMAIN list : list[i].name = list[k].name => i = k
Stored(list) == list \in Seq(Secret) /\ NamesApart(list)

Steps == {"find", "prepare", "replace", "static", "image", "exists", "cyclic", "jobs",
          "done", "failed"}

\* Each name has the value of the last secret with it that the pipeline may use.
Latest ==
  /\ DOMAIN secrets = {Candidates[i].name : i \in Usable}
  /\ \A n \in DOMAIN secrets : \E k \in Usable :
       /\ Candidates[k].name = n /\ secrets[n] = Candidates[k].value
       /\ \A i \in Usable : Candidates[i].name = n => i <= k

SecretsInv ==
  IF step \in {"find", "prepare"} THEN DOMAIN secrets = {} ELSE Latest

SecretValues == {secrets[n] : n \in DOMAIN secrets}

TextInv ==
  /\ config \in Seq(Output)
  /\ step \in {"find", "prepare", "replace"} => config = <<>>
  /\ ReplacedExactly

JobInv ==
  /\ step # "done" => job = NoJob
  /\ DOMAIN job.env \subseteq Name
  /\ \A n \in DOMAIN job.env : job.env[n] \in Provided \cup SecretValues

\* What each check that was passed has established.
ErrorsInv ==
  /\ errors \subseteq Error
  /\ step \in {"find", "prepare", "replace", "static", "jobs", "done"} => errors = {}
  /\ step \in {"image", "exists", "cyclic", "jobs", "done"} =>
       Names \cap CloneNames = {} /\ Cardinality(Names) \in 1..MaxJobs
  /\ step \in {"exists", "cyclic", "jobs", "done"} /\ errors = {} =>
       image \/ Names \cap imageless = {}
  /\ step \in {"cyclic", "jobs", "done"} /\ errors = {} =>
       \A j \in Names : ToSet(jobs[j]) \subseteq Names
  /\ step \in {"jobs", "done"} => Acyclic
  /\ CyclesReported

ConfigIInv ==
  /\ Given
  /\ Stored(collection) /\ Stored(repoSecrets)
  /\ step \in Steps
  /\ SecretsInv /\ TextInv /\ JobInv /\ ErrorsInv

-----------------------------------------------------------------------------
(* The secrets.                                                            *)

LEMMA LastIndex ==
  ASSUME NEW n \in Nat, NEW T \in SUBSET (1..n), T # {}
  PROVE  \E k \in T : \A i \in T : i <= k
<1> DEFINE U == {n - i : i \in T}
<1>1. U \in SUBSET Nat /\ U # {}
  <2>1. \A i \in T : i \in 1..n /\ n - i \in Nat /\ n - i \in U
    OBVIOUS
  <2> QED
    BY <2>1
<1>2. PICK m \in U : \A l \in U : m <= l
  <2> HIDE DEF U
  <2> QED BY <1>1, LeastNumber
<1>3. PICK k \in T : m = n - k
  BY <1>2
<1>4. \A i \in T : n - k <= n - i
  BY <1>2, <1>3
<1>5. \A i \in T : i <= k
  <2> TAKE i \in T
  <2>1. i \in Nat /\ k \in Nat /\ n - k <= n - i
    BY <1>4
  <2> QED
    BY <2>1
<1> QED
  BY <1>5

\* The candidates are the global secrets followed by those of the repository.
LEMMA CandidatesAre ==
  ASSUME globalSecrets \in Seq(Secret), repoSecrets \in Seq(Secret)
  PROVE  /\ Candidates \in Seq(Secret)
         /\ DOMAIN Candidates = 1..(Len(globalSecrets) + Len(repoSecrets))
         /\ \A i \in DOMAIN globalSecrets : Candidates[i] = globalSecrets[i]
         /\ \A i \in DOMAIN repoSecrets :
              /\ Len(globalSecrets) + i \in DOMAIN Candidates
              /\ Candidates[Len(globalSecrets) + i] = repoSecrets[i]
         /\ \A i \in DOMAIN Candidates : i > Len(globalSecrets) =>
              /\ i - Len(globalSecrets) \in DOMAIN repoSecrets
              /\ Candidates[i] = repoSecrets[i - Len(globalSecrets)]
         /\ \A i \in DOMAIN Candidates : Candidates[i] \in Secret /\ Candidates[i].name \in Name
<1> DEFINE g == Len(globalSecrets)
           r == Len(repoSecrets)
<1>1. g \in Nat /\ r \in Nat /\ DOMAIN globalSecrets = 1..g /\ DOMAIN repoSecrets = 1..r
  OBVIOUS
<1>2. /\ Candidates \in Seq(Secret) /\ Len(Candidates) = g + r
      /\ \A i \in 1..(g + r) :
           Candidates[i] = IF i <= g THEN globalSecrets[i] ELSE repoSecrets[i - g]
  BY ConcatProperties DEF Candidates
<1>3. DOMAIN Candidates = 1..(g + r)
  BY <1>2
<1>4. \A i \in DOMAIN Candidates : Candidates[i] \in Secret
  BY <1>2
<1>5. \A s \in Secret : s.name \in Name
  BY DEF Secret
<1> HIDE DEF g, r
<1>6. \A i \in 1..g : Candidates[i] = globalSecrets[i]
  BY <1>1, <1>2
<1>7. \A i \in 1..r : g + i \in 1..(g + r) /\ Candidates[g + i] = repoSecrets[i]
  <2> TAKE i \in 1..r
  <2>1. g + i \in 1..(g + r) /\ ~(g + i <= g) /\ (g + i) - g = i
    BY <1>1
  <2> QED
    BY <1>2, <2>1
<1>8. \A i \in 1..(g + r) : i > g => i - g \in 1..r /\ Candidates[i] = repoSecrets[i - g]
  <2> TAKE i \in 1..(g + r)
  <2>1. i > g => i - g \in 1..r /\ ~(i <= g)
    BY <1>1
  <2> QED
    BY <1>2, <2>1
<1> QED
  BY <1>1, <1>2, <1>3, <1>4, <1>5, <1>6, <1>7, <1>8 DEF g, r

\* convertSecretsToEnv keeps the last secret with each name.
LEMMA ToEnvIs ==
  ASSUME globalSecrets \in Seq(Secret), repoSecrets \in Seq(Secret)
  PROVE  /\ DOMAIN ToEnv(Usable) = {Candidates[i].name : i \in Usable}
         /\ \A n \in DOMAIN ToEnv(Usable) : \E k \in Usable :
              /\ Candidates[k].name = n /\ ToEnv(Usable)[n] = Candidates[k].value
              /\ \A i \in Usable : Candidates[i].name = n => i <= k
<1>1. DOMAIN ToEnv(Usable) = {Candidates[i].name : i \in Usable}
  BY DEF ToEnv
<1>2. PICK l \in Nat : Usable \subseteq 1..l
  BY CandidatesAre DEF Usable
<1>3. ASSUME NEW n \in DOMAIN ToEnv(Usable)
      PROVE  \E k \in Usable :
               /\ Candidates[k].name = n /\ ToEnv(Usable)[n] = Candidates[k].value
               /\ \A i \in Usable : Candidates[i].name = n => i <= k
  <2> DEFINE T == {i \in Usable : Candidates[i].name = n}
             Newest(i) == /\ Candidates[i].name = n
                          /\ \A k \in Usable : Candidates[k].name = n => k <= i
             last == CHOOSE i \in Usable : Newest(i)
  <2>1. T \in SUBSET (1..l) /\ T # {}
    BY <1>1, <1>2
  <2>2. PICK k \in T : \A i \in T : i <= k
    <3> HIDE DEF T
    <3> QED BY <2>1, LastIndex
  <2>3. k \in Usable /\ Newest(k)
    BY <2>2
  <2>4. ToEnv(Usable)[n] = Candidates[last].value
    BY <1>1 DEF ToEnv
  <2> HIDE DEF Newest
  <2>5. last \in Usable /\ Newest(last)
    BY <2>3
  <2> HIDE DEF last
  <2> QED
    BY <2>4, <2>5 DEF Newest
<1> QED
  BY <1>1, <1>3

\* The names that have a value are those of secrets that admit the commit.
LEMMA KnownSecrets ==
  ASSUME globalSecrets \in Seq(Secret), repoSecrets \in Seq(Secret), Latest
  PROVE  /\ Known /\ DOMAIN secrets \subseteq Name
         /\ \A n \in DOMAIN secrets : \E s \in ToSet(Candidates) :
              s.name = n /\ s.value = secrets[n] /\ Admits(s)
<1>1. \A i \in Usable : i \in DOMAIN Candidates /\ Admits(Candidates[i])
  BY DEF Usable
<1>2. \A i \in DOMAIN Candidates : Candidates[i] \in ToSet(Candidates) /\ Candidates[i].name \in Name
  BY CandidatesAre DEF ToSet
<1>3. \A s \in ToSet(Candidates) : Admits(s) => \E i \in Usable : Candidates[i] = s
  BY DEF ToSet, Usable
<1> QED
  BY <1>1, <1>2, <1>3 DEF Latest, Known

-----------------------------------------------------------------------------
(* The database keeps the names of secrets apart.                          *)

\* Adding, changing and removing a secret keep the names apart.
LEMMA StoredAppend ==
  ASSUME NEW list, Stored(list), NEW s \in Secret, s.name \notin SecretNames(list)
  PROVE  Stored(Append(list, s))
<1> DEFINE t == Append(list, s)
           n == Len(list)
<1>1. list \in Seq(Secret) /\ n \in Nat /\ DOMAIN list = 1..n
  BY DEF Stored
<1>2. /\ t \in Seq(Secret) /\ DOMAIN t = 1..(n + 1)
      /\ \A i \in 1..n : t[i] = list[i]
      /\ t[n + 1] = s
  BY <1>1
<1>3. \A i \in 1..n : list[i].name # s.name
  BY <1>1 DEF SecretNames
<1>4. \A i \in 1..(n + 1) : i = n + 1 \/ i \in 1..n
  BY <1>1
<1> HIDE DEF t, n
<1>5. \A i, k \in 1..n : list[i].name = list[k].name => i = k
  BY <1>1 DEF Stored, NamesApart
<1>6. ASSUME NEW i \in 1..(n + 1), NEW k \in 1..(n + 1), t[i].name = t[k].name PROVE i = k
  BY <1>2, <1>3, <1>4, <1>5, <1>6
<1> QED
  BY <1>2, <1>6 DEF Stored, NamesApart, t

LEMMA StoredReplace ==
  ASSUME NEW list, Stored(list), NEW i \in DOMAIN list, NEW s \in Secret,
         s.name = list[i].name \/ s.name \notin SecretNames(list)
  PROVE  Stored(ReplaceAt(list, i, s))
<1> DEFINE t == ReplaceAt(list, i, s)
<1>1. list \in Seq(Secret) /\ \A k, m \in DOMAIN list : list[k].name = list[m].name => k = m
  BY DEF Stored, NamesApart
<1>2. /\ t \in Seq(Secret) /\ DOMAIN t = DOMAIN list
      /\ t[i] = s /\ \A k \in DOMAIN list : k # i => t[k] = list[k]
  BY <1>1 DEF ReplaceAt
<1>3. \A k \in DOMAIN list : k # i => list[k].name # s.name
  BY <1>1 DEF SecretNames
<1> HIDE DEF t
<1>4. ASSUME NEW k \in DOMAIN list, NEW m \in DOMAIN list, t[k].name = t[m].name PROVE k = m
  BY <1>1, <1>2, <1>3, <1>4
<1> QED
  BY <1>2, <1>4 DEF Stored, NamesApart, t

LEMMA StoredRemove ==
  ASSUME NEW list, Stored(list), NEW i \in DOMAIN list
  PROVE  Stored(RemoveAt(list, i))
<1> DEFINE n == Len(list)
           a == SubSeq(list, 1, i - 1)
           b == SubSeq(list, i + 1, n)
           t == RemoveAt(list, i)
           From(k) == IF k < i THEN k ELSE k + 1
<1>1. list \in Seq(Secret) /\ n \in Nat /\ DOMAIN list = 1..n /\ i \in 1..n
  BY DEF Stored
<1>2. \A k \in 1..n : list[k] \in Secret
  BY <1>1
<1>3. /\ a \in Seq(Secret) /\ Len(a) = i - 1
      /\ \A k \in 1..(i - 1) : a[k] = list[k]
  <2>1. 1 \in Int /\ i - 1 \in Int /\ \A k \in 1..(i - 1) : list[k] \in Secret
    BY <1>1, <1>2
  <2>2. /\ a \in Seq(Secret) /\ Len(a) = IF 1 <= i - 1 THEN (i - 1) - 1 + 1 ELSE 0
        /\ \A k \in 1..((i - 1) - 1 + 1) : a[k] = list[1 + k - 1]
    BY <2>1, SubSeqProperties
  <2>3. \A k \in 1..(i - 1) : k \in 1..((i - 1) - 1 + 1) /\ 1 + k - 1 = k
    BY <1>1
  <2> QED
    BY <1>1, <2>2, <2>3
<1>4. /\ b \in Seq(Secret) /\ Len(b) = n - i
      /\ \A k \in 1..(n - i) : b[k] = list[k + i]
  <2>1. i + 1 \in Int /\ n \in Int /\ \A k \in (i + 1)..n : list[k] \in Secret
    BY <1>1, <1>2
  <2>2. /\ b \in Seq(Secret) /\ Len(b) = IF i + 1 <= n THEN n - (i + 1) + 1 ELSE 0
        /\ \A k \in 1..(n - (i + 1) + 1) : b[k] = list[(i + 1) + k - 1]
    BY <2>1, SubSeqProperties
  <2>3. \A k \in 1..(n - i) : k \in 1..(n - (i + 1) + 1) /\ (i + 1) + k - 1 = k + i
    BY <1>1
  <2> QED
    BY <1>1, <2>2, <2>3
<1>5. t = a \o b
  BY DEF RemoveAt
<1> HIDE DEF a, b, t, n
<1>6. /\ t \in Seq(Secret) /\ Len(t) = (i - 1) + (n - i)
      /\ \A k \in 1..((i - 1) + (n - i)) : t[k] = IF k <= i - 1 THEN a[k] ELSE b[k - (i - 1)]
  <2>1. /\ a \o b \in Seq(Secret) /\ Len(a \o b) = Len(a) + Len(b)
        /\ \A k \in 1..(Len(a) + Len(b)) :
             (a \o b)[k] = IF k <= Len(a) THEN a[k] ELSE b[k - Len(a)]
    BY <1>3, <1>4, ConcatProperties
  <2> QED
    BY <1>3, <1>4, <1>5, <2>1
<1>7. DOMAIN t = 1..(n - 1)
  <2>1. (i - 1) + (n - i) = n - 1 /\ n - 1 \in Nat
    BY <1>1
  <2> QED
    BY <1>6, <2>1
<1>8. \A k \in 1..(n - 1) : t[k] = list[From(k)] /\ From(k) \in 1..n
  <2> TAKE k \in 1..(n - 1)
  <2>1. k \in 1..((i - 1) + (n - i))
    BY <1>1
  <2>2. CASE k < i
    <3>1. k <= i - 1 /\ k \in 1..(i - 1) /\ k \in 1..n
      BY <1>1, <2>2
    <3> QED
      BY <1>3, <1>6, <2>1, <2>2, <3>1
  <2>3. CASE ~(k < i)
    <3>1. ~(k <= i - 1) /\ k - (i - 1) \in 1..(n - i) /\ (k - (i - 1)) + i = k + 1 /\ k + 1 \in 1..n
      BY <1>1, <2>3
    <3> QED
      BY <1>4, <1>6, <2>1, <2>3, <3>1
  <2> QED
    BY <2>2, <2>3
<1>9. \A k, m \in 1..(n - 1) : From(k) = From(m) => k = m
  BY <1>1
<1> HIDE DEF From
<1>10. \A k, m \in 1..n : list[k].name = list[m].name => k = m
  BY <1>1 DEF Stored, NamesApart
<1>11. \A k, m \in DOMAIN t : t[k].name = t[m].name => k = m
  BY <1>7, <1>8, <1>9, <1>10
<1> QED
  BY <1>6, <1>11 DEF Stored, NamesApart, t

-----------------------------------------------------------------------------
(* The invariant holds at the start.                                       *)

LEMMA GivenInit == ConfigInit => Given /\ Stored(collection)
<1> SUFFICES ASSUME ConfigInit PROVE Given /\ Stored(collection)
  OBVIOUS
<1>1. PICK f \in Inputs :
        /\ commit \in f.commits /\ globalSecrets \in f.globalSecrets
        /\ collection \in f.repoSecrets /\ plainConfig \in f.texts
        /\ configEnv \in [config : f.env, job : f.env] /\ image \in BOOLEAN
        /\ \E names \in SUBSET f.names : jobs \in [names -> f.dependencies]
        /\ imageless \in f.imageless
  BY DEF ConfigInit
<1>2. /\ f.commits \subseteq [branch : Branch, protectedBranch : BOOLEAN]
      /\ \A s \in f.globalSecrets \cup f.repoSecrets : s \in Seq(Secret)
      /\ f.texts \subseteq Seq(Token)
      /\ f.env \subseteq SUBSET Name
      /\ f.names \subseteq Job /\ IsFiniteSet(f.names) /\ f.dependencies \subseteq Seq(Job)
      /\ f.imageless \subseteq SUBSET Job
      /\ \A s \in f.repoSecrets : \A i, k \in DOMAIN s : s[i].name = s[k].name => i = k
  BY SecretsAssumption DEF SecretsAssumption
<1>3. PICK names \in SUBSET f.names : jobs \in [names -> f.dependencies]
  BY <1>1
<1>4. IsFiniteSet(names)
  BY <1>2, FS_Subset
<1>5. DOMAIN jobs = names /\ \A j \in names : jobs[j] \in f.dependencies
  BY <1>3
<1>6. Parsed
  BY <1>2, <1>4, <1>5 DEF Parsed, Names
<1>7. configEnv.config \subseteq Name /\ configEnv.job \subseteq Name
  BY <1>1, <1>2
<1>8. Stored(collection)
  BY <1>1, <1>2 DEF Stored, NamesApart
<1> QED
  BY <1>1, <1>2, <1>6, <1>7, <1>8 DEF Given

LEMMA InvInit == ConfigInit => ConfigIInv
<1> SUFFICES ASSUME ConfigInit PROVE ConfigIInv
  OBVIOUS
<1>1. Given /\ Stored(collection)
  BY GivenInit
<1>2. /\ step = "find" /\ repoSecrets = <<>> /\ secrets = <<>> /\ config = <<>>
      /\ errors = {} /\ job = NoJob
  BY DEF ConfigInit
<1>3. Stored(repoSecrets)
  BY <1>2 DEF Stored, NamesApart
<1>4. SecretsInv
  BY <1>2 DEF SecretsInv
<1>5. TextInv
  BY <1>2 DEF TextInv, ReplacedExactly
<1>6. job.env = <<>>
  BY <1>2 DEF NoJob
<1>7. JobInv
  BY <1>2, <1>6 DEF JobInv
<1>8. ErrorsInv
  BY <1>2 DEF ErrorsInv, CyclesReported, Accepted, Validated
<1> QED
  BY <1>1, <1>2, <1>3, <1>4, <1>5, <1>7, <1>8 DEF ConfigIInv, Steps

-----------------------------------------------------------------------------
(* The steps.                                                              *)

LEMMA SameGiven ==
  [ConfigNext]_configVars =>
    /\ UNCHANGED <<commit, globalSecrets, plainConfig, configEnv>>
    /\ UNCHANGED <<image, jobs, imageless>>
<1> SUFFICES ASSUME [ConfigNext]_configVars
             PROVE  UNCHANGED given /\ UNCHANGED parsed
  BY DEF given, parsed
<1>1. EditSecrets => UNCHANGED given /\ UNCHANGED parsed
  BY DEF EditSecrets, AddSecret, UpdateSecret, RemoveSecret, Edit
<1>2. FindSecrets \/ PrepareSecrets \/ ReplaceSecrets \/ InitPipelineJobs =>
        UNCHANGED given /\ UNCHANGED parsed
  BY DEF FindSecrets, PrepareSecrets, ReplaceSecrets, InitPipelineJobs
<1>3. ValidateConfig => UNCHANGED parsed
  BY DEF ValidateConfig, CheckStatic, CheckJobsHaveImageOrGlobalImage, CheckDepsExist,
         CheckNoCyclicDeps
<1>4. UNCHANGED configVars => UNCHANGED given /\ UNCHANGED parsed
  BY DEF configVars
<1> QED
  BY <1>1, <1>2, <1>3, <1>4 DEF ConfigNext

\* What a step does, one disjunct for each kind that the parts of the invariant
\* tell apart.
Validates ==
  /\ ValidateConfig
  /\ UNCHANGED <<collection, repoSecrets, secrets, config, job>>
  /\ step \in {"static", "image", "exists", "cyclic"}
  /\ step' \in {"image", "exists", "cyclic", "jobs", "failed"}
Rests == UNCHANGED <<repoSecrets, secrets, config, job, step, errors>>

LEMMA Kinds ==
  ASSUME [ConfigNext]_configVars
  PROVE  \/ EditSecrets /\ Rests
         \/ Rests /\ UNCHANGED collection
         \/ FindSecrets \/ PrepareSecrets \/ ReplaceSecrets \/ InitPipelineJobs
         \/ Validates
<1>1. EditSecrets => Rests
  BY DEF EditSecrets, AddSecret, UpdateSecret, RemoveSecret, Edit, Rests, results
<1>2. UNCHANGED configVars => Rests /\ UNCHANGED collection
  BY DEF configVars, Rests, results, database
<1>3. ValidateConfig /\ UNCHANGED <<given, database, results>> => Validates
  BY DEF ValidateConfig, CheckStatic, CheckJobsHaveImageOrGlobalImage, CheckDepsExist,
         CheckNoCyclicDeps, Validates, database, results
<1> QED
  BY <1>1, <1>2, <1>3 DEF ConfigNext

LEMMA GivenStep == Given /\ [ConfigNext]_configVars => Given'
<1> SUFFICES ASSUME Given, [ConfigNext]_configVars PROVE Given'
  OBVIOUS
<1>1. /\ UNCHANGED <<commit, globalSecrets, plainConfig, configEnv>>
      /\ UNCHANGED <<image, jobs, imageless>>
  BY SameGiven
<1> QED
  BY <1>1 DEF Given, Parsed, Names

LEMMA StoredStep ==
  ASSUME Stored(collection), Stored(repoSecrets), [ConfigNext]_configVars
  PROVE  Stored(collection)' /\ Stored(repoSecrets)'
<1>1. CASE EditSecrets
  <2>1. UNCHANGED repoSecrets
    BY <1>1 DEF EditSecrets, AddSecret, UpdateSecret, RemoveSecret, Edit, results
  <2>2. NewSecret \subseteq Secret
    BY SecretsAssumption DEF SecretsAssumption
  <2>3. ASSUME NEW s \in NewSecret, AddSecret(s) PROVE Stored(collection')
    BY <2>2, <2>3, StoredAppend DEF AddSecret, Edit
  <2>4. ASSUME NEW i \in DOMAIN collection, RemoveSecret(i) PROVE Stored(collection')
    BY <2>4, StoredRemove DEF RemoveSecret, Edit
  <2>5. ASSUME NEW i \in DOMAIN collection, NEW s \in NewSecret, UpdateSecret(i, s)
        PROVE  Stored(collection')
    BY <2>2, <2>5, StoredReplace DEF UpdateSecret, Edit
  <2>6. Stored(collection')
    BY <1>1, <2>3, <2>4, <2>5 DEF EditSecrets
  <2> QED
    BY <2>1, <2>6 DEF Stored, NamesApart
<1>2. CASE FindSecrets
  BY <1>2 DEF FindSecrets, database, Stored, NamesApart
<1>3. CASE PrepareSecrets \/ ReplaceSecrets \/ InitPipelineJobs
  BY <1>3 DEF PrepareSecrets, ReplaceSecrets, InitPipelineJobs, database, Stored, NamesApart
<1>4. CASE Validates \/ (Rests /\ UNCHANGED collection)
  BY <1>4 DEF Validates, Rests, Stored, NamesApart
<1> QED
  BY <1>1, <1>2, <1>3, <1>4, Kinds

LEMMA PcStep == ASSUME step \in Steps, [ConfigNext]_configVars PROVE step' \in Steps
BY Kinds DEF Steps, Rests, FindSecrets, PrepareSecrets, ReplaceSecrets, InitPipelineJobs, Validates

LEMMA SameCandidates ==
  ASSUME UNCHANGED <<commit, globalSecrets, repoSecrets>>
  PROVE  Candidates' = Candidates /\ Usable' = Usable
BY DEF Candidates, Usable, Admits

LEMMA SameLatest ==
  ASSUME Latest, UNCHANGED <<commit, globalSecrets, repoSecrets, secrets>>
  PROVE  Latest'
<1>1. Candidates' = Candidates /\ Usable' = Usable /\ secrets' = secrets
  BY SameCandidates
<1> QED
  BY <1>1 DEF Latest

LEMMA SecretsStep ==
  ASSUME Given, Stored(repoSecrets), SecretsInv, [ConfigNext]_configVars
  PROVE  SecretsInv'
<1>1. UNCHANGED <<commit, globalSecrets>>
  BY SameGiven
<1>2. CASE FindSecrets
  BY <1>2 DEF FindSecrets, SecretsInv
<1>3. CASE PrepareSecrets
  <2>1. UNCHANGED repoSecrets /\ secrets' = ToEnv(Usable) /\ step' = "replace"
    BY <1>3 DEF PrepareSecrets
  <2>2. Candidates' = Candidates /\ Usable' = Usable
    BY <1>1, <2>1, SameCandidates
  <2>3. globalSecrets \in Seq(Secret) /\ repoSecrets \in Seq(Secret)
    BY DEF Given, Stored
  <2>4. /\ DOMAIN secrets' = {Candidates[i].name : i \in Usable}
        /\ \A n \in DOMAIN secrets' : \E k \in Usable :
             /\ Candidates[k].name = n /\ secrets'[n] = Candidates[k].value
             /\ \A i \in Usable : Candidates[i].name = n => i <= k
    BY <2>1, <2>3, ToEnvIs
  <2>5. Latest'
    BY <2>2, <2>4 DEF Latest
  <2> QED
    BY <2>1, <2>5 DEF SecretsInv
<1>4. CASE ReplaceSecrets \/ InitPipelineJobs \/ Validates
  <2>1. /\ UNCHANGED <<repoSecrets, secrets>>
        /\ step \notin {"find", "prepare"} /\ step' \notin {"find", "prepare"}
    BY <1>4 DEF ReplaceSecrets, InitPipelineJobs, Validates
  <2>2. Latest'
    BY <1>1, <2>1, SameLatest DEF SecretsInv
  <2> QED
    BY <2>1, <2>2 DEF SecretsInv
<1>5. CASE Rests
  <2>1. UNCHANGED <<repoSecrets, secrets, step>>
    BY <1>5 DEF Rests
  <2> QED
    BY <1>1, <2>1, SameLatest DEF SecretsInv
<1> QED
  BY <1>2, <1>3, <1>4, <1>5, Kinds

\* What the text becomes depends on the text, the secrets and the commit alone.
LEMMA SameText ==
  ASSUME UNCHANGED <<commit, globalSecrets, repoSecrets, secrets, plainConfig>>
  PROVE  /\ (\E i \in DOMAIN plainConfig : Unknown(i))' <=> \E i \in DOMAIN plainConfig : Unknown(i)
         /\ Images' = Images
<1>1. Candidates' = Candidates
  BY SameCandidates
<1>2. ASSUME NEW i
      PROVE  SlashesBefore(i)' = SlashesBefore(i)
  <2>1. {k \in 1..(i - 1) : \A m \in k..(i - 1) : plainConfig'[m] = Slash} =
          {k \in 1..(i - 1) : \A m \in k..(i - 1) : plainConfig[m] = Slash}
    OBVIOUS
  <2> QED
    BY <2>1 DEF SlashesBefore
<1>3. ASSUME NEW i PROVE Escaped(i)' <=> Escaped(i)
  BY <1>2 DEF Escaped
<1>4. ASSUME NEW i PROVE Unknown(i)' <=> Unknown(i)
  BY <1>1, <1>3 DEF Unknown, Admits, ToSet
<1>5. ASSUME NEW i PROVE Image(i)' = Image(i)
  BY <1>3 DEF Image
<1>6. Images' = [i \in DOMAIN plainConfig |-> Image(i)]
  BY <1>5 DEF Images
<1> QED
  BY <1>4, <1>6 DEF Images

\* The text is judged by its images, named.
LEMMA ReplacedExactlyIs ==
  ReplacedExactly <=>
    (step \notin {"find", "prepare", "replace"} =>
       IF \E i \in DOMAIN plainConfig : Unknown(i)
       THEN step = "failed" /\ errors = {}
       ELSE config = FlattenSeq(Images))
BY DEF ReplacedExactly, Images

LEMMA SameReplaced ==
  ASSUME ReplacedExactly, step \notin {"find", "prepare", "replace"},
         UNCHANGED <<commit, globalSecrets, repoSecrets, secrets, plainConfig, config>>,
         step = "failed" => UNCHANGED <<step, errors>>
  PROVE  ReplacedExactly'
<1> DEFINE unknown == \E i \in DOMAIN plainConfig : Unknown(i)
<1>1. (unknown' <=> unknown) /\ Images' = Images
  BY SameText
<1>2. IF unknown THEN step = "failed" /\ errors = {} ELSE config = FlattenSeq(Images)
  BY ReplacedExactlyIs
<1>3. FlattenSeq(Images') = FlattenSeq(Images)
  BY <1>1
<1>4. ReplacedExactly' <=>
        (step' \notin {"find", "prepare", "replace"} =>
           IF unknown' THEN step' = "failed" /\ errors' = {} ELSE config' = FlattenSeq(Images'))
  BY DEF ReplacedExactly, Images
<1> HIDE DEF unknown
<1>5. IF unknown' THEN step' = "failed" /\ errors' = {} ELSE config' = FlattenSeq(Images')
  BY <1>1, <1>2, <1>3
<1> QED
  BY <1>4, <1>5

LEMMA TextStep ==
  ASSUME Given, Stored(repoSecrets), SecretsInv, TextInv, ErrorsInv, step \in Steps,
         [ConfigNext]_configVars
  PROVE  TextInv'
<1>1. UNCHANGED <<commit, globalSecrets, plainConfig>>
  BY SameGiven
<1>2. /\ config \in Seq(Output) /\ ReplacedExactly
      /\ step \in {"find", "prepare", "replace"} => config = <<>>
  BY DEF TextInv
<1>3. UNCHANGED secrets => Output' = Output
  BY DEF Output
<1>4. CASE FindSecrets
  <2>1. step = "find" /\ step' = "prepare" /\ UNCHANGED <<secrets, config>>
    BY <1>4 DEF FindSecrets
  <2> QED
    BY <1>2, <1>3, <2>1 DEF TextInv, ReplacedExactly
<1>5. CASE PrepareSecrets
  <2>1. step' = "replace" /\ config' = <<>>
    BY <1>2, <1>5 DEF PrepareSecrets
  <2> QED
    BY <2>1 DEF TextInv, ReplacedExactly
<1>6. CASE ReplaceSecrets
  <2>1. /\ step = "replace" /\ UNCHANGED <<repoSecrets, secrets, errors>>
        /\ IF Replaced.missing THEN step' = "failed" /\ UNCHANGED config
           ELSE step' = "static" /\ config' = Replaced.out
    BY <1>6 DEF ReplaceSecrets, parsed
  <2>2. errors = {}
    BY <2>1 DEF ErrorsInv
  <2>3. Known
    BY <2>1, KnownSecrets DEF Given, Stored, SecretsInv
  <2> DEFINE unknown == \E i \in DOMAIN plainConfig : Unknown(i)
  <2>4. /\ Replaced.missing <=> unknown
        /\ Replaced.out \in Seq(Output)
        /\ ~unknown => Replaced.out = FlattenSeq(Images)
    BY <2>3, ReplacedIs DEF Given
  <2>5. (unknown' <=> unknown) /\ Images' = Images
    BY <1>1, <2>1, SameText
  <2>6. ReplacedExactly' <=>
          (step' \notin {"find", "prepare", "replace"} =>
             IF unknown' THEN step' = "failed" /\ errors' = {} ELSE config' = FlattenSeq(Images'))
    BY DEF ReplacedExactly, Images
  <2> HIDE DEF unknown
  <2>7. FlattenSeq(Images') = FlattenSeq(Images)
    BY <2>5
  <2>8. ReplacedExactly'
    BY <2>1, <2>2, <2>4, <2>5, <2>6, <2>7
  <2>9. config' \in Seq(Output)
    BY <1>2, <2>1, <2>4
  <2> QED
    BY <1>3, <2>1, <2>8, <2>9 DEF TextInv
<1>7. CASE InitPipelineJobs \/ Validates
  <2>1. /\ UNCHANGED <<repoSecrets, secrets, config>>
        /\ step \notin {"find", "prepare", "replace", "failed"}
        /\ step' \notin {"find", "prepare", "replace"}
    BY <1>7 DEF InitPipelineJobs, Validates
  <2>2. ReplacedExactly'
    BY <1>1, <1>2, <2>1, SameReplaced
  <2> QED
    BY <1>2, <1>3, <2>1, <2>2 DEF TextInv
<1>8. CASE Rests
  <2>1. UNCHANGED <<repoSecrets, secrets, config, step, errors>>
    BY <1>8 DEF Rests
  <2>2. ReplacedExactly'
    <3>1. CASE step \in {"find", "prepare", "replace"}
      BY <2>1, <3>1 DEF ReplacedExactly
    <3>2. CASE step \notin {"find", "prepare", "replace"}
      BY <1>1, <1>2, <2>1, <3>2, SameReplaced
    <3> QED
      BY <3>1, <3>2
  <2> QED
    BY <1>2, <1>3, <2>1, <2>2 DEF TextInv
<1> QED
  BY <1>4, <1>5, <1>6, <1>7, <1>8, Kinds

\* The environment of a job has values of the config, the server and the secrets.
LEMMA JobEnvIs ==
  /\ DOMAIN JobEnv = (DOMAIN secrets) \cup configEnv.config \cup configEnv.job \cup SystemName
  /\ \A n \in DOMAIN JobEnv : JobEnv[n] \in Provided \cup SecretValues
<1>1. \A names, value : /\ DOMAIN EnvOf(names, value) = names
                        /\ \A n \in names : EnvOf(names, value)[n] = value
  BY DEF EnvOf
<1>2. ASSUME NEW f, NEW g, NEW V, \A n \in DOMAIN f : f[n] \in V, \A n \in DOMAIN g : g[n] \in V
      PROVE  /\ DOMAIN Spread(f, g) = (DOMAIN f) \cup (DOMAIN g)
             /\ \A n \in DOMAIN Spread(f, g) : Spread(f, g)[n] \in V
  BY <1>2 DEF Spread
<1> DEFINE V == Provided \cup SecretValues
           a == EnvOf(SystemName, "system")
           b == EnvOf(configEnv.job, "job")
           c == EnvOf(configEnv.config, "config")
<1>3. /\ DOMAIN a = SystemName /\ \A n \in DOMAIN a : a[n] \in V
      /\ DOMAIN b = configEnv.job /\ \A n \in DOMAIN b : b[n] \in V
      /\ DOMAIN c = configEnv.config /\ \A n \in DOMAIN c : c[n] \in V
      /\ \A n \in DOMAIN secrets : secrets[n] \in V
  BY <1>1 DEF Provided, SecretValues
<1> DEFINE ofConfig == Spread(secrets, c)
           ofJob == Spread(ofConfig, b)
<1>4. JobEnv = Spread(ofJob, a)
  BY DEF JobEnv
<1> HIDE DEF a, b, c, V
<1>5. /\ DOMAIN ofConfig = (DOMAIN secrets) \cup configEnv.config
      /\ \A n \in DOMAIN ofConfig : ofConfig[n] \in V
  BY <1>2, <1>3
<1> HIDE DEF ofConfig
<1>6. /\ DOMAIN ofJob = (DOMAIN secrets) \cup configEnv.config \cup configEnv.job
      /\ \A n \in DOMAIN ofJob : ofJob[n] \in V
  BY <1>2, <1>3, <1>5
<1> HIDE DEF ofJob
<1>7. /\ DOMAIN Spread(ofJob, a) =
           (DOMAIN secrets) \cup configEnv.config \cup configEnv.job \cup SystemName
      /\ \A n \in DOMAIN Spread(ofJob, a) : Spread(ofJob, a)[n] \in V
  BY <1>2, <1>3, <1>6
<1> QED
  BY <1>4, <1>7 DEF V

LEMMA JobStep ==
  ASSUME Given, Stored(repoSecrets), SecretsInv, JobInv, step \in Steps, [ConfigNext]_configVars
  PROVE  JobInv'
<1>1. CASE InitPipelineJobs
  <2>1. /\ step = "jobs" /\ step' = "done" /\ UNCHANGED secrets
        /\ job' = [env |-> JobEnv, hideFromLogs |-> HideFromLogs]
    BY <1>1 DEF InitPipelineJobs
  <2>2. DOMAIN secrets \subseteq Name
    BY <2>1, KnownSecrets DEF Given, Stored, SecretsInv
  <2>3. job'.env = JobEnv
    BY <2>1
  <2>4. DOMAIN JobEnv \subseteq Name
    BY <2>2, JobEnvIs, SecretsAssumption DEF Given, SecretsAssumption
  <2>5. SecretValues' = SecretValues
    BY <2>1 DEF SecretValues
  <2> QED
    BY <2>1, <2>3, <2>4, <2>5, JobEnvIs DEF JobInv
<1>2. CASE PrepareSecrets
  <2>1. step # "done" /\ step' = "replace" /\ UNCHANGED job
    BY <1>2 DEF PrepareSecrets
  <2>2. job.env = <<>>
    BY <2>1 DEF JobInv, NoJob
  <2> QED
    BY <2>1, <2>2 DEF JobInv
<1>3. CASE FindSecrets \/ ReplaceSecrets \/ Validates
  <2>1. step # "done" /\ step' # "done" /\ UNCHANGED <<job, secrets>>
    BY <1>3 DEF FindSecrets, ReplaceSecrets, Validates
  <2> QED
    BY <2>1 DEF JobInv, SecretValues
<1>4. CASE Rests
  BY <1>4 DEF Rests, JobInv, SecretValues
<1> QED
  BY <1>1, <1>2, <1>3, <1>4, Kinds

LEMMA SameJobs ==
  ASSUME UNCHANGED jobs
  PROVE  /\ Names' = Names /\ (Acyclic' <=> Acyclic)
         /\ \A j : OnCycle(j)' <=> OnCycle(j)
<1>1. Names' = Names /\ jobs' = jobs
  BY DEF Names
<1>2. \A j : Deps(j)' = Deps(j)
  BY <1>1 DEF Deps
<1> QED
  BY <1>1, <1>2 DEF Acyclic, OnCycle

LEMMA ErrorShape ==
  ASSUME NEW check \in {"static", "image", "exists", "cyclic"}, NEW j \in Job \cup {"jobs"},
         NEW path \in Seq(Job)
  PROVE  [check |-> check, job |-> j, path |-> path] \in Error
BY DEF Error

\* What each check establishes if it adds no error, and what it reports if it does.
LEMMA StaticStep ==
  ASSUME Given, ErrorsInv, CheckStatic
  PROVE  ErrorsInv'
<1>1. step = "static" /\ errors' = StaticErrors /\ UNCHANGED <<image, jobs, imageless>>
  BY DEF CheckStatic, parsed
<1>2. step' = IF errors' # {} THEN "failed" ELSE "image"
  BY DEF CheckStatic
<1>3. Names' = Names
  BY <1>1 DEF Names
<1>4. \A e \in errors' : e \in Error /\ e.check = "static"
  <2>1. Names \subseteq Job /\ WrongNumber \subseteq {"jobs"} /\ <<>> \in Seq(Job)
    BY DEF Given, Parsed, WrongNumber
  <2>2. \A j \in (Names \cap CloneNames) \cup WrongNumber :
          [check |-> "static", job |-> j, path |-> <<>>] \in Error
    BY <2>1, ErrorShape
  <2> QED
    BY <1>1, <2>2 DEF StaticErrors
<1>5. ASSUME errors' = {}
      PROVE  Names \cap CloneNames = {} /\ Cardinality(Names) \in 1..MaxJobs
  <2>1. Names \cap CloneNames = {} /\ WrongNumber = {}
    BY <1>1, <1>5 DEF StaticErrors
  <2> QED
    BY <2>1 DEF WrongNumber
<1>6. CyclesReported'
  BY <1>2, <1>4 DEF CyclesReported, Accepted, Validated
<1> QED
  BY <1>2, <1>3, <1>4, <1>5, <1>6 DEF ErrorsInv

LEMMA ImageStep ==
  ASSUME Given, ErrorsInv, CheckJobsHaveImageOrGlobalImage
  PROVE  ErrorsInv'
<1> DEFINE new == IF image THEN {} ELSE
                    {[check |-> "image", job |-> j, path |-> <<>>] : j \in Names \cap imageless}
<1>1. /\ step = "image" /\ step' = "exists" /\ UNCHANGED <<image, jobs, imageless>>
      /\ errors' = errors \cup new
  BY DEF CheckJobsHaveImageOrGlobalImage, parsed
<1>2. Names' = Names
  BY <1>1 DEF Names
<1>3. new \subseteq Error
  <2>1. <<>> \in Seq(Job)
    OBVIOUS
  <2>2. \A j \in Names \cap imageless : [check |-> "image", job |-> j, path |-> <<>>] \in Error
    BY <2>1, ErrorShape DEF Given
  <2> QED
    BY <2>2
<1>4. new = {} => image \/ Names \cap imageless = {}
  OBVIOUS
<1> HIDE DEF new
<1>5. CyclesReported'
  BY <1>1 DEF CyclesReported, Accepted, Validated
<1> QED
  BY <1>1, <1>2, <1>3, <1>4, <1>5 DEF ErrorsInv

LEMMA ExistsStep ==
  ASSUME Given, ErrorsInv, CheckDepsExist
  PROVE  ErrorsInv'
<1> DEFINE new == UNION {{[check |-> "exists", job |-> j, path |-> <<d>>] : d \in Missing(j)} : j \in Names}
<1>1. /\ step = "exists" /\ step' = "cyclic" /\ UNCHANGED <<image, jobs, imageless>>
      /\ errors' = errors \cup new
  BY DEF CheckDepsExist, parsed
<1>2. Names' = Names
  BY <1>1 DEF Names
<1>3. \A j \in Names : j \in Job /\ Missing(j) \subseteq Job
  BY SetOfSequence DEF Given, Parsed, Missing
<1>4. new \subseteq Error
  <2>1. \A d \in Job : <<d>> \in Seq(Job)
    OBVIOUS
  <2>2. \A j \in Names : \A d \in Missing(j) : [check |-> "exists", job |-> j, path |-> <<d>>] \in Error
    BY <1>3, <2>1, ErrorShape
  <2> QED
    BY <2>2
<1>5. new = {} => \A j \in Names : ToSet(jobs[j]) \subseteq Names
  <2>1. ASSUME NEW j \in Names, NEW d \in Missing(j)
        PROVE  [check |-> "exists", job |-> j, path |-> <<d>>] \in new
    OBVIOUS
  <2>2. new = {} => \A j \in Names : Missing(j) = {}
    <3> HIDE DEF new
    <3> QED BY <2>1
  <2> QED
    BY <2>2 DEF Missing
<1> HIDE DEF new
<1>6. CyclesReported'
  BY <1>1 DEF CyclesReported, Accepted, Validated
<1> QED
  BY <1>1, <1>2, <1>4, <1>5, <1>6 DEF ErrorsInv

LEMMA CyclicStep ==
  ASSUME Given, ErrorsInv, CheckNoCyclicDeps
  PROVE  ErrorsInv'
<1> DEFINE new == UNION {{[check |-> "cyclic", job |-> j, path |-> p] : p \in Cycles(j)} : j \in Names}
<1>1. /\ step = "cyclic" /\ UNCHANGED <<image, jobs, imageless>>
      /\ errors' = errors \cup new
  BY DEF CheckNoCyclicDeps, parsed
<1>2. step' = IF errors' # {} THEN "failed" ELSE "jobs"
  BY DEF CheckNoCyclicDeps
<1>3. Names' = Names /\ (Acyclic' <=> Acyclic) /\ \A j : OnCycle(j)' <=> OnCycle(j)
  BY <1>1, SameJobs
<1>4. Parsed /\ \A j \in Names : j \in Job /\ Cycles(j) \subseteq Seq(Job)
  BY CyclesCall DEF Given, Parsed
<1>5. \A j \in Names : \A p \in Cycles(j) :
        \E e \in new : e.check = "cyclic" /\ e.job = j
  <2> TAKE j \in Names
  <2> TAKE p \in Cycles(j)
  <2> DEFINE e == [check |-> "cyclic", job |-> j, path |-> p]
  <2>1. e \in new /\ e.check = "cyclic" /\ e.job = j
    OBVIOUS
  <2> QED
    BY <2>1
<1>6. new \subseteq Error
  <2>1. \A j \in Names : \A p \in Cycles(j) : [check |-> "cyclic", job |-> j, path |-> p] \in Error
    BY <1>4, ErrorShape
  <2> QED
    BY <2>1
<1>7. new = {} => Acyclic
  <2>1. new = {} => \A j \in Names : Cycles(j) = {}
    BY <1>5
  <2> QED
    BY <1>4, <2>1, AcyclicIfNone
<1>8. \A j \in Names : OnCycle(j) => \E e \in new : e.check = "cyclic" /\ e.job = j
  BY <1>4, <1>5, OnCycleIsFound
<1> HIDE DEF new
<1>9. CyclesReported'
  BY <1>1, <1>3, <1>8 DEF CyclesReported
<1> QED
  BY <1>1, <1>2, <1>3, <1>6, <1>7, <1>9 DEF ErrorsInv

LEMMA ErrorsStep ==
  ASSUME Given, ErrorsInv, step \in Steps, [ConfigNext]_configVars
  PROVE  ErrorsInv'
<1>1. UNCHANGED <<image, jobs, imageless>>
  BY SameGiven
<1>2. Names' = Names /\ (Acyclic' <=> Acyclic) /\ \A j : OnCycle(j)' <=> OnCycle(j)
  BY <1>1, SameJobs
<1>3. CASE Validates
  BY <1>3, StaticStep, ImageStep, ExistsStep, CyclicStep DEF Validates, ValidateConfig
<1>4. CASE Rests
  <2>1. UNCHANGED <<step, errors>>
    BY <1>4 DEF Rests
  <2>2. CyclesReported'
    BY <1>2, <2>1 DEF ErrorsInv, CyclesReported, Accepted, Validated
  <2> QED
    BY <1>1, <1>2, <2>1, <2>2 DEF ErrorsInv
<1>5. CASE FindSecrets \/ PrepareSecrets \/ ReplaceSecrets
  <2>1. /\ step \in {"find", "prepare", "replace"} /\ step' \in {"prepare", "replace", "static", "failed"}
        /\ errors' = errors
    BY <1>5 DEF FindSecrets, PrepareSecrets, ReplaceSecrets
  <2>2. errors' = {}
    BY <2>1 DEF ErrorsInv
  <2>3. CyclesReported'
    BY <2>1, <2>2 DEF CyclesReported, Accepted, Validated
  <2> QED
    BY <2>1, <2>2, <2>3 DEF ErrorsInv
<1>6. CASE InitPipelineJobs
  <2>1. step = "jobs" /\ step' = "done" /\ errors' = errors
    BY <1>6 DEF InitPipelineJobs
  <2>2. CyclesReported'
    BY <1>2, <2>1 DEF ErrorsInv, CyclesReported, Accepted, Validated
  <2> QED
    BY <1>1, <1>2, <2>1, <2>2 DEF ErrorsInv
<1> QED
  BY <1>3, <1>4, <1>5, <1>6, Kinds

LEMMA InvStep == ConfigIInv /\ [ConfigNext]_configVars => ConfigIInv'
<1> SUFFICES ASSUME ConfigIInv, [ConfigNext]_configVars PROVE ConfigIInv'
  OBVIOUS
<1>1. /\ Given /\ Stored(collection) /\ Stored(repoSecrets) /\ step \in Steps
      /\ SecretsInv /\ TextInv /\ JobInv /\ ErrorsInv
  BY DEF ConfigIInv
<1>2. Given' /\ Stored(collection)' /\ Stored(repoSecrets)'
  BY <1>1, GivenStep, StoredStep
<1>3. step' \in Steps
  BY <1>1, PcStep
<1>4. SecretsInv' /\ TextInv' /\ JobInv' /\ ErrorsInv'
  BY <1>1, SecretsStep, TextStep, JobStep, ErrorsStep
<1> QED
  BY <1>2, <1>3, <1>4 DEF ConfigIInv, Steps

LEMMA InvAlways == ConfigSpec => []ConfigIInv
BY InvInit, InvStep, PTL DEF ConfigSpec

-----------------------------------------------------------------------------
(* The theorems.                                                           *)

\* The variables are well typed, and a config that gets jobs can be run
\* (validateConfig): its dependencies exist and are acyclic, whatever graph its
\* jobs form.
THEOREM ConfigInvHolds == ConfigSpec => []ConfigInv
<1>1. ConfigIInv => ConfigInv
  <2> SUFFICES ASSUME ConfigIInv PROVE ConfigInv
    OBVIOUS
  <2>1. /\ Given /\ Stored(collection) /\ Stored(repoSecrets) /\ step \in Steps
        /\ SecretsInv /\ TextInv /\ JobInv /\ ErrorsInv
    BY DEF ConfigIInv
  <2>2. ParsedType
    BY <2>1 DEF Given, Parsed, Names, ErrorsInv, ParsedType
  <2>3. DOMAIN secrets \subseteq SecretNames(Candidates)
    <3>1. CASE step \in {"find", "prepare"}
      BY <2>1, <3>1 DEF SecretsInv
    <3>2. CASE step \notin {"find", "prepare"}
      BY <2>1, <3>2 DEF SecretsInv, Latest, Usable, SecretNames
    <3> QED
      BY <3>1, <3>2
  <2>4. \A i \in DOMAIN config : config[i].token \in {"slash", "other", "marker", "value"}
    <3>1. \A i \in DOMAIN config : config[i] \in Output
      BY <2>1 DEF TextInv
    <3>2. \A t \in Output : t.token \in {"slash", "other", "marker", "value"}
      BY TokenShape DEF Output, Plain
    <3> QED
      BY <3>1, <3>2
  <2>5. ConfigTypeOK
    BY <2>1, <2>2, <2>3, <2>4 DEF ConfigTypeOK, Stored, Steps, JobInv
  <2>6. AcceptedCanRun
    BY <2>1 DEF AcceptedCanRun, Accepted, ErrorsInv
  <2> QED
    BY <2>5, <2>6 DEF ConfigInv
<1> QED
  BY InvAlways, <1>1, PTL

\* Every job on a cycle of dependencies gets an error of its own
\* (checkNoCyclicDeps), although the search of a job stops at the first
\* repetition of each chain.
THEOREM CyclesReportedHolds == ConfigSpec => []CyclesReported
<1>1. ConfigIInv => CyclesReported
  BY DEF ConfigIInv, ErrorsInv
<1> QED
  BY InvAlways, <1>1, PTL

\* What a job sees of the secrets admits the branch of its pipeline
\* (prepareSecrets), whatever administrators change meanwhile.
THEOREM SecretsStayProtectedHolds == ConfigSpec => []SecretsStayProtected
<1>1. ConfigIInv => SecretsStayProtected
  <2> SUFFICES ASSUME ConfigIInv, NEW v \in Values \ Provided
               PROVE  \E s \in ToSet(Candidates) :
                        /\ s.value = v
                        /\ s.protectedBranchesOnly => commit.protectedBranch
                        /\ s.branches # {} => commit.branch \in s.branches
    BY DEF SecretsStayProtected
  <2>1. Given /\ Stored(repoSecrets) /\ SecretsInv /\ TextInv /\ JobInv
    BY DEF ConfigIInv
  <2>2. \E n \in DOMAIN secrets : secrets[n] = v
    <3>1. CASE \E i \in DOMAIN config : config[i].token = "value" /\ config[i].value = v
      <4>1. PICK i \in DOMAIN config : config[i].token = "value" /\ config[i].value = v
        BY <3>1
      <4>2. config[i] \in Output
        BY <2>1 DEF TextInv
      <4>3. config[i] \notin Token
        BY <4>1, TokenShape
      <4>4. PICK n \in DOMAIN secrets : config[i] = Plain(secrets[n])
        BY <4>2, <4>3 DEF Output
      <4> QED
        BY <4>1, <4>4 DEF Plain
    <3>2. CASE \E n \in DOMAIN job.env : job.env[n] = v
      BY <2>1, <3>2 DEF JobInv, SecretValues
    <3> QED
      BY <3>1, <3>2 DEF Values
  <2>3. Latest
    BY <2>1, <2>2 DEF SecretsInv
  <2>4. PICK s \in ToSet(Candidates) : s.value = v /\ Admits(s)
    BY <2>1, <2>2, <2>3, KnownSecrets DEF Given, Stored
  <2> QED
    BY <2>4 DEF Admits
<1> QED
  BY InvAlways, <1>1, PTL

\* A secret of the repository that the pipeline may use wins over the global
\* ones with its name (convertSecretsToEnv).
THEOREM RepoSecretsWinHolds == ConfigSpec => []RepoSecretsWin
<1>1. ConfigIInv => RepoSecretsWin
  <2> SUFFICES ASSUME ConfigIInv, step = "done", NEW s \in ToSet(repoSecrets), Admits(s)
               PROVE  secrets[s.name] = s.value
    BY DEF RepoSecretsWin
  <2>1. /\ globalSecrets \in Seq(Secret) /\ repoSecrets \in Seq(Secret)
        /\ NamesApart(repoSecrets) /\ Latest
    BY DEF ConfigIInv, Given, Stored, SecretsInv
  <2> DEFINE g == Len(globalSecrets)
  <2>2. g \in Nat
    BY <2>1
  <2>3. PICK m \in DOMAIN repoSecrets : repoSecrets[m] = s
    BY DEF ToSet
  <2>4. m \in Nat /\ m > 0
    BY <2>1, <2>3
  <2>5. g + m \in Usable /\ Candidates[g + m] = s
    BY <2>1, <2>3, CandidatesAre DEF Usable
  <2>6. s.name \in DOMAIN secrets
    BY <2>1, <2>5 DEF Latest
  <2>7. PICK k \in Usable :
          /\ Candidates[k].name = s.name /\ secrets[s.name] = Candidates[k].value
          /\ \A i \in Usable : Candidates[i].name = s.name => i <= k
    BY <2>1, <2>6 DEF Latest
  <2>8. g + m <= k /\ k \in DOMAIN Candidates
    BY <2>5, <2>7 DEF Usable
  <2>9. k - g \in DOMAIN repoSecrets /\ Candidates[k] = repoSecrets[k - g]
    <3>1. k > g
      <4>1. k \in Nat
        BY <2>1, <2>8, CandidatesAre
      <4> QED
        BY <2>2, <2>4, <2>8, <4>1
    <3> QED
      BY <2>1, <2>8, <3>1, CandidatesAre
  <2>10. k - g = m
    BY <2>1, <2>3, <2>7, <2>9 DEF NamesApart
  <2> QED
    BY <2>3, <2>7, <2>9, <2>10
<1> QED
  BY InvAlways, <1>1, PTL

\* Every marker is replaced, kept or refused as its backslashes say
\* (replaceSecrets), in a text of any length.
THEOREM ReplacedExactlyHolds == ConfigSpec => []ReplacedExactly
<1>1. ConfigIInv => ReplacedExactly
  BY DEF ConfigIInv, TextInv
<1> QED
  BY InvAlways, <1>1, PTL

-----------------------------------------------------------------------------
(* The log of a job.                                                       *)

\* What WatcherMissesNothing rests on: only watched logs are waited for, a
\* browser stays in a room, and requests the logs once.
InRoom ==
  /\ room # "out" \/ request # "none" => output \in Watched
  /\ joinedFirst => room = "in" /\ request \notin {"none", "guards"}

WatchIInv == InRoom /\ WatcherMissesNothing

allWatchVars == <<vars, watchVars>>

LEMMA InitWatch == WatchInit => WatchIInv
BY DEF WatchInit, Init, WatchIInv, InRoom, WatcherMissesNothing

\* The steps of exec, execJob and addJobLog before the insertion.
LEMMA UnwatchedStep ==
  ASSUME WatchIInv, UNCHANGED watchVars, UNCHANGED <<output, jobLogs>>
  PROVE  WatchIInv'
BY DEF WatchIInv, InRoom, WatcherMissesNothing, watchVars

\* A stored log is on its way to the room.
LEMMA StoreStep ==
  ASSUME WatchIInv, NEW l \in inserting, StoreLog(l)
  PROVE  WatchIInv'
<1>1. InRoom'
  BY DEF WatchIInv, InRoom, StoreLog, Inserted
<1>2. ASSUME joinedFirst' PROVE (jobLogs \subseteq fetched \cup received \cup emitting)'
  <2>1. joinedFirst /\ output \in Watched
    BY <1>2 DEF StoreLog, WatchIInv, InRoom
  <2>2. emitting' = emitting \cup {l} /\ jobLogs' = jobLogs \cup {l}
    BY <2>1 DEF StoreLog, Inserted
  <2> QED
    BY <2>1, <2>2 DEF WatchIInv, WatcherMissesNothing, StoreLog
<1> QED
  BY <1>1, <1>2 DEF WatchIInv, WatcherMissesNothing

\* A log that is sent reaches whoever is in the room.
LEMMA EmitStep ==
  ASSUME WatchIInv, NEW l \in emitting, Emit(l)
  PROVE  WatchIInv'
<1>1. InRoom'
  BY DEF WatchIInv, InRoom, Emit, vars
<1>2. ASSUME joinedFirst' PROVE (jobLogs \subseteq fetched \cup received \cup emitting)'
  <2>1. joinedFirst /\ room = "in"
    BY <1>2 DEF Emit, WatchIInv, InRoom
  <2>2. emitting' = emitting \ {l} /\ received' = received \cup {l}
    BY <2>1 DEF Emit
  <2> QED
    BY <2>1, <2>2 DEF WatchIInv, WatcherMissesNothing, Emit, vars
<1> QED
  BY <1>1, <1>2 DEF WatchIInv, WatcherMissesNothing

LEMMA BrowserSteps ==
  ASSUME WatchIInv, BrowserStep
  PROVE  WatchIInv'
<1>1. CASE JoinJob
  BY <1>1 DEF JoinJob, WatchIInv, InRoom, WatcherMissesNothing, vars
<1>2. CASE Join
  BY <1>2 DEF Join, WatchIInv, InRoom, WatcherMissesNothing, vars
<1>3. CASE RequestLogs
  BY <1>3 DEF RequestLogs, WatchIInv, InRoom, WatcherMissesNothing, vars
<1>4. CASE GetJobLogs
  BY <1>4 DEF GetJobLogs, WatchIInv, InRoom, WatcherMissesNothing, vars
<1>5. CASE GetJobLogsRefused
  BY <1>5 DEF GetJobLogsRefused, WatchIInv, InRoom, WatcherMissesNothing, vars
<1> QED
  BY <1>1, <1>2, <1>3, <1>4, <1>5 DEF BrowserStep

LEMMA WatchStep ==
  ASSUME WatchIInv, [WatchNext]_allWatchVars
  PROVE  WatchIInv'
<1>1. CASE UNCHANGED allWatchVars
  BY <1>1, UnwatchedStep DEF allWatchVars, vars
<1>2. CASE RunnerStep /\ UNCHANGED watchVars
  <2>1. UNCHANGED <<output, jobLogs>>
    BY <1>2 DEF RunnerStep, PullLine, CreateContainer, StreamEnds, Succeeds, Fails, ReadChunk
  <2> QED
    BY <1>2, <2>1, UnwatchedStep
<1>3. CASE AddJobLog /\ UNCHANGED watchVars
  BY <1>3, UnwatchedStep DEF AddJobLog
<1> QED
  BY <1>1, <1>2, <1>3, StoreStep, EmitStep, BrowserSteps DEF WatchNext, LogStep

\* A browser that was in the room when its request was read misses nothing
\* (addJobLog, joinRoom and getJobLogs), whatever the script writes.
THEOREM WatcherMissesNothingHolds == WatchSpec => []WatcherMissesNothing
<1>1. WatchIInv => WatcherMissesNothing
  BY DEF WatchIInv
<1> QED
  BY InitWatch, WatchStep, <1>1, PTL DEF WatchSpec, allWatchVars

-----------------------------------------------------------------------------
(* The tokens of an output.                                                *)

LogToken ==
  {Header(s) : s \in Stream} \cup {Part(f, n) : f \in Nat, n \in Nat} \cup {Hidden}

Frames == [stream : Stream, parts : Nat \ {0}]

LEMMA LogTokenShape ==
  /\ \A s \in Stream : Header(s) \in LogToken /\ IsHeader(Header(s)) /\ Header(s).header = s
  /\ \A f, n \in Nat : Part(f, n) \in LogToken /\ ~IsHeader(Part(f, n))
  /\ Hidden \in LogToken /\ ~IsHeader(Hidden)
<1>1. \A s : IsHeader(Header(s)) /\ Header(s).header = s
  BY DEF IsHeader, Header
<1>2. \A f, n : ~IsHeader(Part(f, n))
  BY DEF IsHeader, Part
<1>3. ~IsHeader(Hidden)
  BY DEF IsHeader, Hidden
<1> QED
  BY <1>1, <1>2, <1>3 DEF LogToken

LEMMA FrameOf ==
  ASSUME output \in Seq(Frames)
  PROVE  /\ Len(output) \in Nat /\ DOMAIN output = 1..Len(output)
         /\ \A j \in 1..Len(output) :
              output[j].parts \in Nat \ {0} /\ output[j].stream \in Stream
<1>1. \A j \in 1..Len(output) : output[j] \in Frames
  OBVIOUS
<1>2. \A f \in Frames : f.parts \in Nat \ {0} /\ f.stream \in Stream
  BY DEF Frames
<1>3. Len(output) \in Nat /\ DOMAIN output = 1..Len(output)
  OBVIOUS
<1> QED
  BY <1>1, <1>2, <1>3

\* How many tokens so many frames have.
Ends[j \in 0..Len(output)] == IF j = 0 THEN 0 ELSE (Ends[j - 1] + 1) + output[j].parts

LEMMA EndsAre ==
  ASSUME output \in Seq(Frames)
  PROVE  /\ \A j \in 0..Len(output) : Ends[j] \in Nat
         /\ Ends[0] = 0
         /\ \A j \in 1..Len(output) :
              Ends[j] = (Ends[j - 1] + 1) + output[j].parts /\ output[j].parts \in Nat \ {0}
<1> DEFINE n == Len(output)
           H == [p \in (1..n) \X Nat |-> (p[2] + 1) + output[p[1]].parts]
           Follows(f, j) == IF j = 0 THEN 0 ELSE (f[j - 1] + 1) + output[j].parts
<1>1. n \in Nat /\ \A j \in 1..n : output[j].parts \in Nat \ {0}
  BY FrameOf
<1>2. \A j \in 1..n, x \in Nat : H[<<j, x>>] = (x + 1) + output[j].parts
  OBVIOUS
<1>3. \A j \in 1..n, x \in Nat : H[<<j, x>>] \in Nat
  <2> TAKE j \in 1..n, x \in Nat
  <2>1. H[<<j, x>>] = (x + 1) + output[j].parts /\ output[j].parts \in Nat
    BY <1>1, <1>2
  <2> QED
    BY <2>1
<1> HIDE DEF H
<1>4. PICK f : Iterates(f, n, H, 0, Nat)
  BY <1>1, <1>3, Iteration
<1>5. f \in [0..n -> Nat] /\ f[0] = 0 /\ \A j \in 1..n : f[j] = H[<<j, f[j - 1]>>]
  BY <1>4 DEF Iterates
<1>6. \A j \in 0..n : f[j] = Follows(f, j)
  <2>1. \A j \in 0..n : j # 0 => j \in 1..n /\ j - 1 \in 0..n
    BY <1>1
  <2> QED
    BY <1>2, <1>5, <2>1
<1>7. f = [j \in 0..n |-> Follows(f, j)]
  <2> HIDE DEF Follows
  <2> QED BY <1>5, <1>6
<1>8. Ends = [j \in 0..n |-> Follows(Ends, j)]
  BY <1>7, Zenon DEF Ends
<1> HIDE DEF Ends
<1>9. \A j \in 0..n : Ends[j] = Follows(Ends, j)
  <2> HIDE DEF Follows
  <2> QED BY <1>8
<1>10. Ends[0] = 0 /\ \A j \in 1..n : Ends[j] = (Ends[j - 1] + 1) + output[j].parts
  BY <1>1, <1>9
<1> DEFINE P == {j \in 0..n : Ends[j] \in Nat}
<1>11. 0 \in P
  BY <1>1, <1>10
<1>12. ASSUME NEW j \in 1..n, j - 1 \in P PROVE j \in P
  BY <1>1, <1>10, <1>12
<1> HIDE DEF P
<1>13. \A j \in 0..n : j \in P
  BY <1>1, <1>11, <1>12, UpTo
<1> QED
  BY <1>1, <1>10, <1>13 DEF P

LEMMA EndsGrow ==
  ASSUME output \in Seq(Frames), NEW i \in 0..Len(output)
  PROVE  \A j \in 0..Len(output) : i < j => Ends[i] + 2 <= Ends[j]
<1> DEFINE n == Len(output)
           P == {j \in 0..n : i < j => Ends[i] + 2 <= Ends[j]}
<1>1. n \in Nat /\ i \in Nat /\ Ends[i] \in Nat
  BY EndsAre
<1>2. 0 \in P
  BY <1>1
<1>3. ASSUME NEW j \in 1..n, j - 1 \in P PROVE j \in P
  <2>1. /\ Ends[j] = (Ends[j - 1] + 1) + output[j].parts /\ output[j].parts \in Nat \ {0}
        /\ j - 1 \in 0..n /\ j \in 0..n /\ Ends[j - 1] \in Nat
    BY <1>1, EndsAre
  <2>2. Ends[j - 1] + 2 <= Ends[j]
    BY <2>1
  <2>3. i < j => i = j - 1 \/ i < j - 1
    BY <1>1
  <2>4. i < j - 1 => Ends[i] + 2 <= Ends[j - 1]
    BY <1>3
  <2>5. i < j => Ends[i] + 2 <= Ends[j]
    <3>1. i = j - 1 => Ends[i] + 2 <= Ends[j]
      BY <2>2
    <3>2. i < j - 1 => Ends[i] + 2 <= Ends[j]
      <4> HAVE i < j - 1
      <4>1. Ends[j] \in Nat
        BY <2>1
      <4> QED
        BY <1>1, <2>1, <2>2, <2>4, <4>1
    <3> QED
      BY <2>3, <3>1, <3>2
  <2> QED
    BY <2>1, <2>5
<1> HIDE DEF P
<1>4. \A j \in 0..n : j \in P
  BY <1>1, <1>2, <1>3, UpTo
<1> QED
  BY <1>4 DEF P

\* A frame starts with its header; its payload follows.
Shows(t, j) ==
  /\ t[Ends[j - 1] + 1] = Header(output[j].stream)
  /\ \A m \in 1..output[j].parts : t[(Ends[j - 1] + 1) + m] = Part(j, m)

LEMMA FrameTokens ==
  ASSUME output \in Seq(Frames), NEW j \in 1..Len(output)
  PROVE  LET s == <<Header(output[j].stream)>> \o Payload(j)
         IN /\ s \in Seq(LogToken) /\ Len(s) = 1 + output[j].parts
            /\ s[1] = Header(output[j].stream)
            /\ \A m \in 1..output[j].parts : s[1 + m] = Part(j, m)
<1> DEFINE p == output[j].parts
           h == <<Header(output[j].stream)>>
           q == Payload(j)
<1>1. p \in Nat \ {0} /\ output[j].stream \in Stream
  BY FrameOf
<1>2. j \in Nat
  OBVIOUS
<1>3. h \in Seq(LogToken) /\ Len(h) = 1 /\ h[1] = Header(output[j].stream)
  BY <1>1, LogTokenShape
<1>4. q \in Seq(LogToken) /\ Len(q) = p /\ \A m \in 1..p : q[m] = Part(j, m)
  <2>1. \A m \in 1..p : Part(j, m) \in LogToken
    BY <1>1, <1>2, LogTokenShape
  <2> QED
    BY <1>1, <2>1 DEF Payload
<1> HIDE DEF p, h, q
<1>5. /\ h \o q \in Seq(LogToken) /\ Len(h \o q) = Len(h) + Len(q)
      /\ \A i \in 1..(Len(h) + Len(q)) :
           (h \o q)[i] = IF i <= Len(h) THEN h[i] ELSE q[i - Len(h)]
  BY <1>3, <1>4, ConcatProperties
<1>6. (h \o q)[1] = Header(output[j].stream)
  <2>1. 1 \in 1..(1 + p) /\ 1 <= 1
    BY <1>1
  <2> QED
    BY <1>3, <1>4, <1>5, <2>1
<1>7. \A m \in 1..p : (h \o q)[1 + m] = Part(j, m)
  <2> TAKE m \in 1..p
  <2>1. 1 + m \in 1..(1 + p) /\ ~(1 + m <= 1) /\ (1 + m) - 1 = m
    BY <1>1
  <2> QED
    BY <1>3, <1>4, <1>5, <2>1
<1>8. h \o q \in Seq(LogToken) /\ Len(h \o q) = 1 + p
  BY <1>3, <1>4, <1>5
<1> QED
  BY <1>6, <1>7, <1>8 DEF h, q, p

LEMMA TokensAre ==
  ASSUME output \in Seq(Frames)
  PROVE  /\ Tokens \in Seq(LogToken) /\ Len(Tokens) = Ends[Len(output)]
         /\ \A j \in 1..Len(output) : Shows(Tokens, j)
<1> DEFINE n == Len(output)
           s == [f \in DOMAIN output |-> <<Header(output[f].stream)>> \o Payload(f)]
           parts(f) == output[f].parts
<1>1. n \in Nat /\ DOMAIN output = 1..n
  OBVIOUS
<1>2. \A f \in 1..n :
        /\ s[f] \in Seq(LogToken) /\ Len(s[f]) = 1 + parts(f)
        /\ s[f][1] = Header(output[f].stream)
        /\ \A m \in 1..parts(f) : s[f][1 + m] = Part(f, m)
  BY <1>1, FrameTokens
<1>3. s \in [1..n -> Seq(LogToken)]
  BY <1>1, <1>2
<1>4. Tokens = FlattenSeq(s)
  BY DEF Tokens
<1> HIDE DEF s
<1>5. PICK g \in [0..n -> Seq(LogToken)] :
        /\ g[0] = <<>> /\ \A i \in 1..n : g[i] = g[i - 1] \o s[i]
        /\ FlattenSeq(s) = g[n]
  BY <1>1, <1>3, Flattens
<1> DEFINE P == {i \in 0..n : Len(g[i]) = Ends[i] /\ \A j \in 1..i : Shows(g[i], j)}
<1>6. 0 \in P
  <2>1. 0 \in 0..n /\ Len(g[0]) = Ends[0] /\ \A j \in 1..0 : FALSE
    BY <1>1, <1>5, EndsAre
  <2> QED
    BY <2>1
<1>7. ASSUME NEW i \in 1..n, i - 1 \in P PROVE i \in P
  <2> DEFINE t == g[i - 1]
             u == g[i]
             e == Ends[i - 1]
  <2>1. /\ i - 1 \in 0..n /\ i \in 0..n
        /\ e \in Nat /\ Ends[i] = (e + 1) + parts(i) /\ parts(i) \in Nat
    BY <1>1, EndsAre
  <2>2. t \in Seq(LogToken) /\ Len(t) = e /\ \A j \in 1..(i - 1) : Shows(t, j)
    BY <1>5, <1>7, <2>1
  <2>3. u = t \o s[i] /\ s[i] \in Seq(LogToken) /\ Len(s[i]) = 1 + parts(i)
    BY <1>2, <1>5
  <2> HIDE DEF t, u, e, parts
  <2>4. /\ Len(u) = e + (1 + parts(i))
        /\ \A k \in 1..(e + (1 + parts(i))) : u[k] = IF k <= e THEN t[k] ELSE s[i][k - e]
    BY <2>2, <2>3, ConcatProperties
  <2>5. Len(u) = Ends[i]
    BY <2>1, <2>4
  <2>6. ASSUME NEW j \in 1..(i - 1) PROVE Shows(u, j)
    <3>1. /\ j \in 1..n /\ j - 1 \in 0..n /\ j \in 0..n /\ j - 1 < j /\ j <= i - 1
      BY <1>1
    <3>2. Ends[j - 1] \in Nat /\ Ends[j] = (Ends[j - 1] + 1) + output[j].parts /\ output[j].parts \in Nat
      BY <3>1, EndsAre
    <3>3. Ends[j] \in Nat /\ Ends[j] <= e
      <4>1. j = i - 1 \/ j < i - 1
        BY <3>1
      <4>2. j < i - 1 => Ends[j] + 2 <= Ends[i - 1]
        BY <2>1, <3>1, EndsGrow
      <4>3. Ends[j] \in Nat
        BY <3>1, EndsAre
      <4> QED
        BY <2>1, <4>1, <4>2, <4>3 DEF e
    <3>4. \A k \in 1..Ends[j] : u[k] = t[k]
      <4>1. \A k \in 1..Ends[j] : k <= e /\ k \in 1..(e + (1 + parts(i)))
        BY <2>1, <3>3
      <4> QED
        BY <2>4, <4>1
    <3>5. Ends[j - 1] + 1 \in 1..Ends[j]
      BY <3>2
    <3>6. \A m \in 1..output[j].parts : (Ends[j - 1] + 1) + m \in 1..Ends[j]
      BY <3>2
    <3>7. Shows(t, j)
      BY <2>2
    <3> QED
      BY <3>4, <3>5, <3>6, <3>7 DEF Shows
  <2>7. Shows(u, i)
    <3>1. u[e + 1] = Header(output[i].stream)
      <4>1. e + 1 \in 1..(e + (1 + parts(i))) /\ ~(e + 1 <= e) /\ (e + 1) - e = 1
        BY <2>1
      <4> QED
        BY <1>2, <2>4, <4>1
    <3>2. ASSUME NEW m \in 1..parts(i) PROVE u[(e + 1) + m] = Part(i, m)
      <4>1. /\ (e + 1) + m \in 1..(e + (1 + parts(i))) /\ ~((e + 1) + m <= e)
            /\ ((e + 1) + m) - e = 1 + m
        BY <2>1
      <4>2. s[i][1 + m] = Part(i, m)
        BY <1>2
      <4> QED
        BY <2>4, <4>1, <4>2
    <3> QED
      BY <3>1, <3>2 DEF Shows, e, parts
  <2>8. \A j \in 1..i : Shows(u, j)
    <3>1. \A j \in 1..i : j = i \/ j \in 1..(i - 1)
      BY <2>1
    <3> QED
      BY <2>6, <2>7, <3>1
  <2> QED
    BY <2>1, <2>5, <2>8 DEF u
<1> HIDE DEF P, n
<1>8. \A i \in 0..n : i \in P
  BY <1>1, <1>6, <1>7, UpTo
<1>9. n \in 0..n
  BY <1>1
<1> QED
  BY <1>4, <1>5, <1>8, <1>9 DEF P, n

\* Every token is in a frame.
LEMMA Located ==
  ASSUME output \in Seq(Frames), NEW x \in 1..Ends[Len(output)]
  PROVE  \E j \in 1..Len(output) :
           \/ x = Ends[j - 1] + 1
           \/ \E m \in 1..output[j].parts : x = (Ends[j - 1] + 1) + m
<1> DEFINE n == Len(output)
           T == {j \in 0..n : x <= Ends[j]}
<1>1. n \in Nat /\ n \in 0..n /\ x \in Nat /\ 1 <= x /\ x <= Ends[n]
  <2>1. n \in Nat
    BY FrameOf
  <2>2. n \in 0..n
    BY <2>1
  <2>3. Ends[n] \in Nat
    BY <2>2, EndsAre
  <2> QED
    BY <2>1, <2>2, <2>3
<1>2. T \in SUBSET Nat /\ n \in T
  BY <1>1
<1>3. PICK j \in T : \A i \in T : j <= i
  <2> HIDE DEF T, n
  <2> QED
    BY <1>2, LeastNumber
<1>4. j \in 0..n /\ x <= Ends[j]
  BY <1>3
<1>5. j # 0
  BY <1>1, <1>4, EndsAre
<1>6. j \in 1..n /\ j - 1 \in 0..n /\ ~(j <= j - 1)
  BY <1>1, <1>4, <1>5
<1>7. ~(x <= Ends[j - 1])
  BY <1>3, <1>6
<1>8. /\ Ends[j - 1] \in Nat /\ Ends[j] = (Ends[j - 1] + 1) + output[j].parts
      /\ output[j].parts \in Nat
  BY <1>6, EndsAre
<1> DEFINE e == Ends[j - 1]
           p == output[j].parts
<1>9. x = e + 1 \/ (x - (e + 1) \in 1..p /\ x = (e + 1) + (x - (e + 1)))
  <2>1. e \in Nat /\ p \in Nat /\ x <= (e + 1) + p /\ ~(x <= e)
    BY <1>4, <1>7, <1>8
  <2> HIDE DEF e, p
  <2> QED
    BY <1>1, <2>1
<1> HIDE DEF n
<1> QED
  BY <1>6, <1>9 DEF n

LEMMA HeadersAre ==
  ASSUME output \in Seq(Frames), NEW x \in 1..Len(Tokens)
  PROVE  IsHeader(Tokens[x]) <=> \E j \in 1..Len(output) : x = Ends[j - 1] + 1
<1>1. Len(Tokens) = Ends[Len(output)] /\ \A j \in 1..Len(output) : Shows(Tokens, j)
  BY TokensAre
<1>2. PICK j \in 1..Len(output) :
        \/ x = Ends[j - 1] + 1
        \/ \E m \in 1..output[j].parts : x = (Ends[j - 1] + 1) + m
  BY <1>1, Located
<1>3. ASSUME NEW i \in 1..Len(output), x = Ends[i - 1] + 1 PROVE IsHeader(Tokens[x])
  BY <1>1, <1>3, FrameOf, LogTokenShape DEF Shows
<1>4. ASSUME NEW m \in 1..output[j].parts, x = (Ends[j - 1] + 1) + m PROVE ~IsHeader(Tokens[x])
  <2>1. j \in Nat /\ m \in Nat
    BY FrameOf
  <2>2. Tokens[x] = Part(j, m)
    BY <1>1, <1>4 DEF Shows
  <2> QED
    BY <2>1, <2>2, LogTokenShape
<1> QED
  BY <1>2, <1>3, <1>4

-----------------------------------------------------------------------------
(* Numbers in order.                                                       *)

Rising(e, K) == \A i, j \in 1..K : i < j => e[i] < e[j]

\* Numbers in order, one after the other, are counted by their places.
LEMMA NthIs ==
  ASSUME NEW K \in Nat, NEW S, NEW e \in [1..K -> Nat], Rising(e, K),
         S = {e[i] : i \in 1..K}
  PROVE  /\ IsFiniteSet(S) /\ Cardinality(S) = K
         /\ \A k \in 1..K : Nth(S, k) = e[k]
<1>1. \A k \in 0..K : Cardinality({e[i] : i \in 1..k}) = k /\ IsFiniteSet({e[i] : i \in 1..k})
  <2> DEFINE P == {k \in 0..K : LET U == {e[i] : i \in 1..k}
                                IN IsFiniteSet(U) /\ Cardinality(U) = k}
  <2>1. 0 \in P
    <3>1. {e[i] : i \in 1..0} = {}
      OBVIOUS
    <3> QED
      BY <3>1, FS_EmptySet
  <2>2. ASSUME NEW k \in 1..K, k - 1 \in P PROVE k \in P
    <3> DEFINE U == {e[i] : i \in 1..(k - 1)}
               V == {e[i] : i \in 1..k}
    <3>1. IsFiniteSet(U) /\ Cardinality(U) = k - 1
      BY <2>2
    <3>2. V = U \cup {e[k]}
      <4>1. \A i \in 1..k : i = k \/ i \in 1..(k - 1)
        OBVIOUS
      <4>2. 1..(k - 1) \subseteq 1..k /\ k \in 1..k
        OBVIOUS
      <4> QED
        BY <4>1, <4>2
    <3>3. e[k] \notin U
      <4> SUFFICES ASSUME NEW i \in 1..(k - 1), e[i] = e[k] PROVE FALSE
        OBVIOUS
      <4>1. i \in 1..K /\ k \in 1..K /\ i < k
        OBVIOUS
      <4>2. e[i] < e[k] /\ e[i] \in Nat /\ e[k] \in Nat
        BY <4>1 DEF Rising
      <4> QED
        BY <4>2
    <3> HIDE DEF U, V
    <3>4. IsFiniteSet(V) /\ Cardinality(V) = Cardinality(U) + 1
      BY <3>1, <3>2, <3>3, FS_AddElement
    <3>5. IsFiniteSet(V) /\ Cardinality(V) = k
      BY <3>1, <3>4
    <3> QED
      BY <3>5 DEF V
  <2> HIDE DEF P
  <2>3. \A k \in 0..K : k \in P
    BY <2>1, <2>2, UpTo
  <2> QED
    BY <2>3 DEF P
<1>2. \A k \in 1..K : Cardinality({c \in S : c <= e[k]}) = k
  <2> TAKE k \in 1..K
  <2>1. {c \in S : c <= e[k]} = {e[i] : i \in 1..k}
    <3>1. ASSUME NEW i \in 1..K PROVE e[i] <= e[k] <=> i \in 1..k
      <4>1. i \in Nat /\ k \in Nat /\ e[i] \in Nat /\ e[k] \in Nat
        OBVIOUS
      <4>2. k < i => e[k] < e[i]
        BY DEF Rising
      <4>3. i < k => e[i] < e[k]
        BY DEF Rising
      <4>4. i < k \/ i = k \/ k < i
        BY <4>1
      <4>5. i <= k => e[i] <= e[k]
        <5>1. CASE i < k
          BY <4>1, <4>3, <5>1
        <5>2. CASE i = k
          BY <4>1, <5>2
        <5>3. CASE k < i
          BY <4>1, <5>3
        <5> QED
          BY <4>4, <5>1, <5>2, <5>3
      <4>6. e[i] <= e[k] => i <= k
        <5>1. CASE k < i
          BY <4>1, <4>2, <5>1
        <5> QED
          BY <4>1, <5>1
      <4> QED
        BY <4>1, <4>5, <4>6
    <3>2. 1..k \subseteq 1..K
      OBVIOUS
    <3> QED
      BY <3>1, <3>2
  <2>2. k \in 0..K
    OBVIOUS
  <2> QED
    BY <1>1, <2>1, <2>2
<1>3. ASSUME NEW k \in 1..K PROVE Nth(S, k) = e[k]
  <2>1. e[k] \in S /\ Cardinality({c \in S : c <= e[k]}) = k
    BY <1>2
  <2>2. ASSUME NEW c \in S, Cardinality({d \in S : d <= c}) = k PROVE c = e[k]
    <3>1. PICK i \in 1..K : c = e[i]
      OBVIOUS
    <3>2. Cardinality({d \in S : d <= c}) = i
      BY <1>2, <3>1
    <3> QED
      BY <2>2, <3>1, <3>2
  <2> QED
    BY <2>1, <2>2 DEF Nth
<1>4. K \in 0..K
  OBVIOUS
<1> QED
  BY <1>1, <1>3, <1>4

\* Any set of numbers can be put in order.
LEMMA Enumerated ==
  ASSUME NEW n \in Nat, NEW S \in SUBSET (1..n)
  PROVE  \E K \in Nat : \E e \in [1..K -> Nat] : Rising(e, K) /\ S = {e[i] : i \in 1..K}
<1> DEFINE Below(j) == {x \in S : x <= j}
           Listed(U) == \E K \in Nat : \E e \in [1..K -> Nat] :
                          Rising(e, K) /\ U = {e[i] : i \in 1..K}
           P == {j \in 0..n : Listed(Below(j))}
<1>0. \A x \in S : x \in Nat /\ 1 <= x /\ x <= n
  OBVIOUS
<1>1. 0 \in P
  <2> DEFINE e == [i \in 1..0 |-> 0]
  <2>0. \A x \in S : ~(x <= 0)
    BY <1>0
  <2>1. Below(0) = {} /\ 1..0 = {}
    <3>1. Below(0) = {}
      BY <2>0
    <3>2. 1..0 = {}
      OBVIOUS
    <3> QED
      BY <3>1, <3>2
  <2>2. e \in [1..0 -> Nat] /\ Rising(e, 0) /\ {} = {e[i] : i \in 1..0}
    BY <2>1 DEF Rising
  <2>3. Listed({})
    <3> HIDE DEF e
    <3> QED BY <2>2
  <2> HIDE DEF Listed
  <2> QED
    BY <2>1, <2>3
<1>2. ASSUME NEW j \in 1..n, j - 1 \in P PROVE j \in P
  <2>1. PICK K \in Nat : \E e \in [1..K -> Nat] :
          Rising(e, K) /\ Below(j - 1) = {e[i] : i \in 1..K}
    BY <1>2
  <2>2. PICK e \in [1..K -> Nat] : Rising(e, K) /\ Below(j - 1) = {e[i] : i \in 1..K}
    BY <2>1
  <2>3. CASE j \notin S
    <3>1. \A x \in S : x <= j <=> x <= j - 1
      BY <1>0, <2>3
    <3>2. Below(j) = Below(j - 1)
      BY <3>1
    <3>3. Listed(Below(j))
      <4> HIDE DEF Below
      <4> QED BY <2>2, <3>2
    <3> HIDE DEF Listed
    <3> QED
      BY <3>3
  <2>4. CASE j \in S
    <3> DEFINE f == [i \in 1..(K + 1) |-> IF i = K + 1 THEN j ELSE e[i]]
    <3>1. Below(j) = Below(j - 1) \cup {j}
      <4>1. \A x \in S : x <= j <=> x <= j - 1 \/ x = j
        BY <1>0
      <4>2. j <= j
        OBVIOUS
      <4> QED
        BY <2>4, <4>1, <4>2
    <3>2. \A i \in 1..(K + 1) : i = K + 1 \/ i \in 1..K
      OBVIOUS
    <3>3. 1..K \subseteq 1..(K + 1) /\ K + 1 \in 1..(K + 1) /\ K + 1 \in Nat /\ ~(K + 1 \in 1..K)
      OBVIOUS
    <3>4. f[K + 1] = j /\ \A i \in 1..K : f[i] = e[i]
      BY <3>3
    <3>5. f \in [1..(K + 1) -> Nat]
      BY <3>2
    <3> HIDE DEF f
    <3>6. \A i \in 1..K : e[i] \in Nat /\ e[i] < j
      <4> TAKE i \in 1..K
      <4>1. e[i] \in Below(j - 1)
        BY <2>2
      <4> QED
        BY <4>1
    <3>7. Rising(f, K + 1)
      <4> SUFFICES ASSUME NEW a \in 1..(K + 1), NEW b \in 1..(K + 1), a < b PROVE f[a] < f[b]
        BY DEF Rising
      <4>1. a \in 1..K
        OBVIOUS
      <4>2. CASE b = K + 1
        BY <3>4, <3>6, <4>1, <4>2
      <4>3. CASE b \in 1..K
        BY <2>2, <3>4, <4>1, <4>3 DEF Rising
      <4> QED
        BY <3>2, <4>2, <4>3
    <3>8. {f[i] : i \in 1..(K + 1)} = {e[i] : i \in 1..K} \cup {j}
      BY <3>2, <3>3, <3>4
    <3>9. Below(j) = {f[i] : i \in 1..(K + 1)}
      <4> HIDE DEF Below
      <4> QED BY <2>2, <3>1, <3>8
    <3> HIDE DEF Below
    <3>10. Listed(Below(j))
      BY <3>3, <3>5, <3>7, <3>9
    <3> QED
      BY <3>10
  <2> QED
    BY <2>3, <2>4
<1> HIDE DEF P, Listed
<1>3. \A j \in 0..n : j \in P
  BY <1>1, <1>2, UpTo
<1>4. n \in 0..n /\ Below(n) = S
  <2>1. \A x \in S : x <= n
    BY <1>0
  <2>2. Below(n) = S
    BY <2>1
  <2> QED
    BY <2>2
<1>5. Listed(S)
  <2> HIDE DEF Below
  <2> QED BY <1>3, <1>4 DEF P
<1> QED
  BY <1>5 DEF Listed

-----------------------------------------------------------------------------
(* The strings and frames of a chunk.                                      *)

LEMMA CutsAre ==
  ASSUME NEW c \in Seq(LogToken)
  PROVE  Cuts(c) \in SUBSET (1..Len(c)) /\ Len(c) \in Nat
BY DEF Cuts

\* The strings of a chunk begin where it is cut.
LEMMA StringsAre ==
  ASSUME NEW c \in Seq(LogToken), NEW K \in Nat, NEW e \in [1..K -> Nat], Rising(e, K),
         Cuts(c) = {e[i] : i \in 1..K}
  PROVE  LET End(k) == IF k = K THEN Len(c) ELSE e[k + 1] - 1
         IN /\ Len(Strings(c)) = K /\ DOMAIN Strings(c) = 1..K
            /\ \A k \in 1..K :
                 /\ Strings(c)[k] = SubSeq(c, e[k], End(k))
                 /\ e[k] \in 1..Len(c) /\ End(k) \in 1..Len(c) /\ e[k] <= End(k)
<1> DEFINE S == Cuts(c)
           End(k) == IF k = K THEN Len(c) ELSE e[k + 1] - 1
<1>1. Cardinality(S) = K /\ \A k \in 1..K : Nth(S, k) = e[k]
  BY NthIs
<1>2. \A k \in 1..K : k # K => k + 1 \in 1..K
  OBVIOUS
<1>3. Strings(c) = [k \in 1..K |-> SubSeq(c, e[k], End(k))]
  <2>1. Strings(c) = [k \in 1..Cardinality(S) |-> SubSeq(c, Nth(S, k),
           IF k = Cardinality(S) THEN Len(c) ELSE Nth(S, k + 1) - 1)]
    BY DEF Strings
  <2>2. \A k \in 1..K : (IF k = K THEN Len(c) ELSE Nth(S, k + 1) - 1) = End(k)
    BY <1>1, <1>2
  <2> HIDE DEF S, End
  <2> QED
    BY <1>1, <2>1, <2>2
<1>4. ASSUME NEW k \in 1..K
      PROVE  e[k] \in 1..Len(c) /\ End(k) \in 1..Len(c) /\ e[k] <= End(k)
  <2>1. \A i \in 1..K : e[i] \in 1..Len(c)
    BY CutsAre
  <2>2. CASE k = K
    BY <2>1, <2>2
  <2>3. CASE k # K
    <3>1. k + 1 \in 1..K /\ k < k + 1
      BY <1>2, <2>3
    <3>2. e[k] < e[k + 1]
      BY <3>1 DEF Rising
    <3>3. e[k] \in 1..Len(c) /\ e[k + 1] \in 1..Len(c) /\ Len(c) \in Nat
      BY <2>1, <3>1
    <3> QED
      BY <2>3, <3>2, <3>3
  <2> QED
    BY <2>2, <2>3
<1>5. Len(Strings(c)) = K /\ DOMAIN Strings(c) = 1..K
  <2> HIDE DEF End
  <2> QED BY <1>3
<1> HIDE DEF S
<1> QED
  BY <1>3, <1>4, <1>5

Piece == Seq(LogToken) \ {<<>>}

LEMMA StringsArePieces ==
  ASSUME NEW c \in Seq(LogToken)
  PROVE  /\ Len(Strings(c)) \in Nat
         /\ \A k \in 1..Len(Strings(c)) : Strings(c)[k] \in Piece
<1>1. PICK K \in Nat : \E e \in [1..K -> Nat] :
        Rising(e, K) /\ Cuts(c) = {e[i] : i \in 1..K}
  <2>1. Cuts(c) \in SUBSET (1..Len(c)) /\ Len(c) \in Nat
    BY CutsAre
  <2> QED
    BY <2>1, Enumerated, Zenon
<1>2. PICK e \in [1..K -> Nat] : Rising(e, K) /\ Cuts(c) = {e[i] : i \in 1..K}
  BY <1>1
<1> DEFINE End(k) == IF k = K THEN Len(c) ELSE e[k + 1] - 1
<1>3. /\ Len(Strings(c)) = K
      /\ \A k \in 1..K :
           /\ Strings(c)[k] = SubSeq(c, e[k], End(k))
           /\ e[k] \in 1..Len(c) /\ End(k) \in 1..Len(c) /\ e[k] <= End(k)
  BY <1>2, StringsAre
<1> HIDE DEF End
<1>4. ASSUME NEW a \in 1..Len(c), NEW b \in 1..Len(c), a <= b
      PROVE  SubSeq(c, a, b) \in Piece
  <2>1. SubSeq(c, a, b) \in Seq(LogToken) /\ Len(SubSeq(c, a, b)) = b - a + 1
    BY <1>4, SubSeqProperties
  <2>2. Len(SubSeq(c, a, b)) # 0
    BY <1>4, <2>1
  <2>3. Len(<<>>) = 0
    OBVIOUS
  <2> QED
    BY <2>1, <2>2, <2>3 DEF Piece
<1> QED
  BY <1>3, <1>4

LEMMA FramesArePieces ==
  ASSUME NEW c \in Seq(LogToken)
  PROVE  SplitFrames(c) \in Seq(Piece)
<1> DEFINE t == Strings(c)
           h == (Len(t) + 1) \div 2
<1>1. Len(t) \in Nat /\ \A k \in 1..Len(t) : t[k] \in Piece
  BY StringsArePieces
<1>2. \A a, b \in Piece : a \o b \in Piece
  <2> TAKE a, b \in Piece
  <2>1. a \in Seq(LogToken) /\ b \in Seq(LogToken) /\ a # <<>>
    BY DEF Piece
  <2>2. a \o b \in Seq(LogToken) /\ Len(a \o b) = Len(a) + Len(b)
    BY <2>1, ConcatProperties
  <2>3. Len(a) \in Nat \ {0} /\ Len(b) \in Nat
    BY <2>1, EmptySeq
  <2>4. Len(a \o b) # 0
    BY <2>2, <2>3
  <2>5. Len(<<>>) = 0
    OBVIOUS
  <2> QED
    BY <2>2, <2>4, <2>5 DEF Piece
<1> HIDE DEF t
<1>3. h \in Nat /\ \A k \in 1..h : 2 * (k - 1) + 1 \in 1..Len(t) /\ 2 * (k - 1) \in Nat
  BY <1>1
<1>4. ASSUME NEW i \in Nat, i + 1 \in 1..Len(t) PROVE Pair(t, i) \in Piece
  <2>1. t[i + 1] \in Piece
    BY <1>1, <1>4
  <2>2. i + 1 < Len(t) => i + 2 \in 1..Len(t)
    BY <1>1
  <2>3. i + 1 < Len(t) => t[i + 1] \o t[i + 2] \in Piece
    BY <1>1, <1>2, <2>1, <2>2
  <2> QED
    BY <2>1, <2>3 DEF Pair
<1>5. SplitFrames(c) = [k \in 1..h |-> Pair(t, 2 * (k - 1))]
  BY DEF SplitFrames, t
<1> HIDE DEF h
<1>6. \A k \in 1..h : Pair(t, 2 * (k - 1)) \in Piece
  BY <1>3, <1>4
<1> QED
  BY <1>3, <1>5, <1>6

\* What exec sends: numbered one after the other.
LEMMA MessagesAre ==
  ASSUME logIndex \in Nat, NEW f \in Seq(Piece)
  PROVE  /\ DOMAIN Messages(f) = 1..Len(f) /\ Len(Messages(f)) = Len(f)
         /\ \A k \in 1..Len(f) :
              /\ Messages(f)[k].index = logIndex + k - 1
              /\ Messages(f)[k].streamType = GetStreamType(Head(f[k]))
              /\ Messages(f)[k].streamType \in StreamType
              /\ Messages(f)[k].text = HideSecretsFromLog(Tail(f[k]))
<1> DEFINE M(k) == [index |-> Number(k), streamType |-> GetStreamType(Head(f[k])),
                    text |-> HideSecretsFromLog(Tail(f[k]))]
<1>1. DOMAIN f = 1..Len(f) /\ Len(f) \in Nat
  OBVIOUS
<1>2. Messages(f) = [k \in 1..Len(f) |-> M(k)]
  BY <1>1 DEF Messages
<1>3. DOMAIN Messages(f) = 1..Len(f) /\ Len(Messages(f)) = Len(f)
  <2> HIDE DEF M
  <2> QED BY <1>1, <1>2
<1>4. \A t \in LogToken : GetStreamType(t) \in StreamType
  <2> TAKE t \in LogToken
  <2>1. CASE \E s \in Stream : t = Header(s)
    BY <2>1, LogTokenShape DEF GetStreamType, StreamType
  <2>2. CASE \E i, m \in Nat : t = Part(i, m)
    BY <2>2, LogTokenShape DEF GetStreamType, StreamType
  <2>3. CASE t = Hidden
    BY <2>3, LogTokenShape DEF GetStreamType, StreamType
  <2> QED
    BY <2>1, <2>2, <2>3 DEF LogToken
<1>5. ASSUME NEW k \in 1..Len(f) PROVE GetStreamType(Head(f[k])) \in StreamType
  <2>1. f[k] \in Piece
    OBVIOUS
  <2>2. f[k] \in Seq(LogToken) /\ f[k] # <<>>
    BY <2>1 DEF Piece
  <2>3. Head(f[k]) \in LogToken
    BY <2>2, HeadTailProperties
  <2> QED
    BY <1>4, <2>3
<1>6. ASSUME NEW k \in 1..Len(f)
      PROVE  /\ Messages(f)[k].index = logIndex + k - 1
             /\ Messages(f)[k].streamType = GetStreamType(Head(f[k]))
             /\ Messages(f)[k].text = HideSecretsFromLog(Tail(f[k]))
  <2>1. Messages(f)[k] = M(k)
    <3> HIDE DEF M
    <3> QED BY <1>2
  <2> QED
    BY <2>1 DEF Number
<1> QED
  BY <1>3, <1>5, <1>6

\* A chunk of whole frames: those after the first k, h of them.
Whole(c, k, h) ==
  /\ c \in Seq(LogToken)
  /\ k \in Nat /\ h \in Nat /\ k + h <= Len(output)
  /\ Len(c) = Ends[k + h] - Ends[k]
  /\ \A i \in 1..Len(c) : c[i] = Tokens[Ends[k] + i]

\* Where the frames of such a chunk begin, and where it is cut.
Offset(k, m) == Ends[k + m] - Ends[k]

CutAt(k, i) ==
  Offset(k, (i - 1) \div 2) + (IF 2 * ((i - 1) \div 2) = i - 1 THEN 1 ELSE 2)

LEMMA Offsets ==
  ASSUME output \in Seq(Frames), NEW k \in Nat, NEW h \in Nat, k + h <= Len(output)
  PROVE  /\ \A m \in 0..h : Offset(k, m) \in Nat /\ Ends[k + m] = Ends[k] + Offset(k, m)
         /\ Offset(k, 0) = 0
         /\ \A m \in 1..h :
              /\ k + m \in 1..Len(output)
              /\ Offset(k, m) = (Offset(k, m - 1) + 1) + output[k + m].parts
              /\ output[k + m].parts \in Nat \ {0}
         /\ \A m, n \in 0..h : m < n => Offset(k, m) + 2 <= Offset(k, n)
<1>1. /\ Len(output) \in Nat /\ k \in 0..Len(output)
      /\ \A m \in 0..h : k + m \in 0..Len(output)
  BY FrameOf
<1>2. Ends[k] \in Nat /\ \A m \in 0..h : Ends[k + m] \in Nat
  BY <1>1, EndsAre
<1>3. \A m \in 0..h : Ends[k] <= Ends[k + m]
  <2> TAKE m \in 0..h
  <2>1. CASE m = 0
    BY <1>2, <2>1
  <2>2. CASE m # 0
    <3>1. k < k + m /\ k + m \in 0..Len(output)
      BY <1>1, <2>2
    <3>2. Ends[k] + 2 <= Ends[k + m]
      BY <1>1, <3>1, EndsGrow
    <3> QED
      BY <1>2, <3>2
  <2> QED
    BY <2>1, <2>2
<1>4. \A m \in 0..h : Offset(k, m) \in Nat /\ Ends[k + m] = Ends[k] + Offset(k, m)
  <2> TAKE m \in 0..h
  <2>1. Ends[k + m] \in Nat /\ Ends[k] <= Ends[k + m]
    BY <1>2, <1>3
  <2> QED
    BY <1>2, <2>1 DEF Offset
<1>5. Offset(k, 0) = 0
  BY <1>2 DEF Offset
<1>6. ASSUME NEW m \in 1..h
      PROVE  /\ k + m \in 1..Len(output)
             /\ Offset(k, m) = (Offset(k, m - 1) + 1) + output[k + m].parts
             /\ output[k + m].parts \in Nat \ {0}
  <2>1. k + m \in 1..Len(output) /\ (k + m) - 1 = k + (m - 1) /\ m \in 0..h /\ m - 1 \in 0..h
    BY <1>1
  <2>2. /\ Ends[k + m] = (Ends[k + (m - 1)] + 1) + output[k + m].parts
        /\ output[k + m].parts \in Nat \ {0}
    BY <2>1, EndsAre
  <2>3. Ends[k + (m - 1)] = Ends[k] + Offset(k, m - 1) /\ Offset(k, m - 1) \in Nat
    BY <1>4, <2>1
  <2>4. Ends[k + m] = Ends[k] + Offset(k, m) /\ Offset(k, m) \in Nat
    BY <1>4, <2>1
  <2> DEFINE a == Offset(k, m)
             b == Offset(k, m - 1)
             p == output[k + m].parts
  <2>5. a = (b + 1) + p
    <3>1. Ends[k] + a = ((Ends[k] + b) + 1) + p
      BY <2>2, <2>3, <2>4
    <3>2. a \in Nat /\ b \in Nat /\ p \in Nat
      BY <2>2, <2>3, <2>4
    <3> HIDE DEF a, b, p
    <3> QED
      BY <1>2, <3>1, <3>2
  <2> QED
    BY <2>1, <2>2, <2>5
<1>7. ASSUME NEW m \in 0..h, NEW n \in 0..h, m < n PROVE Offset(k, m) + 2 <= Offset(k, n)
  <2>1. k + m \in 0..Len(output) /\ k + n \in 0..Len(output) /\ k + m < k + n
    BY <1>1, <1>7
  <2>2. Ends[k + m] + 2 <= Ends[k + n]
    BY <2>1, EndsGrow
  <2>3. Ends[k + m] \in Nat /\ Ends[k + n] \in Nat
    BY <1>2
  <2> QED
    BY <1>2, <2>2, <2>3 DEF Offset
<1> QED
  BY <1>4, <1>5, <1>6, <1>7

\* The cuts come in pairs, before a header and after it.
LEMMA CutsInPairs ==
  ASSUME output \in Seq(Frames), NEW k \in Nat, NEW h \in Nat, k + h <= Len(output)
  PROVE  /\ \A m \in 1..h : /\ CutAt(k, 2 * m - 1) = Offset(k, m - 1) + 1
                            /\ CutAt(k, 2 * m) = Offset(k, m - 1) + 2
         /\ \A i \in 1..(2 * h) : \E m \in 1..h : i = 2 * m - 1 \/ i = 2 * m
         /\ \A i \in 1..(2 * h) : CutAt(k, i) \in Nat
         /\ \A i, j \in 1..(2 * h) : i < j => CutAt(k, i) < CutAt(k, j)
<1>1. ASSUME NEW m \in 1..h
      PROVE  CutAt(k, 2 * m - 1) = Offset(k, m - 1) + 1 /\ CutAt(k, 2 * m) = Offset(k, m - 1) + 2
  <2>1. /\ ((2 * m - 1) - 1) \div 2 = m - 1 /\ 2 * (m - 1) = (2 * m - 1) - 1
        /\ (2 * m - 1) \div 2 = m - 1 /\ 2 * (m - 1) # 2 * m - 1
    OBVIOUS
  <2> QED
    BY <2>1 DEF CutAt
<1>2. ASSUME NEW i \in 1..(2 * h) PROVE \E m \in 1..h : i = 2 * m - 1 \/ i = 2 * m
  <2> DEFINE m == (i + 1) \div 2
  <2>1. m \in 1..h /\ (i = 2 * m - 1 \/ i = 2 * m)
    OBVIOUS
  <2> QED
    BY <2>1
<1>3. /\ \A m \in 1..h : m - 1 \in 0..h /\ Offset(k, m - 1) \in Nat
      /\ \A m, n \in 1..h : m < n => Offset(k, m - 1) + 2 <= Offset(k, n - 1)
  <2>1. \A m \in 1..h : m - 1 \in 0..h
    OBVIOUS
  <2>2. \A m, n \in 1..h : m < n => m - 1 < n - 1
    OBVIOUS
  <2> QED
    BY <2>1, <2>2, Offsets
<1>4. \A i \in 1..(2 * h) : CutAt(k, i) \in Nat
  <2> TAKE i \in 1..(2 * h)
  <2>1. PICK m \in 1..h : i = 2 * m - 1 \/ i = 2 * m
    BY <1>2
  <2>2. Offset(k, m - 1) \in Nat
    BY <1>3
  <2>3. Offset(k, m - 1) + 1 \in Nat /\ Offset(k, m - 1) + 2 \in Nat
    BY <2>2
  <2> QED
    BY <1>1, <2>1, <2>3
<1>5. ASSUME NEW i \in 1..(2 * h), NEW j \in 1..(2 * h), i < j PROVE CutAt(k, i) < CutAt(k, j)
  <2>1. PICK m \in 1..h : i = 2 * m - 1 \/ i = 2 * m
    BY <1>2
  <2>2. PICK n \in 1..h : j = 2 * n - 1 \/ j = 2 * n
    BY <1>2
  <2> DEFINE a == Offset(k, m - 1)
             b == Offset(k, n - 1)
  <2>3. /\ a \in Nat /\ b \in Nat
        /\ CutAt(k, 2 * m - 1) = a + 1 /\ CutAt(k, 2 * m) = a + 2
        /\ CutAt(k, 2 * n - 1) = b + 1 /\ CutAt(k, 2 * n) = b + 2
    BY <1>1, <1>3
  <2>4. m < n => a + 2 <= b
    BY <1>3
  <2>5. m = n => a = b
    OBVIOUS
  <2> HIDE DEF a, b
  <2>6. CASE m < n
    <3>1. CutAt(k, i) <= a + 2 /\ CutAt(k, i) \in Nat
      BY <2>1, <2>3
    <3>2. b + 1 <= CutAt(k, j) /\ CutAt(k, j) \in Nat
      BY <2>2, <2>3
    <3> QED
      BY <2>3, <2>4, <2>6, <3>1, <3>2
  <2>7. CASE m = n
    <3>1. i = 2 * m - 1 /\ j = 2 * n
      BY <1>5, <2>1, <2>2, <2>7
    <3> QED
      BY <2>3, <2>5, <2>7, <3>1
  <2>8. CASE n < m
    <3>1. j < i
      BY <2>1, <2>2, <2>8
    <3> QED
      BY <1>5, <3>1
  <2> QED
    BY <2>6, <2>7, <2>8
<1> QED
  BY <1>1, <1>2, <1>4, <1>5

\* Its headers begin its frames.
LEMMA WholeHeaders ==
  ASSUME output \in Seq(Frames), NEW k, NEW h \in Nat \ {0}, NEW c, Whole(c, k, h),
         NEW x \in 1..Len(c)
  PROVE  IsHeader(c[x]) <=> \E m \in 1..h : x = Offset(k, m - 1) + 1
<1>1. /\ k \in Nat /\ k + h <= Len(output) /\ c \in Seq(LogToken)
      /\ Len(c) = Offset(k, h) /\ Len(c) \in Nat /\ DOMAIN c = 1..Len(c)
  BY DEF Whole, Offset
<1>2. /\ \A m \in 0..h : Offset(k, m) \in Nat /\ Ends[k + m] = Ends[k] + Offset(k, m)
      /\ Offset(k, 0) = 0
      /\ \A m \in 1..h : /\ k + m \in 1..Len(output)
                         /\ Offset(k, m) = (Offset(k, m - 1) + 1) + output[k + m].parts
                         /\ output[k + m].parts \in Nat \ {0}
      /\ \A m, n \in 0..h : m < n => Offset(k, m) + 2 <= Offset(k, n)
  BY <1>1, Offsets
<1>3. ASSUME NEW m \in 1..h
      PROVE  /\ m - 1 \in 0..h /\ Offset(k, m - 1) \in Nat
             /\ Offset(k, m - 1) + 1 \in 1..Len(c) /\ Offset(k, m - 1) + 2 \in 1..Len(c)
  <2>1. m - 1 \in 0..h /\ h \in 0..h /\ m - 1 < h
    OBVIOUS
  <2>2. Offset(k, m - 1) \in Nat /\ Offset(k, m - 1) + 2 <= Offset(k, h)
    BY <1>2, <2>1
  <2> QED
    BY <1>1, <2>1, <2>2
<1>4. Ends[k] \in Nat /\ Len(Tokens) = Ends[Len(output)] /\ Len(Tokens) \in Nat
  <2>1. Len(output) \in Nat /\ k \in 0..Len(output) /\ Len(output) \in 0..Len(output)
    BY <1>1, FrameOf
  <2> QED
    BY <2>1, TokensAre, EndsAre
<1>5. Ends[k + h] <= Ends[Len(output)]
  <2>1. Len(output) \in Nat /\ k + h \in 0..Len(output) /\ Len(output) \in 0..Len(output)
    BY <1>1, FrameOf
  <2>2. Ends[k + h] \in Nat /\ Ends[Len(output)] \in Nat
    BY <2>1, EndsAre
  <2>3. k + h < Len(output) => Ends[k + h] + 2 <= Ends[Len(output)]
    BY <2>1, EndsGrow
  <2>4. CASE k + h = Len(output)
    BY <2>2, <2>4
  <2>5. CASE k + h < Len(output)
    BY <2>2, <2>3, <2>5
  <2> QED
    BY <2>1, <2>4, <2>5
<1>6. h \in 0..h /\ Ends[k + h] = Ends[k] + Len(c)
  BY <1>1, <1>2
<1>7. Ends[k] + x \in 1..Len(Tokens) /\ c[x] = Tokens[Ends[k] + x]
  BY <1>1, <1>4, <1>5, <1>6 DEF Whole
<1>8. IsHeader(c[x]) <=> \E j \in 1..Len(output) : Ends[k] + x = Ends[j - 1] + 1
  BY <1>7, HeadersAre
<1>9. ASSUME NEW j \in 1..Len(output), Ends[k] + x = Ends[j - 1] + 1
      PROVE  \E m \in 1..h : x = Offset(k, m - 1) + 1
  <2>1. Len(output) \in Nat /\ j - 1 \in 0..Len(output) /\ j \in Nat
    BY FrameOf
  <2>2. Ends[j - 1] \in Nat
    BY <2>1, EndsAre
  <2>3. ~(j - 1 < k)
    <3> SUFFICES ASSUME j - 1 < k PROVE FALSE
      OBVIOUS
    <3>1. k \in 0..Len(output)
      BY <1>1, <2>1
    <3>2. Ends[j - 1] + 2 <= Ends[k]
      BY <2>1, <3>1, EndsGrow
    <3> QED
      BY <1>4, <1>9, <2>2, <3>2
  <2>4. ~(k + h <= j - 1)
    <3> SUFFICES ASSUME k + h <= j - 1 PROVE FALSE
      OBVIOUS
    <3>1. k + h \in 0..Len(output) /\ (k + h = j - 1 \/ k + h < j - 1)
      BY <1>1, <2>1
    <3>2. k + h < j - 1 => Ends[k + h] + 2 <= Ends[j - 1]
      BY <2>1, <3>1, EndsGrow
    <3>3. Ends[k + h] <= Ends[j - 1]
      <4>1. Ends[k + h] \in Nat
        BY <1>1, <1>4, <1>6
      <4>2. CASE k + h = j - 1
        BY <2>2, <4>2
      <4>3. CASE k + h < j - 1
        BY <2>2, <3>2, <4>1, <4>3
      <4> QED
        BY <3>1, <4>2, <4>3
    <3> QED
      BY <1>1, <1>4, <1>6, <1>9, <2>2, <3>3
  <2> DEFINE m == j - k
  <2>5. m \in 1..h /\ k + (m - 1) = j - 1 /\ m - 1 \in 0..h
    BY <1>1, <2>1, <2>3, <2>4
  <2>6. Ends[j - 1] = Ends[k] + Offset(k, m - 1) /\ Offset(k, m - 1) \in Nat
    BY <1>2, <2>5
  <2> HIDE DEF m
  <2>7. x = Offset(k, m - 1) + 1
    BY <1>1, <1>4, <1>9, <2>6
  <2> QED
    BY <2>5, <2>7
<1>10. ASSUME NEW m \in 1..h, x = Offset(k, m - 1) + 1
      PROVE  \E j \in 1..Len(output) : Ends[k] + x = Ends[j - 1] + 1
  <2>1. k + m \in 1..Len(output) /\ (k + m) - 1 = k + (m - 1)
    BY <1>1, <1>2
  <2>2. Ends[k + (m - 1)] = Ends[k] + Offset(k, m - 1) /\ Offset(k, m - 1) \in Nat
    BY <1>2, <1>3
  <2>3. Ends[k] + x = Ends[(k + m) - 1] + 1
    BY <1>4, <1>10, <2>1, <2>2
  <2> QED
    BY <2>1, <2>3
<1> QED
  BY <1>8, <1>9, <1>10

LEMMA WholeCuts ==
  ASSUME output \in Seq(Frames), NEW k, NEW h \in Nat \ {0}, NEW c, Whole(c, k, h)
  PROVE  Cuts(c) = {CutAt(k, i) : i \in 1..(2 * h)}
<1>1. /\ k \in Nat /\ k + h <= Len(output) /\ c \in Seq(LogToken)
      /\ Len(c) = Offset(k, h) /\ Len(c) \in Nat /\ DOMAIN c = 1..Len(c)
  BY DEF Whole, Offset
<1>2. /\ \A m \in 0..h : Offset(k, m) \in Nat /\ Ends[k + m] = Ends[k] + Offset(k, m)
      /\ Offset(k, 0) = 0
      /\ \A m \in 1..h : /\ k + m \in 1..Len(output)
                         /\ Offset(k, m) = (Offset(k, m - 1) + 1) + output[k + m].parts
                         /\ output[k + m].parts \in Nat \ {0}
      /\ \A m, n \in 0..h : m < n => Offset(k, m) + 2 <= Offset(k, n)
  BY <1>1, Offsets
<1>3. ASSUME NEW m \in 1..h
      PROVE  /\ m - 1 \in 0..h /\ Offset(k, m - 1) \in Nat
             /\ Offset(k, m - 1) + 1 \in 1..Len(c) /\ Offset(k, m - 1) + 2 \in 1..Len(c)
  <2>1. m - 1 \in 0..h /\ h \in 0..h /\ m - 1 < h
    OBVIOUS
  <2>2. Offset(k, m - 1) \in Nat /\ Offset(k, m - 1) + 2 <= Offset(k, h)
    BY <1>2, <2>1
  <2> QED
    BY <1>1, <2>1, <2>2
<1>4. \A x \in 1..Len(c) : IsHeader(c[x]) <=> \E m \in 1..h : x = Offset(k, m - 1) + 1
  <2> TAKE x \in 1..Len(c)
  <2> QED
    BY WholeHeaders
<1>5. ASSUME NEW x \in 1..Len(c)
      PROVE  x \in Cuts(c) <=> \E m \in 1..h : x = Offset(k, m - 1) + 1 \/ x = Offset(k, m - 1) + 2
  <2>1. CASE x = 1
    <3>1. 1 \in 1..h /\ 1 - 1 = 0 /\ x = Offset(k, 1 - 1) + 1
      BY <1>2, <2>1
    <3>2. x \in Cuts(c)
      BY <1>1, <2>1 DEF Cuts
    <3> QED
      BY <3>1, <3>2
  <2>2. CASE x # 1
    <3>1. x - 1 \in 1..Len(c) /\ x \in Nat
      BY <1>1, <2>2
    <3>2. x \in Cuts(c) <=> IsHeader(c[x]) \/ IsHeader(c[x - 1])
      BY <1>1, <2>2 DEF Cuts
    <3>3. IsHeader(c[x - 1]) <=> \E m \in 1..h : x - 1 = Offset(k, m - 1) + 1
      BY <1>4, <3>1
    <3>4. \A m \in 1..h : x - 1 = Offset(k, m - 1) + 1 <=> x = Offset(k, m - 1) + 2
      BY <1>3, <3>1
    <3> QED
      BY <1>4, <3>2, <3>3, <3>4
  <2> QED
    BY <2>1, <2>2
<1>6. \A x : x \in {CutAt(k, i) : i \in 1..(2 * h)} <=>
               \E m \in 1..h : x = Offset(k, m - 1) + 1 \/ x = Offset(k, m - 1) + 2
  <2>1. /\ \A m \in 1..h : /\ CutAt(k, 2 * m - 1) = Offset(k, m - 1) + 1
                           /\ CutAt(k, 2 * m) = Offset(k, m - 1) + 2
        /\ \A i \in 1..(2 * h) : \E m \in 1..h : i = 2 * m - 1 \/ i = 2 * m
    BY <1>1, CutsInPairs
  <2>2. \A m \in 1..h : 2 * m - 1 \in 1..(2 * h) /\ 2 * m \in 1..(2 * h)
    OBVIOUS
  <2> QED
    BY <2>1, <2>2
<1>7. \A x : x \in Cuts(c) => x \in 1..Len(c)
  BY <1>1 DEF Cuts
<1> QED
  <2>1. \A x : x \in Cuts(c) <=> x \in {CutAt(k, i) : i \in 1..(2 * h)}
    BY <1>3, <1>5, <1>6, <1>7
  <2> QED
    BY <2>1

LEMMA OneElement ==
  ASSUME NEW S, NEW s \in Seq(S), Len(s) = 1
  PROVE  s = <<s[1]>>
<1>1. s = [i \in 1..1 |-> s[i]]
  OBVIOUS
<1>2. \A i \in 1..1 : i = 1
  OBVIOUS
<1>3. /\ <<s[1]>> = [i \in 1..1 |-> s[1]]
  OBVIOUS
<1> QED
  BY <1>1, <1>2, <1>3

Frame(j) == <<Header(output[j].stream)>> \o Payload(j)

\* Its strings are the headers and the payloads, in turn.
LEMMA WholeStrings ==
  ASSUME output \in Seq(Frames), NEW k, NEW h \in Nat \ {0}, NEW c, Whole(c, k, h)
  PROVE  /\ Len(Strings(c)) = 2 * h
         /\ \A m \in 1..h : /\ Strings(c)[2 * m - 1] = <<Header(output[k + m].stream)>>
                            /\ Strings(c)[2 * m] = Payload(k + m)
<1> DEFINE e == [i \in 1..(2 * h) |-> CutAt(k, i)]
           K == 2 * h
           t == Strings(c)
           End(i) == IF i = K THEN Len(c) ELSE e[i + 1] - 1
<1>1. /\ k \in Nat /\ k + h <= Len(output) /\ c \in Seq(LogToken)
      /\ Len(c) = Offset(k, h) /\ Len(c) \in Nat
      /\ \A i \in 1..Len(c) : c[i] = Tokens[Ends[k] + i]
  BY DEF Whole, Offset
<1>0. /\ \A m \in 0..h : Offset(k, m) \in Nat /\ Ends[k + m] = Ends[k] + Offset(k, m)
      /\ \A m \in 1..h : /\ k + m \in 1..Len(output)
                         /\ Offset(k, m) = (Offset(k, m - 1) + 1) + output[k + m].parts
                         /\ output[k + m].parts \in Nat \ {0}
  BY <1>1, Offsets
<1>2. /\ \A m \in 1..h : /\ CutAt(k, 2 * m - 1) = Offset(k, m - 1) + 1
                         /\ CutAt(k, 2 * m) = Offset(k, m - 1) + 2
      /\ \A i \in 1..K : CutAt(k, i) \in Nat
      /\ \A i, j \in 1..K : i < j => CutAt(k, i) < CutAt(k, j)
  BY <1>1, CutsInPairs
<1>3. K \in Nat /\ e \in [1..K -> Nat] /\ Rising(e, K) /\ \A i \in 1..K : e[i] = CutAt(k, i)
  BY <1>2 DEF Rising
<1>4. Cuts(c) = {e[i] : i \in 1..K}
  <2>1. Cuts(c) = {CutAt(k, i) : i \in 1..K}
    BY WholeCuts
  <2> QED
    BY <1>3, <2>1
<1> HIDE DEF e, K
<1>5. /\ Len(t) = K
      /\ \A i \in 1..K : /\ t[i] = SubSeq(c, e[i], End(i))
                         /\ e[i] \in 1..Len(c) /\ End(i) \in 1..Len(c) /\ e[i] <= End(i)
  BY <1>1, <1>3, <1>4, StringsAre
<1>6. ASSUME NEW m \in 1..h
      PROVE  /\ 2 * m - 1 \in 1..K /\ 2 * m \in 1..K
             /\ e[2 * m - 1] = Offset(k, m - 1) + 1 /\ End(2 * m - 1) = Offset(k, m - 1) + 1
             /\ e[2 * m] = Offset(k, m - 1) + 2 /\ End(2 * m) = Offset(k, m)
  <2>1. /\ 2 * m - 1 \in 1..K /\ 2 * m \in 1..K /\ 2 * m - 1 # K
        /\ (2 * m - 1) + 1 = 2 * m
    BY DEF K
  <2>2. e[2 * m - 1] = Offset(k, m - 1) + 1 /\ e[2 * m] = Offset(k, m - 1) + 2
    BY <1>2, <1>3, <2>1
  <2>3. m - 1 \in 0..h /\ m \in 0..h /\ Offset(k, m - 1) \in Nat /\ Offset(k, m) \in Nat
    <3>1. m - 1 \in 0..h /\ m \in 0..h
      OBVIOUS
    <3> QED
      BY <1>0, <3>1
  <2>4. End(2 * m - 1) = Offset(k, m - 1) + 1
    BY <2>1, <2>2, <2>3
  <2>5. End(2 * m) = Offset(k, m)
    <3>1. CASE m = h
      <4>1. 2 * m = K
        BY <3>1 DEF K
      <4> QED
        BY <1>1, <3>1, <4>1
    <3>2. CASE m # h
      <4>1. 2 * m # K /\ m + 1 \in 1..h /\ 2 * (m + 1) - 1 = 2 * m + 1 /\ (m + 1) - 1 = m
        BY <3>2 DEF K
      <4>2. 2 * m + 1 \in 1..K
        BY <4>1 DEF K
      <4>3. e[2 * m + 1] = Offset(k, m) + 1
        BY <1>2, <1>3, <4>1, <4>2
      <4> QED
        BY <2>3, <4>1, <4>3
    <3> QED
      BY <3>1, <3>2
  <2> QED
    BY <2>1, <2>2, <2>4, <2>5
<1> HIDE DEF End, t
<1>7. ASSUME NEW a \in 1..Len(c), NEW b \in 1..Len(c), a <= b
      PROVE  /\ SubSeq(c, a, b) \in Seq(LogToken) /\ Len(SubSeq(c, a, b)) = b - a + 1
             /\ \A i \in 1..(b - a + 1) : SubSeq(c, a, b)[i] = c[a + i - 1]
  BY <1>1, <1>7, SubSeqProperties
<1>8. ASSUME NEW m \in 1..h
      PROVE  t[2 * m - 1] = <<Header(output[k + m].stream)>> /\ t[2 * m] = Payload(k + m)
  <2> DEFINE o == Offset(k, m - 1)
             j == k + m
             p == output[j].parts
             v == t[2 * m - 1]
             w == t[2 * m]
  <2>1. /\ o \in Nat /\ j \in 1..Len(output) /\ j - 1 = k + (m - 1)
        /\ Offset(k, m) = (o + 1) + p /\ p \in Nat \ {0}
        /\ Ends[j - 1] = Ends[k] + o
    <3>1. m - 1 \in 0..h /\ (k + m) - 1 = k + (m - 1)
      BY <1>1
    <3> QED
      BY <1>0, <3>1
  <2>2. Ends[k] \in Nat
    <3>1. k \in 0..Len(output)
      BY <1>1, FrameOf
    <3> QED
      BY <3>1, EndsAre
  <2>3. /\ v = SubSeq(c, o + 1, o + 1) /\ w = SubSeq(c, o + 2, (o + 1) + p)
        /\ o + 1 \in 1..Len(c) /\ o + 2 \in 1..Len(c) /\ (o + 1) + p \in 1..Len(c)
        /\ o + 2 <= (o + 1) + p
    BY <1>5, <1>6, <2>1
  <2>4. Shows(Tokens, j)
    BY <2>1, TokensAre
  <2> HIDE DEF o, j, p, v, w
  <2>5. c[o + 1] = Header(output[j].stream)
    <3>1. Ends[k] + (o + 1) = Ends[j - 1] + 1
      BY <2>1, <2>2
    <3> QED
      BY <1>1, <2>3, <2>4, <3>1 DEF Shows
  <2>6. ASSUME NEW i \in 1..p PROVE c[(o + 1) + i] = Part(j, i)
    <3>1. Ends[k] + ((o + 1) + i) = (Ends[j - 1] + 1) + i /\ (o + 1) + i \in 1..Len(c)
      <4>1. o \in Nat /\ p \in Nat /\ i \in 1..p /\ (o + 1) + p \in 1..Len(c) /\ Len(c) \in Nat
        BY <1>1, <2>1, <2>3
      <4>2. (o + 1) + i \in 1..Len(c)
        BY <4>1
      <4>3. Ends[k] + ((o + 1) + i) = ((Ends[k] + o) + 1) + i
        BY <2>2, <4>1
      <4> QED
        BY <2>1, <4>2, <4>3
    <3> QED
      BY <1>1, <2>4, <3>1 DEF Shows, p
  <2>7. v = <<Header(output[j].stream)>>
    <3>1. /\ v \in Seq(LogToken) /\ Len(v) = (o + 1) - (o + 1) + 1
          /\ \A i \in 1..((o + 1) - (o + 1) + 1) : v[i] = c[(o + 1) + i - 1]
      BY <1>7, <2>1, <2>3
    <3>2. (o + 1) - (o + 1) + 1 = 1 /\ (o + 1) + 1 - 1 = o + 1 /\ 1 \in 1..1
      BY <2>1
    <3>3. Len(v) = 1 /\ v[1] = Header(output[j].stream)
      BY <2>5, <3>1, <3>2
    <3> QED
      BY <3>1, <3>3, OneElement
  <2>8. w = Payload(j)
    <3>1. /\ w \in Seq(LogToken) /\ Len(w) = ((o + 1) + p) - (o + 2) + 1
          /\ \A i \in 1..(((o + 1) + p) - (o + 2) + 1) : w[i] = c[(o + 2) + i - 1]
      BY <1>7, <2>1, <2>3
    <3>2. ((o + 1) + p) - (o + 2) + 1 = p /\ \A i \in 1..p : (o + 2) + i - 1 = (o + 1) + i
      BY <2>1
    <3>3. Len(w) = p /\ \A i \in 1..p : w[i] = Part(j, i)
      BY <2>6, <3>1, <3>2
    <3>4. w = [i \in 1..p |-> Part(j, i)]
      BY <3>1, <3>3
    <3> QED
      BY <3>4 DEF Payload, p
  <2> QED
    BY <2>7, <2>8 DEF v, w, j
<1> QED
  BY <1>5, <1>8 DEF t, K

\* Up to eight frames are found one by one.
LEMMA WholeFrames ==
  ASSUME output \in Seq(Frames), NEW k, NEW h \in 1..8, NEW c, Whole(c, k, h)
  PROVE  /\ Len(SplitFrames(c)) = h
         /\ \A m \in 1..h : SplitFrames(c)[m] = Frame(k + m)
<1> DEFINE t == Strings(c)
<1>1. /\ Len(t) = 2 * h
      /\ \A m \in 1..h : /\ t[2 * m - 1] = <<Header(output[k + m].stream)>>
                         /\ t[2 * m] = Payload(k + m)
  <2>1. h \in Nat \ {0}
    OBVIOUS
  <2> QED
    BY <2>1, WholeStrings
<1> HIDE DEF t
<1>2. SplitFrames(c) = [m \in 1..h |-> Pair(t, 2 * (m - 1))]
  <2>1. (2 * h + 1) \div 2 = h
    OBVIOUS
  <2> QED
    BY <1>1, <2>1 DEF SplitFrames, t
<1>3. ASSUME NEW m \in 1..h PROVE Pair(t, 2 * (m - 1)) = Frame(k + m)
  <2>1. 2 * (m - 1) + 1 = 2 * m - 1 /\ 2 * (m - 1) + 2 = 2 * m
    OBVIOUS
  <2>2. Digits(t[2 * m - 1]) = 16
    <3>1. \A x : Len(<<x>>) = 1
      OBVIOUS
    <3>2. t[2 * m - 1] = <<Header(output[k + m].stream)>>
      BY <1>1
    <3> QED
      BY <3>1, <3>2 DEF Digits
  <2>3. 2 * m - 1 < 16 /\ 2 * m - 1 < 2 * h
    OBVIOUS
  <2>4. Pair(t, 2 * (m - 1)) = t[2 * m - 1] \o t[2 * m]
    BY <1>1, <2>1, <2>2, <2>3 DEF Pair
  <2> QED
    BY <1>1, <2>4 DEF Frame
<1>4. h \in Nat /\ Len([m \in 1..h |-> Pair(t, 2 * (m - 1))]) = h
  OBVIOUS
<1> QED
  BY <1>2, <1>3, <1>4

\* What exec makes of a frame.
LEMMA FrameParts ==
  ASSUME output \in Seq(Frames), NEW j \in 1..Len(output)
  PROVE  /\ GetStreamType(Head(Frame(j))) = output[j].stream
         /\ Tail(Frame(j)) = Payload(j)
<1> DEFINE p == output[j].parts
           f == Frame(j)
<1>1. /\ f \in Seq(LogToken) /\ Len(f) = 1 + p /\ p \in Nat \ {0}
      /\ f[1] = Header(output[j].stream) /\ \A m \in 1..p : f[1 + m] = Part(j, m)
      /\ output[j].stream \in Stream
  BY FrameTokens, FrameOf DEF Frame
<1> HIDE DEF f
<1>2. Head(f) = Header(output[j].stream)
  BY <1>1
<1>3. GetStreamType(Head(f)) = output[j].stream
  BY <1>1, <1>2, LogTokenShape DEF GetStreamType
<1>4. Tail(f) = Payload(j)
  <2>1. f # <<>>
    BY <1>1
  <2>2. /\ Tail(f) \in Seq(LogToken) /\ Len(Tail(f)) = Len(f) - 1
        /\ \A i \in 1..Len(Tail(f)) : Tail(f)[i] = f[i + 1]
    BY <1>1, <2>1, HeadTailProperties
  <2>3. Len(Tail(f)) = p /\ \A i \in 1..p : Tail(f)[i] = Part(j, i)
    <3>1. (1 + p) - 1 = p /\ \A i \in 1..p : i + 1 = 1 + i
      BY <1>1
    <3> QED
      BY <1>1, <2>2, <3>1
  <2>4. Tail(f) = [i \in 1..p |-> Part(j, i)]
    <3> DEFINE w == Tail(f)
    <3>1. w \in Seq(LogToken) /\ Len(w) = p /\ \A i \in 1..p : w[i] = Part(j, i)
      BY <2>2, <2>3
    <3> HIDE DEF p, w
    <3>2. w = [i \in 1..p |-> Part(j, i)]
      BY <3>1
    <3> QED
      BY <3>2 DEF w
  <2> QED
    BY <2>4 DEF Payload
<1> QED
  BY <1>3, <1>4 DEF f

\* Hiding keeps the length of a text, and hides the secrets of a payload.
LEMMA HideKeeps ==
  ASSUME NEW t \in Seq(LogToken)
  PROVE  HideSecretsFromLog(t) \in Seq(LogToken)
<1>1. \A i \in 1..Len(t) : t[i] \in LogToken
  OBVIOUS
<1>2. DOMAIN t = 1..Len(t) /\ Len(t) \in Nat
  OBVIOUS
<1> DEFINE H(i) == IF "part" \in DOMAIN t[i] /\ t[i].part \in HiddenParts THEN Hidden ELSE t[i]
<1>3. \A i \in 1..Len(t) : H(i) \in LogToken
  BY <1>1, LogTokenShape
<1>4. HideSecretsFromLog(t) = [i \in 1..Len(t) |-> H(i)]
  BY <1>2 DEF HideSecretsFromLog
<1> HIDE DEF H
<1> QED
  BY <1>2, <1>3, <1>4

LEMMA ShownIs ==
  ASSUME output \in Seq(Frames), NEW j \in 1..Len(output)
  PROVE  HideSecretsFromLog(Payload(j)) = Shown(j) /\ Shown(j) \in Seq(LogToken)
<1> DEFINE p == output[j].parts
<1>1. p \in Nat /\ j \in Nat
  BY FrameOf
<1>2. \A m : "part" \in DOMAIN Part(j, m) /\ Part(j, m).part = m
  BY DEF Part
<1>3. \A m \in 1..p : (IF m \in HiddenParts THEN Hidden ELSE Part(j, m)) \in LogToken
  BY <1>1, LogTokenShape
<1>4. Shown(j) \in Seq(LogToken)
  BY <1>1, <1>3 DEF Shown
<1>5. HideSecretsFromLog(Payload(j)) = Shown(j)
  <2>1. DOMAIN Payload(j) = 1..p /\ \A m \in 1..p : Payload(j)[m] = Part(j, m)
    BY DEF Payload
  <2> HIDE DEF p
  <2>2. HideSecretsFromLog(Payload(j)) =
          [m \in 1..p |-> IF m \in HiddenParts THEN Hidden ELSE Part(j, m)]
    BY <1>2, <2>1 DEF HideSecretsFromLog
  <2> QED
    BY <2>2 DEF Shown, p
<1> QED
  BY <1>4, <1>5

-----------------------------------------------------------------------------
(* What makes the log the output.                                          *)

Message == [index : Nat, streamType : StreamType, text : Seq(LogToken)]

Logs == ToSet(socket) \cup inserting \cup jobLogs

\* What a log says, once k frames are read: the logs of the pull come first,
\* then those of the frames; execJob's own come before and after.
Says(l, k) ==
  IF l.index \in pulled..(pulled + k - 1)
  THEN /\ l.streamType = output[l.index - pulled + 1].stream
       /\ l.text = Shown(l.index - pulled + 1)
  ELSE l.streamType = "system" /\ l.text = <<>>

\* The numbers of the logs are those up to the counter.
Numbered ==
  /\ \A l \in Logs : l.index \in 0..(logIndex - 1) /\ l.streamType \in StreamType
  /\ \A l, m \in Logs : l.index = m.index => l = m
  /\ \A i \in 0..(logIndex - 1) : \E l \in Logs : l.index = i

LogTypes ==
  /\ output \in Seq(Frames)
  /\ stream \in Seq(LogToken) /\ socket \in Seq(Message)
  /\ chunks \in 0..MaxChunks /\ (stream # <<>> => chunks < MaxChunks)
  /\ tidy \in BOOLEAN
  /\ pc \in {"pull", "exec", "inspect", "done"}
  /\ pulled \in 0..MaxLines
  /\ logIndex \in Nat

\* What is left of the output after k frames.
Rest(k) == SubSeq(Tokens, Ends[k] + 1, Len(Tokens))

\* Of whole frames, k are read and logged, and the others are to come.
Told(k) ==
  /\ k \in 0..Len(output) /\ stream = Rest(k)
  /\ \A l \in Logs : Says(l, k)
  /\ pc = "pull" => k = 0
  /\ pc = "inspect" => k = Len(output)
  /\ logIndex = pulled + k \/ (pc = "done" /\ logIndex = pulled + k + 1)

Faithful == tidy => \E k \in Nat : Told(k)

LogIInv == LogTypes /\ Numbered /\ Faithful

-----------------------------------------------------------------------------
(* What is left of the stream.                                             *)

LEMMA SubSeqOf ==
  ASSUME NEW X, NEW s \in Seq(X), NEW a \in Nat, NEW b \in Nat, a <= b, b <= Len(s)
  PROVE  LET t == SubSeq(s, a + 1, b)
         IN /\ t \in Seq(X) /\ Len(t) = b - a /\ \A i \in 1..(b - a) : t[i] = s[a + i]
<1> DEFINE t == SubSeq(s, a + 1, b)
<1>1. Len(s) \in Nat /\ \A i \in 1..Len(s) : s[i] \in X
  OBVIOUS
<1>2. /\ \A i \in (a + 1)..b : i \in 1..Len(s)
      /\ a + 1 \in Int /\ b \in Int
  BY <1>1
<1>3. /\ t \in Seq(X) /\ Len(t) = IF a + 1 <= b THEN b - (a + 1) + 1 ELSE 0
      /\ \A i \in 1..(b - (a + 1) + 1) : t[i] = s[(a + 1) + i - 1]
  BY <1>1, <1>2, SubSeqProperties
<1>4. b - (a + 1) + 1 = b - a /\ \A i \in 1..(b - a) : (a + 1) + i - 1 = a + i
  OBVIOUS
<1>5. Len(t) = b - a
  BY <1>3
<1> HIDE DEF t
<1>6. \A i \in 1..(b - a) : t[i] = s[a + i]
  BY <1>3, <1>4
<1> QED
  BY <1>3, <1>5, <1>6 DEF t

LEMMA Remainder ==
  ASSUME output \in Seq(Frames), NEW k \in 0..Len(output)
  PROVE  /\ Rest(k) \in Seq(LogToken) /\ Len(Rest(k)) = Ends[Len(output)] - Ends[k]
         /\ Len(Rest(k)) \in Nat /\ Ends[k] \in Nat /\ Ends[Len(output)] \in Nat
         /\ \A i \in 1..Len(Rest(k)) : Rest(k)[i] = Tokens[Ends[k] + i]
<1> DEFINE e == Ends[k]
           n == Len(Tokens)
<1>1. Len(output) \in Nat /\ Len(output) \in 0..Len(output)
  BY FrameOf
<1>2. Tokens \in Seq(LogToken) /\ n = Ends[Len(output)] /\ e \in Nat /\ n \in Nat
  BY <1>1, TokensAre, EndsAre
<1>3. e <= n
  <2>1. CASE k = Len(output)
    BY <1>2, <2>1
  <2>2. CASE k # Len(output)
    <3>1. k < Len(output)
      BY <1>1, <2>2
    <3>2. Ends[k] + 2 <= Ends[Len(output)]
      BY <1>1, <3>1, EndsGrow
    <3> QED
      BY <1>2, <3>2
  <2> QED
    BY <2>1, <2>2
<1>4. n <= Len(Tokens)
  BY <1>2
<1>5. Rest(k) = SubSeq(Tokens, e + 1, n)
  BY DEF Rest
<1> HIDE DEF e, n
<1>6. /\ Rest(k) \in Seq(LogToken) /\ Len(Rest(k)) = n - e
      /\ \A i \in 1..(n - e) : Rest(k)[i] = Tokens[e + i]
  BY <1>2, <1>3, <1>4, <1>5, SubSeqOf
<1>7. n - e \in Nat
  BY <1>2, <1>3
<1> QED
  BY <1>2, <1>6, <1>7 DEF e, n

\* Where a chunk may end, and the headers in it.
Between(s, n) == n < Len(s) => IsHeader(s[n + 1])

Headers(s, n) == {i \in 1..n : IsHeader(s[i])}

\* A chunk that ends between frames ends with one of them.
LEMMA EndsFrame ==
  ASSUME output \in Seq(Frames), NEW k \in 0..Len(output), NEW s, s = Rest(k),
         NEW n \in 1..Len(s), Between(s, n)
  PROVE  \E j \in 0..Len(output) : k < j /\ Ends[j] = Ends[k] + n
<1> DEFINE N == Len(output)
           a == Ends[k]
           b == Ends[N]
<1>1. /\ Len(s) = b - a /\ Len(s) \in Nat /\ a \in Nat /\ b \in Nat
      /\ \A i \in 1..Len(s) : s[i] = Tokens[a + i]
  BY Remainder
<1>2. N \in Nat /\ N \in 0..N /\ k \in Nat /\ k <= N
  BY FrameOf
<1>3. Len(Tokens) = b
  BY TokensAre
<1>4. CASE n = Len(s)
  <2>1. b = a + n /\ b # a
    <3> HIDE DEF a, b, N
    <3> QED BY <1>1, <1>4
  <2>2. k # N
    BY <2>1
  <2>3. k < N
    BY <1>2, <2>2
  <2> QED
    BY <1>2, <2>1, <2>3
<1>5. CASE n # Len(s)
  <2>1. n < Len(s) /\ n + 1 \in 1..Len(s) /\ n \in Nat
    BY <1>1, <1>5
  <2>2. a + (n + 1) \in 1..Len(Tokens)
    <3> HIDE DEF a, b, N
    <3> QED BY <1>1, <1>3, <2>1
  <2>3. IsHeader(Tokens[a + (n + 1)])
    <3>1. IsHeader(s[n + 1])
      BY <2>1 DEF Between
    <3> QED
      BY <1>1, <2>1, <3>1
  <2>4. PICK i \in 1..N : a + (n + 1) = Ends[i - 1] + 1
    BY <2>2, <2>3, HeadersAre
  <2>5. i - 1 \in 0..N /\ Ends[i - 1] \in Nat
    <3>1. i - 1 \in 0..N
      BY <1>2
    <3> QED
      BY <3>1, EndsAre
  <2>6. Ends[i - 1] = a + n
    <3> DEFINE x == Ends[i - 1]
    <3>1. a \in Nat /\ n \in Nat /\ x \in Nat /\ a + (n + 1) = x + 1
      BY <1>1, <2>1, <2>4, <2>5
    <3> HIDE DEF a, x
    <3>2. x = a + n
      BY <3>1
    <3> QED
      BY <3>2 DEF x
  <2>7. ~(i - 1 < k)
    <3> SUFFICES ASSUME i - 1 < k PROVE FALSE
      OBVIOUS
    <3>1. Ends[i - 1] + 2 <= a
      BY <2>5, EndsGrow
    <3> HIDE DEF a
    <3> QED
      BY <1>1, <2>1, <2>6, <3>1
  <2>8. i - 1 # k
    <3> SUFFICES ASSUME i - 1 = k PROVE FALSE
      OBVIOUS
    <3>1. a = a + n /\ n # 0
      BY <2>6
    <3> HIDE DEF a
    <3> QED
      BY <1>1, <2>1, <3>1
  <2>9. k < i - 1
    BY <1>2, <2>5, <2>7, <2>8
  <2> QED
    BY <2>5, <2>6, <2>9
<1> QED
  BY <1>4, <1>5

\* A chunk that ends between frames, at most eight, is some of those to come.
LEMMA TidyChunk ==
  ASSUME output \in Seq(Frames), NEW k \in 0..Len(output), NEW s, s = Rest(k),
         NEW n \in 1..Len(s), Between(s, n), Cardinality(Headers(s, n)) <= 8
  PROVE  \E h \in 1..8 :
           /\ Whole(SubSeq(s, 1, n), k, h) /\ k + h \in 0..Len(output)
           /\ SubSeq(s, n + 1, Len(s)) = Rest(k + h)
<1> DEFINE N == Len(output)
           c == SubSeq(s, 1, n)
           a == Ends[k]
           b == Ends[N]
<1>1. /\ s \in Seq(LogToken) /\ Len(s) = b - a /\ Len(s) \in Nat /\ a \in Nat /\ b \in Nat
      /\ \A i \in 1..Len(s) : s[i] = Tokens[a + i]
  BY Remainder
<1>2. N \in Nat /\ k \in Nat /\ n \in Nat /\ n # 0 /\ n <= Len(s)
  BY <1>1, FrameOf
<1>3. PICK j \in 0..N : k < j /\ Ends[j] = a + n
  BY EndsFrame
<1> DEFINE h == j - k
<1>4. h \in Nat /\ h # 0 /\ k + h = j /\ j <= N
  BY <1>2, <1>3
<1>5. /\ c \in Seq(LogToken) /\ Len(c) = n /\ \A i \in 1..n : c[i] = s[i]
  <2>1. 0 \in Nat /\ 0 <= n /\ 0 + 1 = 1 /\ n - 0 = n /\ \A i \in 1..n : 0 + i = i
    BY <1>2
  <2> HIDE DEF c
  <2>2. /\ SubSeq(s, 0 + 1, n) \in Seq(LogToken) /\ Len(SubSeq(s, 0 + 1, n)) = n - 0
        /\ \A i \in 1..(n - 0) : SubSeq(s, 0 + 1, n)[i] = s[0 + i]
    BY <1>1, <1>2, <2>1, SubSeqOf
  <2> QED
    BY <2>1, <2>2 DEF c
<1> HIDE DEF c, h, N
<1>6. Whole(c, k, h)
  <2>1. Len(c) = Ends[k + h] - Ends[k]
    <3>1. Ends[k + h] = a + n
      BY <1>3, <1>4
    <3>2. n = (a + n) - a
      <4> HIDE DEF a
      <4> QED BY <1>1, <1>2
    <3> QED
      BY <1>5, <3>1, <3>2
  <2>2. \A i \in 1..Len(c) : c[i] = Tokens[Ends[k] + i]
    <3>1. \A i \in 1..n : i \in 1..Len(s)
      BY <1>1, <1>2
    <3> QED
      BY <1>1, <1>5, <3>1
  <2>3. k + h <= Len(output)
    BY <1>4 DEF N
  <2> QED
    BY <1>2, <1>4, <1>5, <2>1, <2>2, <2>3 DEF Whole
<1>7. Cardinality(Headers(s, n)) = h
  <2> DEFINE e == [m \in 1..h |-> Offset(k, m - 1) + 1]
             S == Headers(s, n)
  <2>1. /\ \A m \in 0..h : Offset(k, m) \in Nat
        /\ \A m, i \in 0..h : m < i => Offset(k, m) + 2 <= Offset(k, i)
        /\ Offset(k, h) = n
    <3>1. k + h <= Len(output)
      BY <1>4 DEF N
    <3>2. Offset(k, h) = n
      BY <1>5, <1>6 DEF Offset, Whole
    <3> QED
      BY <1>2, <1>4, <3>1, <3>2, Offsets
  <2>2. \A m \in 1..h : m - 1 \in 0..h /\ m - 1 < h /\ h \in 0..h
    BY <1>4
  <2>3. \A m \in 1..h : Offset(k, m - 1) + 1 \in 1..n
    <3> TAKE m \in 1..h
    <3>1. Offset(k, m - 1) \in Nat /\ Offset(k, m - 1) + 2 <= n
      BY <2>1, <2>2
    <3> QED
      BY <1>2, <3>1
  <2>4. e \in [1..h -> Nat] /\ \A m \in 1..h : e[m] = Offset(k, m - 1) + 1
    BY <2>3
  <2>5. Rising(e, h)
    <3> SUFFICES ASSUME NEW x \in 1..h, NEW y \in 1..h, x < y PROVE e[x] < e[y]
      BY DEF Rising
    <3>1. x - 1 \in 0..h /\ y - 1 \in 0..h /\ x - 1 < y - 1
      BY <1>4
    <3>2. /\ Offset(k, x - 1) \in Nat /\ Offset(k, y - 1) \in Nat
          /\ Offset(k, x - 1) + 2 <= Offset(k, y - 1)
      BY <2>1, <3>1
    <3>3. Offset(k, x - 1) + 1 < Offset(k, y - 1) + 1
      BY <3>2
    <3> HIDE DEF e
    <3> QED
      BY <2>4, <3>3
  <2>6. \A i \in 1..n : IsHeader(s[i]) <=> \E m \in 1..h : i = Offset(k, m - 1) + 1
    <3> TAKE i \in 1..n
    <3>1. h \in Nat \ {0} /\ i \in 1..Len(c)
      BY <1>4, <1>5
    <3>2. IsHeader(c[i]) <=> \E m \in 1..h : i = Offset(k, m - 1) + 1
      BY <1>6, <3>1, WholeHeaders
    <3> QED
      BY <1>5, <3>2
  <2>7. S = {e[m] : m \in 1..h}
    <3>1. \A i \in 1..n : i \in S <=> \E m \in 1..h : i = e[m]
      BY <2>4, <2>6 DEF Headers
    <3>2. \A m \in 1..h : e[m] \in 1..n
      BY <2>3, <2>4
    <3>3. \A i \in S : i \in 1..n
      BY DEF Headers
    <3> HIDE DEF e, S
    <3> QED
      BY <3>1, <3>2, <3>3
  <2> HIDE DEF e, S
  <2>8. Cardinality(S) = h
    BY <1>4, <2>4, <2>5, <2>7, NthIs
  <2> QED
    BY <2>8 DEF S
<1>8. h \in 1..8
  <2>1. h <= 8
    BY <1>7
  <2> QED
    BY <1>4, <2>1
<1>9. SubSeq(s, n + 1, Len(s)) = Rest(j)
  <2> DEFINE u == SubSeq(s, n + 1, Len(s))
             v == Rest(j)
             r == Len(s) - n
             d == Ends[j]
  <2>1. /\ v \in Seq(LogToken) /\ Len(v) = b - d
        /\ \A i \in 1..Len(v) : v[i] = Tokens[d + i]
    BY Remainder DEF N
  <2>2. r \in Nat /\ b - d = r
    <3> HIDE DEF a, b, d
    <3>1. d = a + n
      BY <1>3 DEF d
    <3> QED
      BY <1>1, <1>2, <3>1
  <2>3. /\ u \in Seq(LogToken) /\ Len(u) = r /\ \A i \in 1..r : u[i] = s[n + i]
    <3>1. /\ s \in Seq(LogToken) /\ n \in Nat /\ Len(s) \in Nat
          /\ n <= Len(s) /\ Len(s) <= Len(s)
      BY <1>1, <1>2
    <3> QED
      BY <3>1, SubSeqOf
  <2> HIDE DEF u, v
  <2>4. ASSUME NEW i \in 1..r PROVE u[i] = v[i]
    <3>1. n + i \in 1..Len(s)
      BY <1>1, <1>2
    <3>2. i \in 1..Len(v)
      <4> HIDE DEF r, d, b
      <4> QED BY <2>1, <2>2
    <3>3. a + (n + i) = d + i
      <4>1. d = a + n
        BY <1>3
      <4> HIDE DEF a, d
      <4>2. i \in Nat
        BY <2>2
      <4> QED BY <1>1, <1>2, <4>1, <4>2
    <3>4. u[i] = Tokens[a + (n + i)]
      BY <1>1, <2>3, <3>1
    <3>5. v[i] = Tokens[d + i]
      BY <2>1, <3>2
    <3> QED
      BY <3>3, <3>4, <3>5
  <2>5. Len(u) = r /\ Len(v) = r
    BY <2>1, <2>2, <2>3
  <2> HIDE DEF r
  <2>6. u = v
    BY <2>1, <2>3, <2>4, <2>5, SeqEqual
  <2> QED
    BY <2>6 DEF u, v
<1>10. k + h \in 0..Len(output)
  BY <1>4 DEF N
<1> QED
  BY <1>4, <1>6, <1>8, <1>9, <1>10 DEF c

-----------------------------------------------------------------------------
(* The numbers of the logs.                                                *)

\* Nothing is said or read.
LEMMA ToldStays ==
  ASSUME NEW k, UNCHANGED <<output, stream, pulled>>
  PROVE  /\ Rest(k)' = Rest(k)
         /\ \A l : Says(l, k)' <=> Says(l, k)
<1>1. Rest(k)' = Rest(k)
  BY DEF Rest, Tokens, Payload, Ends
<1>2. \A l : Says(l, k)' <=> Says(l, k)
  BY DEF Says, Shown
<1> QED
  BY <1>1, <1>2

\* Logs go from one place to the next.
LEMMA LogsStay ==
  ASSUME Numbered, Faithful, Logs' = Logs,
         UNCHANGED <<output, stream, tidy, pc, pulled, logIndex>>
  PROVE  Numbered' /\ Faithful'
<1>1. Numbered'
  BY DEF Numbered
<1>2. ASSUME NEW k \in Nat, Told(k) PROVE Told(k)'
  BY <1>2, ToldStays DEF Told
<1>3. Faithful'
  BY <1>2 DEF Faithful
<1> QED
  BY <1>1, <1>3

\* So many new ones, numbered from the counter on.
LEMMA LogsGrow ==
  ASSUME Numbered, logIndex \in Nat, NEW n \in Nat, NEW m,
         \A k \in 1..n : m[k].index = logIndex + k - 1 /\ m[k].streamType \in StreamType,
         Logs' = Logs \cup {m[k] : k \in 1..n}, logIndex' = logIndex + n
  PROVE  Numbered'
<1> DEFINE q == logIndex
<1>1. /\ \A l \in Logs : l.index \in 0..(q - 1) /\ l.streamType \in StreamType
      /\ \A l, k \in Logs : l.index = k.index => l = k
      /\ \A i \in 0..(q - 1) : \E l \in Logs : l.index = i
  BY DEF Numbered
<1>2. \A l \in Logs' : l \in Logs \/ \E k \in 1..n : l = m[k]
  OBVIOUS
<1>3. \A k \in 1..n : m[k].index \in 0..((q + n) - 1) /\ ~(m[k].index < q) /\ q + k - 1 \in Nat
  BY DEF Numbered
<1>4. \A l \in Logs : l.index \in 0..((q + n) - 1) /\ l.index < q
  <2> TAKE l \in Logs
  <2>1. l.index \in 0..(q - 1)
    BY <1>1
  <2> QED
    BY <2>1
<1>5. \A l \in Logs' : l.index \in 0..(logIndex' - 1) /\ l.streamType \in StreamType
  BY <1>1, <1>2, <1>3, <1>4
<1>6. ASSUME NEW l \in Logs', NEW j \in Logs', l.index = j.index PROVE l = j
  <2>1. CASE l \in Logs /\ j \in Logs
    BY <1>1, <1>6, <2>1
  <2>2. CASE l \in Logs /\ j \notin Logs
    BY <1>2, <1>3, <1>4, <1>6, <2>2
  <2>3. CASE l \notin Logs /\ j \in Logs
    BY <1>2, <1>3, <1>4, <1>6, <2>3
  <2>4. CASE l \notin Logs /\ j \notin Logs
    <3>1. PICK a \in 1..n : l = m[a]
      BY <1>2, <2>4
    <3>2. PICK b \in 1..n : j = m[b]
      BY <1>2, <2>4
    <3>3. q + a - 1 = q + b - 1
      BY <1>6, <3>1, <3>2
    <3>4. a = b
      BY <3>3
    <3> QED
      BY <3>1, <3>2, <3>4
  <2> QED
    BY <2>1, <2>2, <2>3, <2>4
<1>7. ASSUME NEW i \in 0..(logIndex' - 1) PROVE \E l \in Logs' : l.index = i
  <2>1. CASE i < q
    <3>1. i \in 0..(q - 1)
      BY <2>1
    <3> QED
      BY <1>1, <3>1
  <2>2. CASE ~(i < q)
    <3>1. (i - q) + 1 \in 1..n /\ q + ((i - q) + 1) - 1 = i
      BY <2>2
    <3> QED
      BY <3>1
  <2> QED
    BY <2>1, <2>2
<1> QED
  BY <1>5, <1>6, <1>7 DEF Numbered

-----------------------------------------------------------------------------
(* The steps of exec, execJob and addJobLog.                               *)

LEMMA InitLogs == Init => LogIInv
<1> SUFFICES ASSUME Init PROVE LogIInv
  OBVIOUS
<1>1. output \in Seq(Frames) /\ MaxChunks \in Nat \ {0} /\ MaxLines \in Nat
  BY LogAssumption DEF LogAssumption, Init, Frames
<1>2. Tokens \in Seq(LogToken) /\ Len(output) \in Nat /\ Ends[0] = 0
  BY <1>1, TokensAre, FrameOf, EndsAre
<1>3. LogTypes
  BY <1>1, <1>2 DEF Init, LogTypes
<1>4. Logs = {}
  BY DEF Logs, Init, ToSet
<1>5. Numbered
  BY <1>4 DEF Numbered, Init
<1>6. stream = Rest(0)
  BY <1>2, SubSeqFull DEF Rest, Init
<1>7. Faithful
  <2>1. pc = "pull" /\ logIndex = pulled + 0 /\ 0 \in 0..Len(output)
    BY <1>2 DEF Init
  <2>2. Told(0)
    BY <1>4, <1>6, <2>1 DEF Told
  <2> QED
    BY <2>2 DEF Faithful
<1> QED
  BY <1>3, <1>5, <1>7 DEF LogIInv

LEMMA ToSetIs ==
  ASSUME NEW X, NEW s \in Seq(X), NEW t \in Seq(X)
  PROVE  /\ ToSet(s \o t) = ToSet(s) \cup ToSet(t)
         /\ ToSet(s) = {s[i] : i \in 1..Len(s)}
         /\ s # <<>> => ToSet(s) = {Head(s)} \cup ToSet(Tail(s))
<1>1. ToSet(s) = {s[i] : i \in 1..Len(s)} /\ ToSet(t) = {t[i] : i \in 1..Len(t)}
  BY DEF ToSet
<1>2. /\ s \o t \in Seq(X) /\ Len(s \o t) = Len(s) + Len(t) /\ Len(s) \in Nat /\ Len(t) \in Nat
      /\ \A i \in 1..(Len(s) + Len(t)) :
           (s \o t)[i] = IF i <= Len(s) THEN s[i] ELSE t[i - Len(s)]
  BY ConcatProperties
<1>3. ToSet(s \o t) = ToSet(s) \cup ToSet(t)
  <2> DEFINE u == s \o t
             a == Len(s)
             b == Len(t)
  <2>1. ToSet(u) = {u[i] : i \in 1..(a + b)}
    BY <1>2 DEF ToSet
  <2>2. \A i \in 1..(a + b) : u[i] \in ToSet(s) \cup ToSet(t)
    <3> TAKE i \in 1..(a + b)
    <3>1. CASE i <= a
      <4>1. i \in 1..a
        BY <1>2, <3>1
      <4> QED
        BY <1>1, <1>2, <3>1, <4>1
    <3>2. CASE ~(i <= a)
      <4>1. i - a \in 1..b
        BY <1>2, <3>2
      <4> QED
        BY <1>1, <1>2, <3>2, <4>1
    <3> QED
      BY <3>1, <3>2
  <2>3. \A i \in 1..a : s[i] = u[i] /\ i \in 1..(a + b)
    BY <1>2
  <2>4. \A i \in 1..b : t[i] = u[a + i] /\ a + i \in 1..(a + b)
    <3> TAKE i \in 1..b
    <3>1. a + i \in 1..(a + b) /\ ~(a + i <= a) /\ (a + i) - a = i
      BY <1>2
    <3> QED
      BY <1>2, <3>1
  <2> HIDE DEF u, a, b
  <2>5. ToSet(u) \subseteq ToSet(s) \cup ToSet(t)
    BY <2>1, <2>2
  <2>6. ToSet(s) \subseteq ToSet(u) /\ ToSet(t) \subseteq ToSet(u)
    BY <1>1, <2>1, <2>3, <2>4 DEF a, b
  <2> QED
    BY <2>5, <2>6 DEF u
<1>4. ASSUME s # <<>> PROVE ToSet(s) = {Head(s)} \cup ToSet(Tail(s))
  <2> DEFINE r == Tail(s)
  <2>1. /\ r \in Seq(X) /\ Len(r) = Len(s) - 1 /\ \A i \in 1..Len(r) : r[i] = s[i + 1]
        /\ Head(s) = s[1] /\ Len(s) \in Nat \ {0}
    BY <1>4, HeadTailProperties, EmptySeq
  <2> HIDE DEF r
  <2>2. ToSet(r) = {r[i] : i \in 1..Len(r)}
    BY <2>1 DEF ToSet
  <2>3. \A i \in 1..Len(s) : i = 1 \/ i - 1 \in 1..Len(r)
    BY <2>1
  <2>4. \A i \in 1..Len(r) : i + 1 \in 1..Len(s)
    BY <2>1
  <2>5. \A i \in 1..Len(s) : s[i] \in {Head(s)} \cup ToSet(r)
    <3> TAKE i \in 1..Len(s)
    <3>1. CASE i = 1
      BY <2>1, <3>1
    <3>2. CASE i - 1 \in 1..Len(r)
      <4>1. r[i - 1] = s[(i - 1) + 1] /\ (i - 1) + 1 = i
        BY <2>1, <3>2
      <4> QED
        BY <2>2, <3>2, <4>1
    <3> QED
      BY <2>3, <3>1, <3>2
  <2>6. 1 \in 1..Len(s)
    BY <2>1
  <2>7. ToSet(r) \subseteq ToSet(s) /\ Head(s) \in ToSet(s)
    BY <1>1, <2>1, <2>2, <2>4, <2>6
  <2>8. ToSet(s) \subseteq {Head(s)} \cup ToSet(r)
    BY <1>1, <2>5
  <2> QED
    BY <2>7, <2>8 DEF r
<1> QED
  BY <1>1, <1>3, <1>4

\* addJobLog takes a message, and the database answers.
LEMMA AddJobLogStep ==
  ASSUME LogIInv, AddJobLog
  PROVE  LogIInv' /\ Logs' = Logs
<1>1. socket \in Seq(Message) /\ socket # <<>> /\ socket' = Tail(socket)
  BY DEF LogIInv, LogTypes, AddJobLog
<1>2. ToSet(socket) = {Head(socket)} \cup ToSet(socket')
  BY <1>1, ToSetIs
<1>3. Logs' = Logs
  BY <1>2 DEF Logs, AddJobLog
<1>4. socket' \in Seq(Message)
  BY <1>1, HeadTailProperties
<1>5. LogTypes'
  BY <1>4 DEF LogIInv, LogTypes, AddJobLog
<1> QED
  BY <1>3, <1>5, LogsStay DEF LogIInv, AddJobLog

LEMMA InsertedStep ==
  ASSUME LogIInv, NEW l \in inserting, Inserted(l)
  PROVE  LogIInv' /\ Logs' = Logs
<1>1. Logs' = Logs
  BY DEF Logs, Inserted
<1>2. LogTypes'
  BY DEF LogIInv, LogTypes, Inserted
<1> QED
  BY <1>1, <1>2, LogsStay DEF LogIInv, Inserted

\* The container starts, the script has exited well: nothing is sent.
LEMMA SilentStep ==
  ASSUME LogIInv, CreateContainer \/ Succeeds
  PROVE  LogIInv'
<1>1. LogTypes /\ Numbered /\ Faithful
  BY DEF LogIInv
<1>2. /\ UNCHANGED <<output, stream, chunks, tidy, pulled, logIndex, socket, inserting, jobLogs>>
      /\ pc # "done" /\ pc' \in {"exec", "done"}
  BY DEF CreateContainer, Succeeds
<1>3. Logs' = Logs
  BY <1>2 DEF Logs
<1>4. LogTypes' /\ Numbered'
  BY <1>1, <1>2, <1>3 DEF LogTypes, Numbered
<1>5. ASSUME NEW k \in Nat, Told(k) PROVE Told(k)'
  BY <1>2, <1>3, <1>5, ToldStays DEF Told
<1>6. Faithful'
  BY <1>1, <1>2, <1>5 DEF Faithful
<1> QED
  BY <1>4, <1>6 DEF LogIInv

LEMMA StreamEndsStep ==
  ASSUME LogIInv, StreamEnds
  PROVE  LogIInv'
<1>1. LogTypes /\ Numbered /\ Faithful
  BY DEF LogIInv
<1>2. /\ UNCHANGED <<output, stream, chunks, tidy, pulled, logIndex, socket, inserting, jobLogs>>
      /\ stream = <<>> /\ pc = "exec" /\ pc' = "inspect"
  BY DEF StreamEnds
<1>3. LogTypes'
  BY <1>1, <1>2 DEF LogTypes
<1>4. Logs' = Logs
  BY <1>2 DEF Logs
<1>5. Numbered'
  BY <1>1, <1>2, <1>4 DEF Numbered
<1>6. ASSUME NEW k \in Nat, Told(k) PROVE Told(k)'
  <2>1. k \in 0..Len(output) /\ Rest(k) = <<>> /\ output \in Seq(Frames)
    BY <1>1, <1>2, <1>6 DEF Told, LogTypes
  <2>2. Ends[Len(output)] = Ends[k]
    <3>1. Len(<<>>) = 0
      OBVIOUS
    <3>2. Ends[Len(output)] - Ends[k] = 0
      BY <2>1, <3>1, Remainder
    <3>3. Ends[Len(output)] \in Nat /\ Ends[k] \in Nat
      BY <2>1, Remainder
    <3> QED
      BY <3>2, <3>3
  <2>3. Len(output) \in 0..Len(output) /\ Ends[k] \in Nat
    BY <2>1, FrameOf, Remainder
  <2>4. k < Len(output) => Ends[k] + 2 <= Ends[Len(output)]
    BY <2>1, <2>3, EndsGrow
  <2>5. ~(k < Len(output))
    BY <2>2, <2>3, <2>4
  <2>6. k = Len(output)
    BY <2>1, <2>3, <2>5
  <2> QED
    BY <1>2, <1>4, <1>6, <2>6, ToldStays DEF Told
<1>7. Faithful'
  BY <1>1, <1>2, <1>6 DEF Faithful
<1> QED
  BY <1>3, <1>5, <1>7 DEF LogIInv

\* The messages of a chunk go to the socket.
LEMMA MessagesSent ==
  ASSUME LogTypes, NEW f \in Seq(Piece), socket' = socket \o Messages(f),
         UNCHANGED <<inserting, jobLogs>>
  PROVE  /\ socket' \in Seq(Message)
         /\ Logs' = Logs \cup {Messages(f)[k] : k \in 1..Len(f)}
<1> DEFINE m == Messages(f)
<1>1. logIndex \in Nat /\ socket \in Seq(Message) /\ Len(f) \in Nat
  BY DEF LogTypes
<1>2. /\ DOMAIN m = 1..Len(f) /\ Len(m) = Len(f)
      /\ m = [k \in 1..Len(f) |-> m[k]]
      /\ \A k \in 1..Len(f) : m[k] = [index |-> logIndex + k - 1,
           streamType |-> GetStreamType(Head(f[k])), text |-> HideSecretsFromLog(Tail(f[k]))]
  <2>1. DOMAIN f = 1..Len(f)
    OBVIOUS
  <2>2. m = [k \in 1..Len(f) |-> [index |-> Number(k),
           streamType |-> GetStreamType(Head(f[k])), text |-> HideSecretsFromLog(Tail(f[k]))]]
    BY <2>1 DEF Messages
  <2>3. DOMAIN m = 1..Len(f) /\ Len(m) = Len(f)
    BY <1>1, MessagesAre
  <2> HIDE DEF m
  <2>4. m = [k \in 1..Len(f) |-> m[k]]
    BY <2>2, <2>3
  <2>5. \A k \in 1..Len(f) : m[k] = [index |-> logIndex + k - 1,
           streamType |-> GetStreamType(Head(f[k])), text |-> HideSecretsFromLog(Tail(f[k]))]
    BY <2>2 DEF Number
  <2> QED
    BY <2>3, <2>4, <2>5
<1>3. \A k \in 1..Len(f) : m[k].streamType \in StreamType /\ m[k].streamType = GetStreamType(Head(f[k]))
  BY <1>1, MessagesAre
<1> HIDE DEF m
<1>4. ASSUME NEW k \in 1..Len(f) PROVE m[k] \in Message
  <2>1. f[k] \in Seq(LogToken) /\ f[k] # <<>>
    BY DEF Piece
  <2>2. HideSecretsFromLog(Tail(f[k])) \in Seq(LogToken)
    <3>1. Tail(f[k]) \in Seq(LogToken)
      BY <2>1, HeadTailProperties
    <3> QED
      BY <3>1, HideKeeps
  <2>3. logIndex + k - 1 \in Nat
    BY <1>1
  <2>4. GetStreamType(Head(f[k])) \in StreamType
    BY <1>3
  <2>5. \A i \in Nat, t \in StreamType, x \in Seq(LogToken) :
          [index |-> i, streamType |-> t, text |-> x] \in Message
    BY DEF Message
  <2>6. m[k] = [index |-> logIndex + k - 1, streamType |-> GetStreamType(Head(f[k])),
                text |-> HideSecretsFromLog(Tail(f[k]))]
    BY <1>2
  <2> HIDE DEF Message
  <2> QED
    BY <2>2, <2>3, <2>4, <2>5, <2>6, Zenon
<1>5. m \in Seq(Message)
  BY <1>1, <1>2, <1>4
<1>6. socket' \in Seq(Message)
  BY <1>1, <1>5, ConcatProperties DEF m
<1>7. ToSet(socket \o m) = ToSet(socket) \cup {m[k] : k \in 1..Len(f)}
  <2>1. ToSet(m) = {m[k] : k \in 1..Len(f)}
    BY <1>2 DEF ToSet
  <2> QED
    BY <1>1, <1>5, <2>1, ToSetIs
<1> QED
  BY <1>6, <1>7 DEF Logs, m

\* exec reads a chunk.
LEMMA ReadChunkStep ==
  ASSUME LogIInv, NEW n \in DOMAIN stream, ReadChunk(n)
  PROVE  LogIInv'
<1> DEFINE c == SubSeq(stream, 1, n)
           f == SplitFrames(c)
           m == Messages(f)
<1>1. LogTypes /\ Numbered /\ Faithful
  BY DEF LogIInv
<1>2. /\ output \in Seq(Frames) /\ stream \in Seq(LogToken) /\ chunks \in 0..MaxChunks
      /\ logIndex \in Nat /\ (stream # <<>> => chunks < MaxChunks)
      /\ MaxChunks \in Nat
  BY <1>1, LogAssumption DEF LogTypes, LogAssumption
<1>3. n \in 1..Len(stream) /\ Len(stream) \in Nat /\ stream # <<>>
  BY <1>2
<1>4. /\ pc = "exec" /\ pc' = pc /\ output' = output /\ pulled' = pulled
      /\ chunks' = chunks + 1 /\ (chunks + 1 < MaxChunks \/ n = Len(stream))
      /\ stream' = SubSeq(stream, n + 1, Len(stream))
      /\ tidy' = (tidy /\ Cardinality(Headers(stream, n)) <= 8 /\ Between(stream, n))
      /\ socket' = socket \o m /\ logIndex' = logIndex + Len(f)
      /\ UNCHANGED <<inserting, jobLogs>>
  BY DEF ReadChunk, Headers, Between
<1>5. c \in Seq(LogToken)
  BY <1>2, <1>3, SubSeqProperties
<1>6. f \in Seq(Piece)
  <2> HIDE DEF c
  <2> QED BY <1>5, FramesArePieces
<1> HIDE DEF c
<1>7. Len(f) \in Nat
  BY <1>6
<1> HIDE DEF f
<1>8. /\ socket' \in Seq(Message)
      /\ Logs' = Logs \cup {m[k] : k \in 1..Len(f)}
  BY <1>1, <1>4, <1>6, MessagesSent
<1>9. \A k \in 1..Len(f) : /\ m[k].index = logIndex + k - 1
                           /\ m[k].streamType = GetStreamType(Head(f[k]))
                           /\ m[k].streamType \in StreamType
                           /\ m[k].text = HideSecretsFromLog(Tail(f[k]))
  BY <1>2, <1>6, MessagesAre
<1> HIDE DEF m
<1>10. LogTypes'
  <2>1. stream' \in Seq(LogToken) /\ Len(stream') = Len(stream) - n
    <3>1. n \in Nat /\ n <= Len(stream) /\ Len(stream) <= Len(stream)
      BY <1>3
    <3> QED
      BY <1>2, <1>3, <1>4, <3>1, SubSeqOf
  <2>2. chunks' \in 0..MaxChunks
    BY <1>2, <1>3, <1>4
  <2>3. stream' # <<>> => chunks' < MaxChunks
    <3>1. n = Len(stream) => Len(stream') = 0
      BY <1>3, <2>1
    <3>2. n = Len(stream) => stream' = <<>>
      BY <2>1, <3>1, EmptySeq
    <3> QED
      BY <1>4, <3>2
  <2>4. logIndex' \in Nat
    BY <1>2, <1>4, <1>7
  <2>5. tidy' \in BOOLEAN
    BY <1>4
  <2>6. /\ output' \in Seq(Frames) /\ pulled' \in 0..MaxLines
        /\ pc' \in {"pull", "exec", "inspect", "done"}
    BY <1>1, <1>2, <1>4 DEF LogTypes
  <2> QED
    BY <1>8, <2>1, <2>2, <2>3, <2>4, <2>5, <2>6 DEF LogTypes
<1>11. Numbered'
  BY <1>1, <1>2, <1>4, <1>7, <1>8, <1>9, LogsGrow
<1>12. ASSUME tidy' PROVE Faithful'
  <2>1. tidy /\ Cardinality(Headers(stream, n)) <= 8 /\ Between(stream, n)
    BY <1>4, <1>12
  <2>2. PICK k \in Nat : Told(k)
    BY <1>1, <2>1 DEF Faithful
  <2>3. /\ k \in 0..Len(output) /\ stream = Rest(k) /\ \A l \in Logs : Says(l, k)
        /\ logIndex = pulled + k /\ pulled \in Nat
    BY <1>1, <1>4, <2>2, LogAssumption DEF Told, LogTypes, LogAssumption
  <2>4. PICK h \in 1..8 : /\ Whole(c, k, h) /\ k + h \in 0..Len(output)
                          /\ SubSeq(stream, n + 1, Len(stream)) = Rest(k + h)
    BY <1>2, <1>3, <2>1, <2>3, TidyChunk DEF c
  <2>5. Len(f) = h /\ \A i \in 1..h : f[i] = Frame(k + i)
    BY <1>2, <2>4, WholeFrames DEF f
  <2>6. k + h \in Nat /\ logIndex' = pulled' + (k + h) /\ stream' = Rest(k + h)
    BY <1>4, <2>3, <2>4, <2>5
  <2>7. Rest(k + h)' = Rest(k + h)
    BY <1>4 DEF Rest, Tokens, Payload, Ends
  <2>8. \A l : Says(l, k + h)' <=> Says(l, k + h)
    BY <1>4 DEF Says, Shown
  <2>9. ASSUME NEW l \in Logs PROVE Says(l, k + h)
    <3>1. l.index \in 0..(pulled + k - 1) /\ Says(l, k)
      BY <1>1, <2>3 DEF Numbered
    <3>2. l.index \in pulled..(pulled + k - 1) <=> l.index \in pulled..(pulled + (k + h) - 1)
      BY <2>3, <3>1
    <3> QED
      BY <3>1, <3>2 DEF Says
  <2>10. ASSUME NEW i \in 1..h PROVE Says(m[i], k + h)
    <3>1. /\ k + i \in 1..Len(output)
          /\ (pulled + k + i - 1) - pulled + 1 = k + i
          /\ pulled + k + i - 1 \in pulled..(pulled + (k + h) - 1)
      <4>1. Len(output) \in Nat
        BY <1>2, FrameOf
      <4> QED
        BY <2>3, <2>4, <4>1
    <3>2. /\ m[i].index = pulled + k + i - 1
          /\ m[i].streamType = GetStreamType(Head(Frame(k + i)))
          /\ m[i].text = HideSecretsFromLog(Tail(Frame(k + i)))
      BY <1>9, <2>3, <2>5
    <3>3. m[i].streamType = output[k + i].stream /\ m[i].text = Shown(k + i)
      BY <1>2, <3>1, <3>2, FrameParts, ShownIs
    <3> QED
      BY <3>1, <3>2, <3>3 DEF Says
  <2>11. \A l \in Logs' : Says(l, k + h)'
    BY <1>8, <2>5, <2>8, <2>9, <2>10
  <2>12. Told(k + h)'
    BY <1>4, <2>4, <2>6, <2>7, <2>11 DEF Told
  <2> QED
    BY <2>6, <2>12 DEF Faithful
<1>13. ASSUME ~tidy' PROVE Faithful'
  BY <1>13 DEF Faithful
<1> QED
  BY <1>10, <1>11, <1>12, <1>13 DEF LogIInv

\* createContainer and execJob send a log of their own.
LEMMA SystemLogSent ==
  ASSUME LogTypes, Numbered, SystemLog, UNCHANGED <<inserting, jobLogs>>
  PROVE  /\ socket' \in Seq(Message) /\ logIndex' = logIndex + 1 /\ logIndex' \in Nat
         /\ Numbered'
         /\ \E x : /\ Logs' = Logs \cup {x}
                  /\ x.index = logIndex /\ x.streamType = "system" /\ x.text = <<>>
<1> DEFINE x == [index |-> Number(1), streamType |-> "system", text |-> <<>>]
           m == [k \in 1..1 |-> x]
<1>1. logIndex \in Nat /\ socket \in Seq(Message)
  BY DEF LogTypes
<1>2. socket' = Append(socket, x) /\ logIndex' = logIndex + 1
  BY DEF SystemLog
<1>3. x.index = logIndex /\ x.streamType = "system" /\ x.text = <<>>
  BY <1>1 DEF Number
<1>4. x \in Message
  BY <1>1, <1>3 DEF Message, StreamType, Number
<1> HIDE DEF x
<1>5. socket' \in Seq(Message) /\ Logs' = Logs \cup {x}
  <2>1. socket' \in Seq(Message) /\ socket' = socket \o <<x>> /\ <<x>> \in Seq(Message)
    BY <1>1, <1>2, <1>4, AppendIsConcat
  <2>2. ToSet(socket') = ToSet(socket) \cup ToSet(<<x>>)
    <3> DEFINE t == <<x>>
    <3>1. t \in Seq(Message) /\ socket' = socket \o t
      BY <2>1
    <3> HIDE DEF t
    <3>2. ToSet(socket \o t) = ToSet(socket) \cup ToSet(t)
      BY <1>1, <3>1, ToSetIs
    <3> QED
      BY <3>1, <3>2 DEF t
  <2>3. ToSet(<<x>>) = {x}
    BY DEF ToSet
  <2> QED
    BY <2>1, <2>2, <2>3 DEF Logs
<1>6. Numbered'
  <2>1. \A k \in 1..1 : k = 1 /\ m[k] = x
    OBVIOUS
  <2>2. {m[k] : k \in 1..1} = {x}
    BY <2>1
  <2>3. \A k \in 1..1 : m[k].index = logIndex + k - 1 /\ m[k].streamType \in StreamType
    <3>1. logIndex + 1 - 1 = logIndex /\ "system" \in StreamType
      BY <1>1 DEF StreamType
    <3> QED
      BY <1>3, <2>1, <3>1
  <2> HIDE DEF m
  <2>4. Logs' = Logs \cup {m[k] : k \in 1..1}
    BY <1>5, <2>2
  <2> QED
    BY <1>1, <1>2, <2>3, <2>4, LogsGrow
<1> QED
  BY <1>1, <1>2, <1>3, <1>5, <1>6

\* Every line of the pull is logged before the script.
LEMMA PullLineStep ==
  ASSUME LogIInv, PullLine
  PROVE  LogIInv'
<1>1. LogTypes /\ Numbered /\ Faithful
  BY DEF LogIInv
<1>2. /\ pc = "pull" /\ pulled < MaxLines /\ pulled' = pulled + 1 /\ SystemLog
      /\ UNCHANGED <<output, stream, chunks, tidy, pc, inserting, jobLogs>>
  BY DEF PullLine
<1>3. /\ socket' \in Seq(Message) /\ logIndex' = logIndex + 1 /\ logIndex' \in Nat
      /\ Numbered'
  BY <1>1, <1>2, SystemLogSent
<1>4. PICK x : /\ Logs' = Logs \cup {x}
               /\ x.index = logIndex /\ x.streamType = "system" /\ x.text = <<>>
  BY <1>1, <1>2, SystemLogSent
<1>5. pulled \in Nat /\ pulled' \in 0..MaxLines
  BY <1>1, <1>2, LogAssumption DEF LogTypes, LogAssumption
<1>6. LogTypes'
  BY <1>1, <1>2, <1>3, <1>5 DEF LogTypes
<1>7. ASSUME NEW k \in Nat, Told(k) PROVE Told(0)'
  <2>1. k = 0 /\ logIndex = pulled + 0 /\ 0 \in 0..Len(output)
    BY <1>2, <1>7 DEF Told
  <2>2. Rest(0)' = Rest(0)
    BY <1>2 DEF Rest, Tokens, Payload, Ends
  <2>3. \A l : Says(l, 0) <=> l.streamType = "system" /\ l.text = <<>>
    BY <1>5 DEF Says
  <2>4. \A l : Says(l, 0)' <=> l.streamType = "system" /\ l.text = <<>>
    <3>1. pulled' \in Nat
      BY <1>2, <1>5
    <3> QED
      BY <3>1 DEF Says
  <2>5. \A l \in Logs' : Says(l, 0)'
    BY <1>4, <1>7, <2>1, <2>3, <2>4 DEF Told
  <2>6. logIndex' = pulled' + 0
    BY <1>2, <1>3, <1>5, <2>1
  <2>7. stream' = Rest(0)' /\ 0 \in 0..Len(output')
    BY <1>2, <1>7, <2>1, <2>2 DEF Told
  <2> QED
    BY <1>2, <2>5, <2>6, <2>7 DEF Told
<1>8. Faithful'
  BY <1>1, <1>2, <1>7 DEF Faithful
<1> QED
  BY <1>3, <1>6, <1>8 DEF LogIInv

\* A job that fails gets one more log, unless it is cancelled.
LEMMA FailsStep ==
  ASSUME LogIInv, NEW cancelled \in BOOLEAN, Fails(cancelled)
  PROVE  LogIInv'
<1>1. LogTypes /\ Numbered /\ Faithful
  BY DEF LogIInv
<1>2. /\ pc \in {"pull", "exec", "inspect"} /\ pc' = "done"
      /\ UNCHANGED <<output, stream, chunks, tidy, pulled, inserting, jobLogs>>
  BY DEF Fails
<1>3. \A k : Rest(k)' = Rest(k) /\ \A l : Says(l, k)' <=> Says(l, k)
  BY <1>2, ToldStays
<1>4. CASE cancelled
  <2>1. UNCHANGED <<socket, logIndex>>
    BY <1>4 DEF Fails
  <2>2. Logs' = Logs
    BY <1>2, <2>1 DEF Logs
  <2>3. LogTypes' /\ Numbered'
    BY <1>1, <1>2, <2>1, <2>2 DEF LogTypes, Numbered
  <2>4. ASSUME NEW k \in Nat, Told(k) PROVE Told(k)'
    BY <1>2, <1>3, <2>1, <2>2, <2>4 DEF Told
  <2>5. Faithful'
    BY <1>1, <1>2, <2>4 DEF Faithful
  <2> QED
    BY <2>3, <2>5 DEF LogIInv
<1>5. CASE ~cancelled
  <2>0. SystemLog
    BY <1>5 DEF Fails
  <2>1. /\ socket' \in Seq(Message) /\ logIndex' = logIndex + 1 /\ logIndex' \in Nat
        /\ Numbered'
    BY <1>1, <1>2, <2>0, SystemLogSent
  <2>2. PICK x : /\ Logs' = Logs \cup {x}
                 /\ x.index = logIndex /\ x.streamType = "system" /\ x.text = <<>>
    BY <1>1, <1>2, <2>0, SystemLogSent
  <2>3. LogTypes'
    BY <1>1, <1>2, <2>1 DEF LogTypes
  <2>4. ASSUME NEW k \in Nat, Told(k) PROVE Told(k)'
    <3>1. logIndex = pulled + k /\ pulled \in Nat
      BY <1>1, <1>2, <2>4, LogAssumption DEF Told, LogTypes, LogAssumption
    <3>2. Says(x, k)
      <4>1. ~(x.index \in pulled..(pulled + k - 1))
        BY <2>2, <3>1
      <4> QED
        BY <2>2, <4>1 DEF Says
    <3>3. \A l \in Logs' : Says(l, k)'
      BY <1>3, <2>2, <2>4, <3>2 DEF Told
    <3>4. logIndex' = pulled' + k + 1
      BY <1>2, <2>1, <3>1
    <3> QED
      BY <1>2, <1>3, <2>4, <3>3, <3>4 DEF Told
  <2>5. Faithful'
    BY <1>1, <1>2, <2>4 DEF Faithful
  <2> QED
    BY <2>1, <2>3, <2>5 DEF LogIInv
<1> QED
  BY <1>4, <1>5

-----------------------------------------------------------------------------
(* The log is the output.                                                  *)

LEMMA LogsCounted ==
  ASSUME Numbered, logIndex \in Nat
  PROVE  IsFiniteSet(Logs) /\ Cardinality(Logs) = logIndex
<1> DEFINE I == 0..(logIndex - 1)
           f == [i \in I |-> CHOOSE l \in Logs : l.index = i]
<1>1. /\ \A l \in Logs : l.index \in I
      /\ \A l, m \in Logs : l.index = m.index => l = m
      /\ \A i \in I : \E l \in Logs : l.index = i
  BY DEF Numbered
<1>2. \A i \in I : f[i] \in Logs /\ f[i].index = i
  <2> HIDE DEF I
  <2> QED BY <1>1
<1>3. \A l \in Logs : f[l.index] = l
  <2> HIDE DEF f
  <2> QED BY <1>1, <1>2
<1>4. f \in [I -> Logs]
  <2> HIDE DEF I
  <2> QED BY <1>2
<1> HIDE DEF f
<1>5. f \in Bijection(I, Logs)
  <2> HIDE DEF I
  <2>1. \A i, k \in I : f[i] = f[k] => i = k
    BY <1>2
  <2>2. \A l \in Logs : \E i \in I : f[i] = l
    BY <1>1, <1>3
  <2> QED
    BY <1>4, <2>1, <2>2 DEF Bijection, Injection, Surjection, IsInjective
<1>6. IsFiniteSet(I) /\ Cardinality(I) = logIndex
  <2>1. 0 \in Int /\ logIndex - 1 \in Int
    OBVIOUS
  <2>2. IsFiniteSet(I) /\ Cardinality(I) = IF 0 > logIndex - 1 THEN 0 ELSE (logIndex - 1) - 0 + 1
    BY <2>1, FS_Interval
  <2> QED
    BY <2>2
<1> HIDE DEF I
<1>7. ExistsBijection(I, Logs)
  BY <1>5 DEF ExistsBijection
<1> QED
  BY <1>6, <1>7, FS_Bijection

LEMMA LogTypeOK == LogIInv => TypeOK
<1> SUFFICES ASSUME LogIInv PROVE TypeOK
  OBVIOUS
<1>1. LogTypes /\ Numbered
  BY DEF LogIInv
<1>2. Logs = ToSet(socket) \cup inserting \cup jobLogs
  BY DEF Logs
<1>3. Cardinality(Logs) = logIndex
  BY <1>1, LogsCounted DEF LogTypes
<1>4. \A l \in Logs : l.index \in 0..(logIndex - 1) /\ l.streamType \in StreamType
  BY <1>1 DEF Numbered
<1> HIDE DEF Logs
<1> QED
  BY <1>1, <1>2, <1>3, <1>4 DEF TypeOK, LogTypes

\* s is the sequence of sequences t, with nothing in the p before it and in the
\* one that may come after it.
Surrounds(s, k, p, t, n) ==
  /\ n \in Nat /\ k \in Nat /\ p \in Nat
  /\ k = p + n \/ k = p + n + 1
  /\ s \in [1..k -> Seq(LogToken)] /\ t \in [1..n -> Seq(LogToken)]
  /\ \A i \in 1..p : s[i] = <<>>
  /\ \A i \in 1..n : s[p + i] = t[i]
  /\ k = p + n + 1 => s[k] = <<>>

LEMMA FlattensSame ==
  ASSUME NEW s, NEW k, NEW p, NEW t, NEW n, Surrounds(s, k, p, t, n)
  PROVE  FlattenSeq(s) = FlattenSeq(t)
<1> DEFINE X == LogToken
<1>0. /\ n \in Nat /\ k \in Nat /\ p \in Nat
      /\ k = p + n \/ k = p + n + 1
      /\ s \in [1..k -> Seq(X)] /\ t \in [1..n -> Seq(X)]
      /\ \A i \in 1..p : s[i] = <<>>
      /\ \A i \in 1..n : s[p + i] = t[i]
      /\ k = p + n + 1 => s[k] = <<>>
  BY DEF Surrounds
<1> HIDE DEF X
<1>1. PICK f \in [0..k -> Seq(X)] :
        /\ f[0] = <<>> /\ \A i \in 1..k : f[i] = f[i - 1] \o s[i]
        /\ FlattenSeq(s) = f[k]
  <2>1. k \in Nat /\ s \in [1..k -> Seq(X)]
    BY <1>0
  <2> QED
    BY <2>1, Flattens, Zenon
<1>2. PICK g \in [0..n -> Seq(X)] :
        /\ g[0] = <<>> /\ \A i \in 1..n : g[i] = g[i - 1] \o t[i]
        /\ FlattenSeq(t) = g[n]
  <2>1. n \in Nat /\ t \in [1..n -> Seq(X)]
    BY <1>0
  <2> QED
    BY <2>1, Flattens, Zenon
<1>3. f[p] = <<>>
  <2> DEFINE P == {i \in 0..p : f[i] = <<>>}
  <2>1. 0 \in P
    BY <1>0, <1>1
  <2>2. ASSUME NEW i \in 1..p, i - 1 \in P PROVE i \in P
    <3>1. i \in 1..k /\ i \in 0..p
      BY <1>0
    <3>2. f[i] = <<>> \o <<>>
      BY <1>0, <1>1, <2>2, <3>1
    <3>3. <<>> \o <<>> = <<>>
      OBVIOUS
    <3> QED
      BY <3>1, <3>2, <3>3
  <2> HIDE DEF P
  <2>3. \A i \in 0..p : i \in P
    BY <1>0, <2>1, <2>2, UpTo
  <2>4. p \in 0..p
    BY <1>0
  <2> QED
    BY <2>3, <2>4 DEF P
<1> DEFINE Q == {i \in 0..n : f[p + i] = g[i]}
<1>4. 0 \in Q
  <2>1. p + 0 = p /\ 0 \in 0..n
    BY <1>0
  <2> QED
    BY <1>2, <1>3, <2>1
<1>5. ASSUME NEW i \in 1..n, i - 1 \in Q PROVE i \in Q
  <2>1. p + i \in 1..k /\ i \in 0..n /\ (p + i) - 1 = p + (i - 1)
    BY <1>0
  <2>2. f[p + i] = f[(p + i) - 1] \o s[p + i] /\ g[i] = g[i - 1] \o t[i] /\ s[p + i] = t[i]
    BY <1>0, <1>1, <1>2, <2>1
  <2>3. f[(p + i) - 1] = g[i - 1]
    BY <1>5, <2>1
  <2> QED
    BY <2>1, <2>2, <2>3
<1> HIDE DEF Q
<1>6. \A i \in 0..n : i \in Q
  BY <1>0, <1>4, <1>5, UpTo
<1>7. f[p + n] = g[n] /\ g[n] \in Seq(X)
  <2>1. n \in 0..n
    BY <1>0
  <2> QED
    BY <1>2, <1>6, <2>1 DEF Q
<1>8. CASE k = p + n
  BY <1>1, <1>2, <1>7, <1>8
<1>9. CASE k = p + n + 1
  <2>1. k \in 1..k /\ k - 1 = p + n
    BY <1>0, <1>9
  <2>2. f[k] = f[p + n] \o <<>>
    BY <1>0, <1>1, <1>9, <2>1
  <2>3. g[n] \o <<>> = g[n]
    BY <1>7, ConcatEmptySeq
  <2> QED
    BY <1>1, <1>2, <1>7, <2>2, <2>3
<1> QED
  BY <1>0, <1>8, <1>9

\* So many frames as there are headers are left of the output.
LEMMA HeadersLeft ==
  ASSUME output \in Seq(Frames), NEW k \in 0..Len(output)
  PROVE  Cardinality({i \in DOMAIN Rest(k) : IsHeader(Rest(k)[i])}) = Len(output) - k
<1> DEFINE h == Len(output) - k
           s == Rest(k)
           S == {i \in DOMAIN s : IsHeader(s[i])}
           e == [m \in 1..h |-> Offset(k, m - 1) + 1]
<1>1. /\ s \in Seq(LogToken) /\ Len(s) = Ends[Len(output)] - Ends[k] /\ Len(s) \in Nat
      /\ Ends[k] \in Nat /\ Ends[Len(output)] \in Nat
      /\ \A i \in 1..Len(s) : s[i] = Tokens[Ends[k] + i]
  BY Remainder
<1>2. /\ Len(output) \in Nat /\ k \in Nat /\ h \in Nat /\ k + h = Len(output)
      /\ k + h <= Len(output) /\ DOMAIN s = 1..Len(s)
  BY <1>1, FrameOf
<1> HIDE DEF s
<1>3. Whole(s, k, h)
  BY <1>1, <1>2 DEF Whole
<1>4. /\ \A m \in 0..h : Offset(k, m) \in Nat
      /\ \A m, i \in 0..h : m < i => Offset(k, m) + 2 <= Offset(k, i)
      /\ Offset(k, 0) = 0
  BY <1>2, Offsets
<1>5. Offset(k, h) = Len(s)
  BY <1>1, <1>2 DEF Offset
<1> HIDE DEF h
<1>6. CASE h = 0
  <2>1. Len(s) = 0
    BY <1>4, <1>5, <1>6
  <2>2. S = {}
    BY <1>2, <2>1
  <2>3. Cardinality({}) = 0
    BY FS_EmptySet
  <2> QED
    BY <1>6, <2>2, <2>3 DEF h, s
<1>7. CASE h # 0
  <2>1. h \in Nat \ {0}
    BY <1>2, <1>7
  <2>2. \A m \in 1..h : m - 1 \in 0..h /\ m - 1 < h /\ h \in 0..h
    BY <1>2
  <2>3. \A m \in 1..h : Offset(k, m - 1) + 1 \in 1..Len(s)
    <3> TAKE m \in 1..h
    <3>1. Offset(k, m - 1) \in Nat /\ Offset(k, m - 1) + 2 <= Len(s)
      BY <1>4, <1>5, <2>2
    <3> QED
      BY <1>1, <3>1
  <2>4. e \in [1..h -> Nat] /\ \A m \in 1..h : e[m] = Offset(k, m - 1) + 1
    BY <2>3
  <2>5. Rising(e, h)
    <3> SUFFICES ASSUME NEW x \in 1..h, NEW y \in 1..h, x < y PROVE e[x] < e[y]
      BY DEF Rising
    <3>1. x - 1 \in 0..h /\ y - 1 \in 0..h /\ x - 1 < y - 1
      BY <1>2
    <3>2. /\ Offset(k, x - 1) \in Nat /\ Offset(k, y - 1) \in Nat
          /\ Offset(k, x - 1) + 2 <= Offset(k, y - 1)
      BY <1>4, <3>1
    <3>3. Offset(k, x - 1) + 1 < Offset(k, y - 1) + 1
      BY <3>2
    <3> HIDE DEF e
    <3> QED
      BY <2>4, <3>3
  <2>6. \A i \in 1..Len(s) : IsHeader(s[i]) <=> \E m \in 1..h : i = Offset(k, m - 1) + 1
    BY <1>3, <2>1, WholeHeaders
  <2>7. S = {e[m] : m \in 1..h}
    <3>1. \A i \in 1..Len(s) : i \in S <=> \E m \in 1..h : i = e[m]
      BY <1>2, <2>4, <2>6
    <3>2. \A m \in 1..h : e[m] \in 1..Len(s)
      BY <2>3, <2>4
    <3>3. \A i \in S : i \in 1..Len(s)
      BY <1>2
    <3> HIDE DEF e, S
    <3> QED
      BY <3>1, <3>2, <3>3
  <2> HIDE DEF e, S
  <2>8. Cardinality(S) = h
    BY <1>2, <2>4, <2>5, <2>7, NthIs
  <2> QED
    BY <2>8 DEF S, s, h
<1> QED
  BY <1>6, <1>7

LEMMA LogIsOutputHolds == LogIInv => LogIsOutput
<1> SUFFICES ASSUME LogIInv, tidy, pc = "done", Cardinality(jobLogs) = logIndex,
                    NEW s \in Stream
             PROVE  TextOf(s) = WrittenTo(s)
  BY DEF LogIsOutput
<1>1. LogTypes /\ Numbered /\ Faithful
  BY DEF LogIInv
<1>2. PICK k \in Nat : Told(k)
  BY <1>1 DEF Faithful
<1>3. /\ output \in Seq(Frames) /\ logIndex \in Nat /\ Len(output) \in Nat
      /\ pulled \in Nat /\ k \in 0..Len(output) /\ stream = Rest(k)
  BY <1>1, <1>2, FrameOf, LogAssumption DEF LogTypes, Told, LogAssumption
<1>4. FramesRead = k
  <2>1. Cardinality({i \in DOMAIN stream : IsHeader(stream[i])}) = Len(output) - k
    BY <1>3, HeadersLeft
  <2> QED
    BY <1>3, <2>1 DEF FramesRead
<1>5. jobLogs = Logs
  <2>1. IsFiniteSet(Logs) /\ Cardinality(Logs) = Cardinality(jobLogs)
    BY <1>1, <1>3, LogsCounted
  <2>2. jobLogs \in SUBSET Logs
    BY DEF Logs
  <2> QED
    BY <2>1, <2>2, FS_Subset
<1>6. /\ \A i \in 0..(logIndex - 1) : \E l \in jobLogs : l.index = i
      /\ \A l \in jobLogs : Says(l, k)
      /\ logIndex = pulled + k \/ logIndex = pulled + k + 1
  BY <1>1, <1>2, <1>5 DEF Numbered, Told
<1>7. ASSUME NEW i \in 1..logIndex PROVE Log(i).index = i - 1 /\ Says(Log(i), k)
  <2>1. i - 1 \in 0..(logIndex - 1)
    BY <1>3
  <2>2. \E l \in jobLogs : l.index = i - 1
    BY <1>6, <2>1
  <2>3. Log(i) \in jobLogs /\ Log(i).index = i - 1
    BY <2>2 DEF Log
  <2> QED
    BY <1>6, <2>3
<1> DEFINE A == [i \in 1..logIndex |-> IF Log(i).streamType = s THEN Log(i).text ELSE <<>>]
           B == [f \in 1..k |-> IF output[f].stream = s THEN Shown(f) ELSE <<>>]
<1>8. TextOf(s) = FlattenSeq(A) /\ WrittenTo(s) = FlattenSeq(B)
  BY <1>4 DEF TextOf, WrittenTo
<1>9. B \in [1..k -> Seq(LogToken)]
  <2>1. \A i \in 1..k : i \in 1..Len(output)
    BY <1>3
  <2>2. \A i \in 1..k : Shown(i) \in Seq(LogToken)
    BY <1>3, <2>1, ShownIs
  <2>3. <<>> \in Seq(LogToken)
    OBVIOUS
  <2> QED
    BY <2>2, <2>3
<1>10. ASSUME NEW i \in 1..k PROVE pulled + i \in 1..logIndex /\ A[pulled + i] = B[i]
  <2>1. /\ pulled + i \in 1..logIndex /\ (pulled + i) - 1 \in pulled..(pulled + k - 1)
        /\ ((pulled + i) - 1) - pulled + 1 = i
    BY <1>3, <1>6
  <2>2. Log(pulled + i).streamType = output[i].stream /\ Log(pulled + i).text = Shown(i)
    BY <1>7, <2>1 DEF Says
  <2> QED
    BY <2>1, <2>2
<1>11. ASSUME NEW i \in 1..logIndex, i <= pulled \/ i > pulled + k PROVE A[i] = <<>>
  <2>1. ~(i - 1 \in pulled..(pulled + k - 1))
    BY <1>3, <1>11
  <2>2. Log(i).text = <<>>
    BY <1>7, <2>1 DEF Says
  <2> QED
    BY <2>2
<1>12. DOMAIN A = 1..logIndex /\ A = [i \in 1..logIndex |-> A[i]]
  OBVIOUS
<1> HIDE DEF A, B
<1>13. \A i \in 1..logIndex : A[i] \in Seq(LogToken)
  <2> TAKE i \in 1..logIndex
  <2>0. <<>> \in Seq(LogToken)
    OBVIOUS
  <2>1. CASE i <= pulled \/ i > pulled + k
    <3>1. A[i] = <<>>
      BY <1>11, <2>1
    <3> QED
      BY <2>0, <3>1, Zenon
  <2>2. CASE ~(i <= pulled \/ i > pulled + k)
    <3>1. i - pulled \in 1..k /\ pulled + (i - pulled) = i
      BY <1>3, <2>2
    <3> QED
      BY <1>9, <1>10, <3>1
  <2> QED
    BY <2>1, <2>2
<1>14. A \in [1..logIndex -> Seq(LogToken)]
  BY <1>12, <1>13
<1>15. Surrounds(A, logIndex, pulled, B, k)
  <2>1. \A i \in 1..pulled : i \in 1..logIndex /\ i <= pulled
    BY <1>3, <1>6
  <2>2. \A i \in 1..pulled : A[i] = <<>>
    BY <1>11, <2>1
  <2>3. logIndex = pulled + k + 1 => logIndex \in 1..logIndex /\ logIndex > pulled + k
    BY <1>3
  <2>4. logIndex = pulled + k + 1 => A[logIndex] = <<>>
    BY <1>11, <2>3
  <2> QED
    BY <1>3, <1>6, <1>9, <1>10, <1>14, <2>2, <2>4, Zenon DEF Surrounds
<1> QED
  BY <1>8, <1>15, FlattensSame

-----------------------------------------------------------------------------
(* The browser beside it.                                                  *)

Watching ==
  /\ viewer \in Viewers
  /\ room \in {"out", "asking", "in", "refused"}
  /\ request \in {"none", "guards", "read", "refused"}
  /\ emitting \subseteq jobLogs /\ fetched \subseteq jobLogs /\ received \subseteq jobLogs
  /\ joinedFirst \in BOOLEAN

LEMMA InitWatching == WatchInit => Watching
<1> SUFFICES ASSUME WatchInit PROVE Watching
  OBVIOUS
<1>1. viewer \in Viewers
  BY DEF WatchInit
<1> QED
  BY <1>1 DEF WatchInit, Watching

LEMMA LogIInvUnchanged ==
  ASSUME LogIInv, UNCHANGED vars
  PROVE  LogIInv'
<1>1. Logs' = Logs
  BY DEF Logs, vars
<1>2. LogTypes'
  BY DEF LogIInv, LogTypes, vars
<1> QED
  BY <1>1, <1>2, LogsStay DEF LogIInv, vars

LEMMA WatchingStep ==
  ASSUME LogIInv, Watching, [WatchNext]_allWatchVars
  PROVE  LogIInv' /\ Watching'
<1>1. CASE UNCHANGED allWatchVars
  BY <1>1, LogIInvUnchanged DEF allWatchVars, vars, watchVars, Watching
<1>2. CASE RunnerStep /\ UNCHANGED watchVars
  <2>1. LogIInv'
    BY <1>2, PullLineStep, SilentStep, StreamEndsStep, FailsStep, ReadChunkStep DEF RunnerStep
  <2>2. jobLogs' = jobLogs
    BY <1>2 DEF RunnerStep, PullLine, CreateContainer, StreamEnds, Succeeds, Fails, ReadChunk
  <2> QED
    BY <1>2, <2>1, <2>2 DEF watchVars, Watching
<1>3. CASE AddJobLog /\ UNCHANGED watchVars
  BY <1>3, AddJobLogStep DEF AddJobLog, watchVars, Watching
<1>4. ASSUME NEW l \in inserting, StoreLog(l) PROVE LogIInv' /\ Watching'
  <2>1. Inserted(l) /\ jobLogs' = jobLogs \cup {l}
    BY <1>4 DEF StoreLog, Inserted
  <2>2. Watching'
    BY <1>4, <2>1 DEF StoreLog, Watching
  <2> QED
    BY <2>1, <2>2, InsertedStep
<1>5. ASSUME NEW l \in emitting, Emit(l) PROVE LogIInv' /\ Watching'
  <2>1. LogIInv'
    BY <1>5, LogIInvUnchanged DEF Emit
  <2>2. Watching'
    BY <1>5 DEF Emit, Watching, vars
  <2> QED
    BY <2>1, <2>2
<1>6. CASE BrowserStep
  <2>1. UNCHANGED vars
    BY <1>6 DEF BrowserStep, JoinJob, Join, RequestLogs, GetJobLogs, GetJobLogsRefused
  <2>2. ASSUME JoinJob PROVE Watching'
    BY <2>1, <2>2 DEF JoinJob, Watching, vars
  <2>3. ASSUME Join PROVE Watching'
    BY <2>1, <2>3 DEF Join, Watching, vars
  <2>4. ASSUME RequestLogs PROVE Watching'
    BY <2>1, <2>4 DEF RequestLogs, Watching, vars
  <2>5. ASSUME GetJobLogs PROVE Watching'
    BY <2>1, <2>5 DEF GetJobLogs, Watching, vars
  <2>6. ASSUME GetJobLogsRefused PROVE Watching'
    BY <2>1, <2>6 DEF GetJobLogsRefused, Watching, vars
  <2> QED
    BY <1>6, <2>1, <2>2, <2>3, <2>4, <2>5, <2>6, LogIInvUnchanged DEF BrowserStep
<1> QED
  BY <1>1, <1>2, <1>3, <1>4, <1>5, <1>6 DEF WatchNext, LogStep

\* What is stored of a job's output is the output: for every output, however
\* many lines the pull has (createContainer), however exec reads the output,
\* its stream fails and insertions end (exec, splitFrames, execJob, addJobLog),
\* the logs are numbered without a gap, and the text of each stream, read by
\* number, is what the script wrote to it, its secrets hidden, as far as it was
\* read and as long as chunks hold whole frames, eight at most; and what a
\* browser is sent is stored.
THEOREM WatchInvHolds == WatchSpec => []WatchInv
<1>1. WatchInit => LogIInv /\ Watching
  BY InitLogs, InitWatching DEF WatchInit
<1>2. LogIInv /\ Watching /\ [WatchNext]_allWatchVars => LogIInv' /\ Watching'
  BY WatchingStep
<1>3. LogIInv /\ Watching => WatchInv
  BY LogTypeOK, LogIsOutputHolds DEF Watching, WatchInv, WatchTypeOK
<1> QED
  BY <1>1, <1>2, <1>3, PTL DEF WatchSpec, allWatchVars
=============================================================================
