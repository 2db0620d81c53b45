--------------------------- MODULE SlotLedgerProofs ---------------------------
(* Proofs about SlotLedger: for all nodes, allowances, budgets and scenarios, the
   trades, replacements and mints of a job make no slots out of nothing, and the
   epochs the head lets stand unproven are bounded by its restarts. *)
EXTENDS SlotLedger, FiniteSetTheorems, WellFoundedInduction, TLAPS

-----------------------------------------------------------------------------
(* Sums.  SumFunctionOnSet is a fold, defined by recursion over the subsets of a
   set; what it computes is proved from the well-foundedness of the strict subset
   relation. *)

(* A property of sets that a set has whenever its strict subsets do holds of every
   finite set: induction, with the property given by the set F of sets that have it. *)
LEMMA SubsetInduction ==
    ASSUME NEW S, IsFiniteSet(S), NEW F,
           \A T \in SUBSET S : (\A U \in SUBSET T : U # T => U \in F) => T \in F
    PROVE  \A T \in SUBSET S : T \in F
<1> DEFINE Bad == {T \in SUBSET S : T \notin F}
<1> SUFFICES ASSUME Bad # {} PROVE FALSE
  OBVIOUS
<1>1. IsWellFoundedOn(StrictSubsetOrdering(S), FiniteSubsetsOf(S))
  BY FS_StrictSubsetOrderingWellFounded
<1>2. FiniteSubsetsOf(S) = SUBSET S
  BY FS_FiniteSubsetsOfFinite
<1>3. PICK T \in Bad : \A U \in Bad : ~(<<U, T>> \in StrictSubsetOrdering(S))
  <2>1. Bad \subseteq FiniteSubsetsOf(S)
    BY <1>2
  <2> HIDE DEF Bad
  <2> QED
    BY <1>1, <2>1, WFMin
<1>4. \A U \in SUBSET T : U # T => U \in F
  BY <1>3 DEF StrictSubsetOrdering
<1> QED
  BY <1>3, <1>4

(* The element the fold takes out of a set first. *)
Pick(s) == CHOOSE x \in s : TRUE

(* It is one of them. *)
LEMMA PickIn ==
    ASSUME NEW s, s # {}
    PROVE  Pick(s) \in s
BY DEF Pick

(* The recursion of the fold: g is the function it defines on the subsets of S. *)
IsFold(g, f, S) ==
    g = [s \in SUBSET S |-> IF s = {} THEN 0 ELSE f[Pick(s)] + g[s \ {Pick(s)}]]

(* What the recursion says of one set. *)
LEMMA FoldAt ==
    ASSUME NEW f, NEW S, NEW g, IsFold(g, f, S), NEW s, s \subseteq S
    PROVE  g[s] = IF s = {} THEN 0 ELSE f[Pick(s)] + g[s \ {Pick(s)}]
BY DEF IsFold

(* It determines the value of every finite set. *)
LEMMA FoldUnique ==
    ASSUME NEW f, NEW A, NEW B, NEW g, NEW h, IsFold(g, f, A), IsFold(h, f, B),
           NEW S, IsFiniteSet(S), S \subseteq A, S \subseteq B
    PROVE  g[S] = h[S]
<1> DEFINE F == {s \in SUBSET S : g[s] = h[s]}
<1>1. ASSUME NEW T \in SUBSET S, \A U \in SUBSET T : U # T => U \in F
      PROVE  T \in F
  <2>1. T \in SUBSET A /\ T \in SUBSET B
    OBVIOUS
  <2>2. CASE T = {}
    <3>1. g[T] = 0
      BY <2>2, FoldAt
    <3>2. h[T] = 0
      BY <2>2, FoldAt
    <3> QED
      BY <3>1, <3>2
  <2>3. CASE T # {}
    <3>1. T \ {Pick(T)} \in F
      BY <1>1, <2>3, PickIn
    <3>2. g[T \ {Pick(T)}] = h[T \ {Pick(T)}]
      BY <3>1
    <3>3. g[T] = f[Pick(T)] + g[T \ {Pick(T)}]
      BY <2>1, <2>3, FoldAt
    <3>4. h[T] = f[Pick(T)] + h[T \ {Pick(T)}]
      BY <2>1, <2>3, FoldAt
    <3> QED
      BY <3>2, <3>3, <3>4
  <2> QED
    BY <2>2, <2>3
<1> HIDE DEF F
<1>2. \A T \in SUBSET S : T \in F
  BY <1>1, SubsetInduction
<1> QED
  BY <1>2 DEF F

(* And there is such a function for every finite set. *)
LEMMA FoldExists ==
    ASSUME NEW f, NEW S, IsFiniteSet(S)
    PROVE  \E g : IsFold(g, f, S)
<1> DEFINE F == {s \in SUBSET S : \E g : IsFold(g, f, s)}
<1>1. ASSUME NEW T \in SUBSET S, \A U \in SUBSET T : U # T => U \in F
      PROVE  T \in F
  <2> DEFINE G == [U \in SUBSET T |-> CHOOSE g : IsFold(g, f, U)]
             h == [s \in SUBSET T |->
                     IF s = {} THEN 0
                     ELSE f[Pick(s)] + G[s \ {Pick(s)}][s \ {Pick(s)}]]
  <2>1. \A U \in SUBSET T : U # T => IsFold(G[U], f, U)
    <3> SUFFICES ASSUME NEW U \in SUBSET T, U # T PROVE IsFold(G[U], f, U)
      OBVIOUS
    <3>1. \E g : IsFold(g, f, U)
      BY <1>1
    <3> QED
      BY <3>1
  <2>2. ASSUME NEW u \in SUBSET T, u # T
        PROVE  h[u] = G[u][u]
    <3>1. IsFiniteSet(u)
      BY FS_Subset
    <3>2. G[u][u] = IF u = {} THEN 0 ELSE f[Pick(u)] + G[u][u \ {Pick(u)}]
      <4>1. IsFold(G[u], f, u)
        BY <2>1, <2>2
      <4> HIDE DEF G
      <4> QED
        BY <4>1, FoldAt
    <3>3. CASE u = {}
      BY <3>2, <3>3
    <3>4. CASE u # {}
      <4> DEFINE v == u \ {Pick(u)}
      <4>1. v \subseteq u /\ v \in SUBSET T /\ v # T
        BY <2>2
      <4>2. IsFiniteSet(v)
        BY <3>1, <4>1, FS_Subset
      <4>3. IsFold(G[u], f, u) /\ IsFold(G[v], f, v)
        BY <2>1, <2>2, <4>1
      <4> HIDE DEF G
      <4>4. G[u][v] = G[v][v]
        BY <4>1, <4>2, <4>3, FoldUnique
      <4> QED
        BY <3>2, <3>4, <4>4
    <3> QED
      BY <3>3, <3>4
  <2>3. \A s \in SUBSET T : s # {} =>
            G[s \ {Pick(s)}][s \ {Pick(s)}] = h[s \ {Pick(s)}]
    <3> SUFFICES ASSUME NEW s \in SUBSET T, s # {}
                 PROVE  G[s \ {Pick(s)}][s \ {Pick(s)}] = h[s \ {Pick(s)}]
      OBVIOUS
    <3>1. s \ {Pick(s)} \in SUBSET T /\ s \ {Pick(s)} # T
      BY PickIn
    <3> HIDE DEF G, h
    <3> QED
      BY <3>1, <2>2
  <2>4. h = [s \in SUBSET T |->
               IF s = {} THEN 0 ELSE f[Pick(s)] + h[s \ {Pick(s)}]]
    <3> DEFINE H(s) == IF s = {} THEN 0
                       ELSE f[Pick(s)] + G[s \ {Pick(s)}][s \ {Pick(s)}]
               K(s) == IF s = {} THEN 0 ELSE f[Pick(s)] + h[s \ {Pick(s)}]
    <3>1. \A s \in SUBSET T : H(s) = K(s)
      <4> HIDE DEF G, h
      <4> QED
        BY <2>3
    <3>2. h = [s \in SUBSET T |-> H(s)]
      OBVIOUS
    <3> HIDE DEF h, H, K
    <3>3. h = [s \in SUBSET T |-> K(s)]
      BY <3>1, <3>2
    <3> QED
      BY <3>3 DEF K
  <2> HIDE DEF h
  <2>5. IsFold(h, f, T)
    BY <2>4 DEF IsFold
  <2> QED
    BY <2>5
<1> HIDE DEF F
<1>2. \A T \in SUBSET S : T \in F
  BY <1>1, SubsetInduction
<1> QED
  BY <1>2 DEF F

-----------------------------------------------------------------------------
(* The sum over a finite set takes one element's value after the other. *)
LEMMA SumFold ==
    ASSUME NEW f, NEW S, IsFiniteSet(S)
    PROVE  \E g : IsFold(g, f, S) /\ SumFunctionOnSet(f, S) = g[S]
<1>1. SumFunctionOnSet(f, S) = (CHOOSE g : IsFold(g, f, S))[S]
  BY DEF SumFunctionOnSet, FoldFunctionOnSet, MapThenFoldSet, IsFold, Pick
<1>2. \E g : IsFold(g, f, S)
  BY FoldExists
<1>3. IsFold(CHOOSE g : IsFold(g, f, S), f, S)
  BY <1>2
<1> QED
  BY <1>1, <1>3

(* The sum over no element is 0. *)
LEMMA SumEmpty ==
    ASSUME NEW f
    PROVE  SumFunctionOnSet(f, {}) = 0
<1>1. IsFiniteSet({})
  BY FS_EmptySet
<1>2. PICK g : IsFold(g, f, {}) /\ SumFunctionOnSet(f, {}) = g[{}]
  BY <1>1, SumFold
<1>3. g[{}] = 0
  BY <1>2, FoldAt
<1> QED
  BY <1>2, <1>3

(* The sum over another set takes out the picked element first. *)
LEMMA SumPick ==
    ASSUME NEW f, NEW S, IsFiniteSet(S), S # {}
    PROVE  SumFunctionOnSet(f, S)
             = f[Pick(S)] + SumFunctionOnSet(f, S \ {Pick(S)})
<1> DEFINE R == S \ {Pick(S)}
<1>1. IsFiniteSet(R) /\ R \subseteq S
  BY FS_Subset
<1>2. PICK g : IsFold(g, f, S) /\ SumFunctionOnSet(f, S) = g[S]
  BY SumFold
<1>3. PICK h : IsFold(h, f, R) /\ SumFunctionOnSet(f, R) = h[R]
  BY <1>1, SumFold
<1>4. g[R] = h[R]
  BY <1>1, <1>2, <1>3, FoldUnique
<1>5. g[S] = f[Pick(S)] + g[R]
  BY <1>2, FoldAt
<1> QED
  BY <1>2, <1>3, <1>4, <1>5

(* A sum of integers is an integer. *)
LEMMA SumInt ==
    ASSUME NEW f, NEW S, IsFiniteSet(S), \A x \in S : f[x] \in Int
    PROVE  SumFunctionOnSet(f, S) \in Int
<1> DEFINE F == {T \in SUBSET S : SumFunctionOnSet(f, T) \in Int}
<1>1. ASSUME NEW T \in SUBSET S, \A U \in SUBSET T : U # T => U \in F
      PROVE  T \in F
  <2>1. CASE T = {}
    BY <2>1, SumEmpty
  <2>2. CASE T # {}
    <3>1. IsFiniteSet(T)
      BY FS_Subset
    <3>2. Pick(T) \in T
      BY <2>2, PickIn
    <3>3. SumFunctionOnSet(f, T \ {Pick(T)}) \in Int
      BY <1>1, <3>2
    <3>4. f[Pick(T)] \in Int
      BY <3>2
    <3>5. SumFunctionOnSet(f, T)
            = f[Pick(T)] + SumFunctionOnSet(f, T \ {Pick(T)})
      BY <2>2, <3>1, SumPick
    <3> QED
      BY <3>3, <3>4, <3>5
  <2> QED
    BY <2>1, <2>2
<1> HIDE DEF F
<1>2. \A T \in SUBSET S : T \in F
  BY <1>1, SubsetInduction
<1> QED
  BY <1>2 DEF F

(* It does not matter which element is taken out first. *)
LEMMA SumRemove ==
    ASSUME NEW f, NEW S, IsFiniteSet(S), \A x \in S : f[x] \in Int, NEW y \in S
    PROVE  SumFunctionOnSet(f, S) = f[y] + SumFunctionOnSet(f, S \ {y})
<1> DEFINE F == {T \in SUBSET S : \A z \in T :
                    SumFunctionOnSet(f, T) = f[z] + SumFunctionOnSet(f, T \ {z})}
<1>1. ASSUME NEW T \in SUBSET S, \A U \in SUBSET T : U # T => U \in F
      PROVE  T \in F
  <2> SUFFICES ASSUME NEW z \in T
               PROVE  SumFunctionOnSet(f, T) = f[z] + SumFunctionOnSet(f, T \ {z})
    OBVIOUS
  <2> DEFINE p == Pick(T)
             R == T \ {p}
             Q == T \ {z}
  <2>1. p \in T /\ IsFiniteSet(T)
    BY PickIn, FS_Subset
  <2>2. SumFunctionOnSet(f, T) = f[p] + SumFunctionOnSet(f, R)
    BY <2>1, SumPick
  <2> HIDE DEF p
  <2>3. CASE z = p
    BY <2>2, <2>3
  <2>4. CASE z # p
    <3>1. R \in F /\ Q \in F
      BY <1>1, <2>1
    <3>2. z \in R /\ p \in Q /\ R \ {z} = Q \ {p}
      BY <2>1, <2>4
    <3>3. SumFunctionOnSet(f, R) = f[z] + SumFunctionOnSet(f, R \ {z})
      BY <3>1, <3>2
    <3>4. SumFunctionOnSet(f, Q) = f[p] + SumFunctionOnSet(f, Q \ {p})
      BY <3>1, <3>2
    <3>5. IsFiniteSet(Q \ {p})
      BY <2>1, FS_Subset
    <3>6. SumFunctionOnSet(f, Q \ {p}) \in Int
      BY <3>5, SumInt
    <3>7. f[z] \in Int /\ f[p] \in Int
      BY <2>1
    <3> DEFINE rest == SumFunctionOnSet(f, Q \ {p})
    <3>8. SumFunctionOnSet(f, R) = f[z] + rest
      BY <3>2, <3>3
    <3> HIDE DEF R, Q
    <3>9. rest \in Int /\ SumFunctionOnSet(f, Q) = f[p] + rest
      BY <3>4, <3>6
    <3> HIDE DEF rest
    <3>10. SumFunctionOnSet(f, T) = f[z] + SumFunctionOnSet(f, Q)
      BY <2>2, <3>7, <3>8, <3>9
    <3> QED
      BY <3>10 DEF Q
  <2> QED
    BY <2>3, <2>4
<1> HIDE DEF F
<1>2. \A T \in SUBSET S : T \in F
  BY <1>1, SubsetInduction
<1>3. S \in F
  BY <1>2
<1> QED
  BY <1>3 DEF F

(* Functions that agree on a set have the same sum over it. *)
LEMMA SumSame ==
    ASSUME NEW f, NEW g, NEW S, IsFiniteSet(S), \A x \in S : f[x] = g[x]
    PROVE  SumFunctionOnSet(f, S) = SumFunctionOnSet(g, S)
<1> DEFINE F == {T \in SUBSET S : SumFunctionOnSet(f, T) = SumFunctionOnSet(g, T)}
<1>1. ASSUME NEW T \in SUBSET S, \A U \in SUBSET T : U # T => U \in F
      PROVE  T \in F
  <2>1. CASE T = {}
    BY <2>1, SumEmpty
  <2>2. CASE T # {}
    <3> DEFINE R == T \ {Pick(T)}
    <3>1. IsFiniteSet(T) /\ Pick(T) \in T
      BY <2>2, PickIn, FS_Subset
    <3>2. SumFunctionOnSet(f, T) = f[Pick(T)] + SumFunctionOnSet(f, R)
      BY <2>2, <3>1, SumPick
    <3>3. SumFunctionOnSet(g, T) = g[Pick(T)] + SumFunctionOnSet(g, R)
      BY <2>2, <3>1, SumPick
    <3>4. R \in F
      BY <1>1, <3>1
    <3> QED
      BY <3>1, <3>2, <3>3, <3>4
  <2> QED
    BY <2>1, <2>2
<1> HIDE DEF F
<1>2. \A T \in SUBSET S : T \in F
  BY <1>1, SubsetInduction
<1> QED
  BY <1>2 DEF F

(* A larger summand makes no smaller sum. *)
LEMMA SumMono ==
    ASSUME NEW f, NEW g, NEW S, IsFiniteSet(S),
           \A x \in S : f[x] \in Int /\ g[x] \in Int /\ f[x] <= g[x]
    PROVE  SumFunctionOnSet(f, S) <= SumFunctionOnSet(g, S)
<1> DEFINE F == {T \in SUBSET S : SumFunctionOnSet(f, T) <= SumFunctionOnSet(g, T)}
<1>1. ASSUME NEW T \in SUBSET S, \A U \in SUBSET T : U # T => U \in F
      PROVE  T \in F
  <2>1. CASE T = {}
    BY <2>1, SumEmpty
  <2>2. CASE T # {}
    <3> DEFINE R == T \ {Pick(T)}
    <3>1. IsFiniteSet(T) /\ Pick(T) \in T
      BY <2>2, PickIn, FS_Subset
    <3>2. SumFunctionOnSet(f, T) = f[Pick(T)] + SumFunctionOnSet(f, R)
      BY <2>2, <3>1, SumPick
    <3>3. SumFunctionOnSet(g, T) = g[Pick(T)] + SumFunctionOnSet(g, R)
      BY <2>2, <3>1, SumPick
    <3>4. R \in F
      BY <1>1, <3>1
    <3>5. IsFiniteSet(R) /\ R \subseteq S
      BY <3>1, FS_Subset
    <3>6. SumFunctionOnSet(f, R) \in Int
      BY <3>5, SumInt
    <3>7. SumFunctionOnSet(g, R) \in Int
      BY <3>5, SumInt
    <3>8. f[Pick(T)] \in Int /\ g[Pick(T)] \in Int /\ f[Pick(T)] <= g[Pick(T)]
      BY <3>1
    <3>9. SumFunctionOnSet(f, R) <= SumFunctionOnSet(g, R)
      BY <3>4
    <3> HIDE DEF R
    <3> QED
      BY <3>2, <3>3, <3>6, <3>7, <3>8, <3>9
  <2> QED
    BY <2>1, <2>2
<1> HIDE DEF F
<1>2. \A T \in SUBSET S : T \in F
  BY <1>1, SubsetInduction
<1> QED
  BY <1>2 DEF F

(* A sum of naturals is a natural. *)
LEMMA SumNat ==
    ASSUME NEW f, NEW S, IsFiniteSet(S), \A x \in S : f[x] \in Nat
    PROVE  SumFunctionOnSet(f, S) \in Nat
<1> DEFINE F == {T \in SUBSET S : SumFunctionOnSet(f, T) \in Nat}
<1>1. ASSUME NEW T \in SUBSET S, \A U \in SUBSET T : U # T => U \in F
      PROVE  T \in F
  <2>1. CASE T = {}
    BY <2>1, SumEmpty
  <2>2. CASE T # {}
    <3>1. IsFiniteSet(T) /\ Pick(T) \in T
      BY <2>2, PickIn, FS_Subset
    <3>2. SumFunctionOnSet(f, T \ {Pick(T)}) \in Nat
      BY <1>1, <3>1
    <3>3. f[Pick(T)] \in Nat
      BY <3>1
    <3>4. SumFunctionOnSet(f, T)
            = f[Pick(T)] + SumFunctionOnSet(f, T \ {Pick(T)})
      BY <2>2, <3>1, SumPick
    <3> QED
      BY <3>2, <3>3, <3>4
  <2> QED
    BY <2>1, <2>2
<1> HIDE DEF F
<1>2. \A T \in SUBSET S : T \in F
  BY <1>1, SubsetInduction
<1> QED
  BY <1>2 DEF F

(* Changing one value changes the sum by the difference. *)
LEMMA SumChange ==
    ASSUME NEW f, NEW g, NEW S, IsFiniteSet(S), NEW y \in S,
           \A x \in S : f[x] \in Int, \A x \in S \ {y} : g[x] = f[x], g[y] \in Int
    PROVE  SumFunctionOnSet(g, S) = SumFunctionOnSet(f, S) - f[y] + g[y]
<1> DEFINE R == S \ {y}
<1>1. \A x \in S : g[x] \in Int
  OBVIOUS
<1>2. IsFiniteSet(R)
  BY FS_Subset
<1>3. SumFunctionOnSet(f, S) = f[y] + SumFunctionOnSet(f, R)
  BY SumRemove
<1>4. SumFunctionOnSet(g, S) = g[y] + SumFunctionOnSet(g, R)
  BY <1>1, SumRemove
<1>5. SumFunctionOnSet(g, R) = SumFunctionOnSet(f, R)
  BY <1>2, SumSame
<1>6. SumFunctionOnSet(f, R) \in Int
  BY <1>2, SumInt
<1> HIDE DEF R
<1> QED
  BY <1>3, <1>4, <1>5, <1>6

(* The sum of zeros is 0. *)
LEMMA SumZero ==
    ASSUME NEW f, NEW S, IsFiniteSet(S), \A x \in S : f[x] = 0
    PROVE  SumFunctionOnSet(f, S) = 0
<1> DEFINE F == {T \in SUBSET S : SumFunctionOnSet(f, T) = 0}
<1>1. ASSUME NEW T \in SUBSET S, \A U \in SUBSET T : U # T => U \in F
      PROVE  T \in F
  <2>1. CASE T = {}
    BY <2>1, SumEmpty
  <2>2. CASE T # {}
    <3>1. IsFiniteSet(T) /\ Pick(T) \in T
      BY <2>2, PickIn, FS_Subset
    <3>2. SumFunctionOnSet(f, T \ {Pick(T)}) = 0
      BY <1>1, <3>1
    <3>3. SumFunctionOnSet(f, T)
            = f[Pick(T)] + SumFunctionOnSet(f, T \ {Pick(T)})
      BY <2>2, <3>1, SumPick
    <3> QED
      BY <3>1, <3>2, <3>3
  <2> QED
    BY <2>1, <2>2
<1> HIDE DEF F
<1>2. \A T \in SUBSET S : T \in F
  BY <1>1, SubsetInduction
<1> QED
  BY <1>2 DEF F

-----------------------------------------------------------------------------
(* The inductive invariant. *)

Controller ==
    [frozen : BOOLEAN, probing : BOOLEAN, epoch : {"none", "open", "closed"},
     allowance : Nat, base : Int, grants : [Nodes -> Nat], sheds : [Nodes -> Nat]]

Ticks == {Asleep} \cup [pc : {"trade", "mint"}, peer : Nodes \cup {NoNode}, want : Nat \ {0}]
Request == [from : Nodes, peer : Nodes, id : 1 .. lastId, want : Nat \ {0}]
Reply == [from : Nodes, to : Nodes, id : 1 .. lastId, slots : Nat \cup {NotOnJob}]
Grant == [to : Nodes, id : 1 .. lastId, slots : Nat]

(* The messages of trades, the records of what was booted, and the controller. *)
TradesOK ==
    /\ lastId \in Nat
    /\ tick \in [Nodes -> Ticks]
    /\ requests \subseteq Request
    /\ atLock \in [Nodes -> SUBSET Request]
    /\ answers \subseteq Reply
    /\ granting \in [Nodes -> {NoGrant} \cup Grant]
    /\ granted \in [Nodes -> [Nodes -> {NoGrant} \cup Grant]]

PlansOK ==
    /\ replaceId \in [Nodes -> Nat] /\ asked \in [Nodes -> Nat]
    /\ answered \in [Nodes -> BOOLEAN] /\ refused \in [Nodes -> BOOLEAN]
    /\ given \in [Nodes -> {NoGrant} \cup [to : Nodes, id : Nat \ {0}, slots : Nat]]

MintsOK == ctl \in Controller /\ unproven \in Int /\ ledger \in Int

Types == TypeOK /\ TradesOK /\ PlansOK /\ MintsOK

(* A node that is not on the job yet has no part in it. *)
Waiting(n) ==
    /\ alive[n] = 0 /\ busy[n] = 0 /\ booting[n] = 0 /\ asked[n] = 0
    /\ tick[n] = Asleep /\ minted[n] = -1 /\ granting[n] = NoGrant /\ atLock[n] = {}
    /\ target[n] >= 0 /\ (place[n] = "spare" => target[n] = 0)

Outside == \A n \in Nodes : place[n] \in {"spare", "booting"} => Waiting(n)

(* A watcher that waits for an answer has an open request, and an answer on its way
   is of that request. *)
Replacing == \A n \in Nodes :
    /\ asked[n] > 0 => replaceId[n] # 0
    /\ answered[n] => asked[n] > 0 /\ given[n].id = replaceId[n]

(* What a node may still count as granted to it, by an answer to its open trade or
   by a replay of it. *)
MayCredit(credit) ==
    /\ \A a \in answers : a.id = tradeId[a.to] => a.slots <= credit[a.to]
    /\ \A d, n \in Nodes : granted[d][n].id = tradeId[n] =>
           granted[d][n].slots <= credit[n]

Mints == [n \in Nodes |-> IF minted[n] > 0 THEN minted[n] ELSE 0]
Debts == [n \in Nodes |-> Owed(n)]

(* Slots are owned, on their way to a requester, or minted and on their way, and
   these are together no more than the job is entitled to. *)
Covered(credit) ==
    Total(target) + Total(credit) + Total(Mints) - Total(Debts) <= ledger

Conserved == \E credit \in [Nodes -> Nat] : MayCredit(credit) /\ Covered(credit)

(* An epoch is judged before the next one opens; a probe follows one that was not
   taken back. *)
Judged ==
    /\ ctl.frozen => ~ctl.probing /\ ctl.epoch = "none"
    /\ ~ctl.frozen /\ ~ctl.probing /\ ctl.epoch = "none" => unproven <= 2 * restarts
    /\ unproven <= 2 * restarts + (IF ctl.probing /\ ctl.epoch # "none" THEN 2 ELSE 1)
    /\ restarts \in Nat

IInv == Types /\ Outside /\ Replacing /\ Conserved /\ Judged
-----------------------------------------------------------------------------
(* The sum over the nodes. *)
LEMMA TotalIs ==
    ASSUME NEW f, DOMAIN f = Nodes
    PROVE  Total(f) = SumFunctionOnSet(f, Nodes)
BY DEF Total, SumFunction

(* It is an integer, or a natural number. *)
LEMMA TotalInt ==
    ASSUME NEW f \in [Nodes -> Int]
    PROVE  Total(f) \in Int
<1>1. Total(f) = SumFunctionOnSet(f, Nodes)
  BY TotalIs
<1> QED
  BY <1>1, NodesAssumption, SumInt

(* Of natural numbers it is a natural number. *)
LEMMA TotalNat ==
    ASSUME NEW f \in [Nodes -> Nat]
    PROVE  Total(f) \in Nat
<1>1. Total(f) = SumFunctionOnSet(f, Nodes)
  BY TotalIs
<1> QED
  BY <1>1, NodesAssumption, SumNat

(* What is changed at one node changes the sum by as much. *)
LEMMA TotalChange ==
    ASSUME NEW f \in [Nodes -> Int], NEW g \in [Nodes -> Int], NEW n \in Nodes,
           \A m \in Nodes \ {n} : g[m] = f[m]
    PROVE  Total(g) = Total(f) - f[n] + g[n]
<1>1. Total(f) = SumFunctionOnSet(f, Nodes) /\ Total(g) = SumFunctionOnSet(g, Nodes)
  BY TotalIs
<1>2. /\ IsFiniteSet(Nodes) /\ \A m \in Nodes : f[m] \in Int /\ g[n] \in Int
  BY NodesAssumption
<1>3. SumFunctionOnSet(g, Nodes) = SumFunctionOnSet(f, Nodes) - f[n] + g[n]
  BY <1>2, SumChange
<1> QED
  BY <1>1, <1>3

(* Nowhere less is in total not less. *)
LEMMA TotalMono ==
    ASSUME NEW f \in [Nodes -> Int], NEW g \in [Nodes -> Int],
           \A n \in Nodes : f[n] <= g[n]
    PROVE  Total(f) <= Total(g)
<1>1. Total(f) = SumFunctionOnSet(f, Nodes) /\ Total(g) = SumFunctionOnSet(g, Nodes)
  BY TotalIs
<1>2. SumFunctionOnSet(f, Nodes) <= SumFunctionOnSet(g, Nodes)
  BY NodesAssumption, SumMono
<1> QED
  BY <1>1, <1>2

(* Nothing is in total nothing. *)
LEMMA TotalZero ==
    ASSUME NEW f \in [Nodes -> Int], \A n \in Nodes : f[n] = 0
    PROVE  Total(f) = 0
<1>1. Total(f) = SumFunctionOnSet(f, Nodes)
  BY TotalIs
<1> QED
  BY <1>1, NodesAssumption, SumZero

(* An event leaves one event less. *)
LEMMA SpendType ==
    ASSUME TypeOK, NEW k \in Kinds, Spend(k)
    PROVE  may' \in [Kinds -> Nat]
BY DEF TypeOK, Spend

-----------------------------------------------------------------------------
(* The workers of a node start, finish and lose inputs within the types. *)
LEMMA WorkerType ==
    ASSUME Types, NEW n \in Nodes,
           \/ StartInput(n) \/ FinishInput(n) \/ RetireWorker(n)
           \/ PressureForgotten(n) \/ Readded(n) \/ ShedIdle(n)
    PROVE  Types'
<1> USE DEF nodeVars, tradeVars, replaceVars, mintVars
<1>1. TradesOK' /\ PlansOK' /\ MintsOK'
  BY DEF Types, TradesOK, PlansOK, MintsOK, Request, Reply, Grant, StartInput,
         FinishInput, RetireWorker, PressureForgotten, Readded, ShedIdle
<1>2. /\ alive[n] \in Nat /\ busy[n] \in Nat /\ busy[n] <= alive[n] /\ queue[n] \in Nat
      /\ booting[n] \in Nat /\ shedding[n] \in Int
  BY DEF Types, TypeOK
<1>3. CASE StartInput(n)
  BY <1>1, <1>2, <1>3 DEF Types, TypeOK, StartInput, Idle
<1>4. CASE FinishInput(n)
  <2>1. PICK k \in {0, 1} : /\ shedding' = [shedding EXCEPT ![n] = @ - k]
                            /\ alive' = [alive EXCEPT ![n] = @ - k]
    BY <1>4 DEF FinishInput
  <2>2. busy[n] > 0 /\ busy' = [busy EXCEPT ![n] = @ - 1]
    BY <1>4 DEF FinishInput
  <2>3. alive[n] - k \in Nat /\ busy[n] - 1 \in Nat /\ busy[n] - 1 <= alive[n] - k
    BY <1>2, <2>2
  <2>4. shedding[n] - k \in Int
    BY <1>2
  <2>5. UNCHANGED <<place, target, booting, queue, parked, pressured, tradeId, lastId,
                    minted, budget, ctl, may>>
    BY <1>4 DEF FinishInput
  <2>6. alive' \in [Nodes -> Nat] /\ shedding' \in [Nodes -> Int]
    BY <2>1, <2>3, <2>4 DEF Types, TypeOK
  <2>7. busy' \in [Nodes -> Nat] /\ \A x \in Nodes : busy'[x] <= alive'[x]
    BY <2>1, <2>2, <2>3 DEF Types, TypeOK
  <2> QED
    BY <1>1, <2>5, <2>6, <2>7 DEF Types, TypeOK
<1>5. CASE RetireWorker(n)
  <2>1. may' \in [Kinds -> Nat]
    BY <1>5, SpendType DEF RetireWorker, Types, Kinds
  <2>2. /\ alive[n] - 1 \in Nat /\ busy[n] - 1 \in Nat /\ busy[n] - 1 <= alive[n] - 1
        /\ queue[n] + 1 \in Nat
    BY <1>2, <1>5 DEF RetireWorker
  <2>3. /\ alive' \in [Nodes -> Nat] /\ queue' \in [Nodes -> Nat]
        /\ pressured' \in [Nodes -> BOOLEAN]
    BY <1>5, <2>2 DEF RetireWorker, Types, TypeOK
  <2>4. busy' \in [Nodes -> Nat] /\ \A x \in Nodes : busy'[x] <= alive'[x]
    BY <1>5, <2>2 DEF RetireWorker, Types, TypeOK
  <2>5. UNCHANGED <<place, target, booting, parked, shedding, tradeId, lastId,
                    minted, budget, ctl>>
    BY <1>5 DEF RetireWorker
  <2> QED
    BY <1>1, <2>1, <2>3, <2>4, <2>5 DEF Types, TypeOK
<1>6. CASE PressureForgotten(n)
  BY <1>1, <1>6 DEF Types, TypeOK, PressureForgotten
<1>7. CASE Readded(n)
  BY <1>1, <1>2, <1>7 DEF Types, TypeOK, Readded
<1>8. CASE ShedIdle(n)
  <2>1. ShedNow(n) \in Nat /\ ShedNow(n) <= Idle(n)
    BY <1>2, <1>8 DEF ShedIdle, ShedNow, Lesser, Idle
  <2>2. alive[n] - ShedNow(n) \in Nat /\ busy[n] <= alive[n] - ShedNow(n)
    BY <1>2, <2>1 DEF Idle
  <2>3. shedding[n] - ShedNow(n) \in Int
    BY <1>2, <2>1
  <2> HIDE DEF ShedNow
  <2> QED
    BY <1>1, <1>8, <2>2, <2>3 DEF Types, TypeOK, ShedIdle
<1> QED
  BY <1>3, <1>4, <1>5, <1>6, <1>7, <1>8

(* So do the re-adds, the parked inputs and the stranded check. *)
LEMMA ReaddType ==
    ASSUME Types, NEW n \in Nodes,
           \/ Readd(n) \/ SettleInput(n) \/ \E r \in Nodes : ParkInput(n, r)
           \/ ReclaimStranded(n)
    PROVE  Types'
<1> USE DEF nodeVars, tradeVars, replaceVars, mintVars
<1>1. TradesOK' /\ PlansOK' /\ UNCHANGED <<ctl, unproven, minted>>
  BY DEF Types, TradesOK, PlansOK, Request, Reply, Grant, Readd, SettleInput,
         ParkInput, ReclaimStranded
<1>2. /\ alive[n] \in Nat /\ busy[n] \in Nat /\ busy[n] <= alive[n] /\ queue[n] \in Nat
      /\ target[n] \in Int /\ ledger \in Int /\ Cpus \in Nat
  BY SizesAssumption DEF Types, TypeOK, MintsOK
<1>3. CASE Readd(n)
  <2>1. CASE /\ target[n] > alive[n]
             /\ \E k \in 1 .. (target[n] - alive[n]) :
                   booting' = [booting EXCEPT ![n] = k]
             /\ UNCHANGED <<target, ledger, may>>
    BY <1>1, <1>2, <1>3, <2>1 DEF Types, TypeOK, MintsOK, Readd
  <2>2. CASE /\ Spend("shocks")
             /\ target' = [target EXCEPT ![n] = @ + 1]
             /\ ledger' = ledger + 1
             /\ booting' = [booting EXCEPT ![n] = 1]
    <3>1. may' \in [Kinds -> Nat]
      BY <2>2, SpendType DEF Types, Kinds
    <3> QED
      BY <1>1, <1>2, <1>3, <2>2, <3>1 DEF Types, TypeOK, MintsOK, Readd
  <2> QED
    BY <1>3, <2>1, <2>2 DEF Readd
<1>4. CASE SettleInput(n)
  <2>1. may' \in [Kinds -> Nat]
    <3>1. Spend("losses") => may' \in [Kinds -> Nat]
      BY SpendType DEF Types, Kinds
    <3> QED
      BY <1>4, <3>1 DEF SettleInput, Types, TypeOK
  <2>2. parked[n] \in Nodes
    BY <1>4 DEF SettleInput, Types, TypeOK
  <2>3. queue' \in [Nodes -> Nat]
    BY <1>4, <2>2 DEF SettleInput, Types, TypeOK
  <2> QED
    BY <1>1, <1>4, <2>1, <2>3 DEF Types, TypeOK, MintsOK, SettleInput
<1>5. ASSUME NEW r \in Nodes, ParkInput(n, r)
      PROVE  Types'
  BY <1>1, <1>2, <1>5 DEF Types, TypeOK, MintsOK, ParkInput
<1>6. CASE ReclaimStranded(n)
  <2>1. Lesser(queue[n], Cpus) \in Int
    BY <1>2 DEF Lesser
  <2> HIDE DEF Lesser
  <2> QED
    BY <1>1, <1>2, <1>6, <2>1 DEF Types, TypeOK, MintsOK, ReclaimStranded
<1> QED
  BY <1>3, <1>4, <1>5, <1>6

(* A node that leaves drops its part of every exchange. *)
LEMMA LeaveType ==
    ASSUME Types, NEW n \in Nodes, LeaveJob(n)
    PROVE  Types'
<1> USE DEF nodeVars, tradeVars, replaceVars, mintVars
<1>1. PlansOK' /\ UNCHANGED <<busy, booting, queue, parked, pressured, tradeId, lastId,
                              requests, granting, granted, budget, ctl, unproven, may>>
  BY DEF Types, PlansOK, LeaveJob
<1>2. TradesOK'
  BY <1>1 DEF Types, TradesOK, Ticks, Request, Reply, Grant, LeaveJob
<1>3. MintsOK'
  BY <1>1 DEF Types, TypeOK, MintsOK, LeaveJob
<1>4. /\ place' \in [Nodes -> {"spare", "booting", "on", "left"}]
      /\ target' \in [Nodes -> Int] /\ alive' \in [Nodes -> Nat]
      /\ shedding' \in [Nodes -> Int] /\ minted' \in [Nodes -> Nat \cup {-1}]
  BY DEF Types, TypeOK, LeaveJob
<1>5. \A x \in Nodes : busy'[x] <= alive'[x]
  BY DEF Types, TypeOK, LeaveJob
<1> QED
  BY <1>1, <1>2, <1>3, <1>4, <1>5 DEF Types, TypeOK

(* A trade is asked for with an id that was handed out. *)
LEMMA BeginType ==
    ASSUME Types, NEW n \in Nodes, BeginTrade(n)
    PROVE  Types'
<1> USE DEF nodeVars, tradeVars, replaceVars, mintVars
<1>1. PICK d \in Nodes \ {n} :
          /\ tradeId' = [tradeId EXCEPT ![n] = IF @ = 0 THEN lastId + 1 ELSE @]
          /\ lastId' = Greater(lastId, tradeId'[n])
          /\ tick' = [tick EXCEPT ![n] = [pc |-> "trade", peer |-> d,
                                          want |-> queue[n] - alive[n]]]
          /\ requests' = requests \cup
                {[from |-> n, peer |-> d, id |-> tradeId'[n],
                  want |-> queue[n] - alive[n]]}
  BY DEF BeginTrade
<1>2. /\ lastId \in Nat /\ tradeId \in [Nodes -> 0 .. lastId]
      /\ queue[n] - alive[n] \in Nat \ {0}
  BY DEF Types, TypeOK, TradesOK, BeginTrade, Hungry
<1>3. /\ tradeId'[n] \in 1 .. lastId' /\ lastId' \in Nat /\ lastId <= lastId'
  BY <1>1, <1>2 DEF Greater
<1>4. tradeId' \in [Nodes -> 0 .. lastId']
  BY <1>1, <1>2, <1>3
<1>5. /\ UNCHANGED <<place, target, alive, busy, booting, queue, parked, shedding,
                     pressured, minted, budget, ctl, unproven, ledger>>
      /\ PlansOK' /\ UNCHANGED <<atLock, answers, granting, granted>>
  BY DEF BeginTrade, Types, PlansOK
<1>6. may' \in [Kinds -> Nat]
  BY SpendType DEF BeginTrade, Types, Kinds
<1>7. 1 .. lastId \subseteq 1 .. lastId'
  BY <1>2, <1>3
<1>8. Request \subseteq Request' /\ Reply \subseteq Reply' /\ Grant \subseteq Grant'
  BY <1>7 DEF Request, Reply, Grant
<1>9. requests' \subseteq Request'
  BY <1>1, <1>2, <1>3, <1>8 DEF Types, TradesOK, Request
<1>10. tick' \in [Nodes -> Ticks]
  BY <1>1, <1>2 DEF Types, TradesOK, Ticks
<1>11. atLock' \in [Nodes -> SUBSET Request'] /\ answers' \subseteq Reply'
  BY <1>5, <1>8 DEF Types, TradesOK
<1>12. /\ granting' \in [Nodes -> {NoGrant} \cup Grant']
       /\ granted' \in [Nodes -> [Nodes -> {NoGrant} \cup Grant']]
  <2> HIDE DEF Grant
  <2> QED
    BY <1>5, <1>8 DEF Types, TradesOK
<1>13. TradesOK'
  BY <1>3, <1>9, <1>10, <1>11, <1>12 DEF TradesOK
<1> QED
  BY <1>4, <1>5, <1>6, <1>13 DEF Types, TypeOK, MintsOK

(* So is a mint by a node that is alone, and one that is not granted. *)
LEMMA TickType ==
    ASSUME Types, NEW n \in Nodes, NobodyToAsk(n) \/ SkipMint(n) \/ TradeFails(n)
    PROVE  Types'
<1> USE DEF nodeVars, tradeVars, replaceVars, mintVars
<1>1. /\ PlansOK'
      /\ UNCHANGED <<place, target, alive, busy, booting, queue, parked, shedding,
                     pressured, minted, budget, ctl, unproven, ledger, tradeId,
                     lastId, atLock, granting, granted>>
  BY DEF NobodyToAsk, SkipMint, TradeFails, Types, PlansOK
<1>2. tick' \in [Nodes -> Ticks]
  <2>1. CASE NobodyToAsk(n)
    <3>1. queue[n] - alive[n] \in Nat \ {0}
      BY <2>1 DEF Types, TypeOK, NobodyToAsk, Hungry
    <3> QED
      BY <2>1, <3>1 DEF Types, TradesOK, Ticks, NobodyToAsk
  <2> QED
    BY <2>1 DEF Types, TradesOK, Ticks, SkipMint, TradeFails
<1>3. requests' \subseteq requests /\ answers' \subseteq answers
  BY DEF NobodyToAsk, SkipMint, TradeFails
<1>4. may' \in [Kinds -> Nat]
  <2>1. Spend("losses") => may' \in [Kinds -> Nat]
    BY SpendType DEF Types, Kinds
  <2> QED
    BY <2>1 DEF NobodyToAsk, SkipMint, TradeFails, Types, TypeOK
<1>5. TradesOK'
  BY <1>1, <1>2, <1>3 DEF Types, TradesOK, Request, Reply, Grant
<1> QED
  BY <1>1, <1>4, <1>5 DEF Types, TypeOK, MintsOK

(* A donor answers, at once or when it has the lock. *)
LEMMA ArrivesType ==
    ASSUME Types, NEW m \in requests, TradeArrives(m)
    PROVE  Types' /\ m \in Request
<1> USE DEF nodeVars, tradeVars, replaceVars, mintVars
<1>1. m \in Request
  BY DEF Types, TradesOK
<1>2. /\ PlansOK'
      /\ UNCHANGED <<place, target, alive, busy, booting, queue, parked, shedding,
                     pressured, minted, budget, ctl, unproven, ledger, may, tradeId,
                     lastId, tick, granting, granted>>
  BY DEF TradeArrives, Types, PlansOK
<1>3. requests' \subseteq Request
  BY DEF TradeArrives, Types, TradesOK
<1>4. answers' \subseteq Reply
  <2>1. \A slots \in {NotOnJob, 0} : Answer(m, slots) \in Reply
    BY <1>1 DEF Answer, Request, Reply, NotOnJob
  <2>2. ReplayedGrant(m) => Answer(m, granted[m.peer][m.from].slots) \in Reply
    <3>1. granted[m.peer][m.from] \in {NoGrant} \cup Grant
      BY <1>1 DEF Types, TradesOK, Request
    <3>2. granted[m.peer][m.from].slots \in Nat
      BY <3>1 DEF NoGrant, Grant
    <3> QED
      BY <1>1, <3>2 DEF Answer, Request, Reply
  <2> QED
    BY <2>1, <2>2 DEF TradeArrives, Types, TradesOK
<1>5. atLock' \in [Nodes -> SUBSET Request]
  BY <1>1 DEF TradeArrives, Types, TradesOK, Request
<1>6. TradesOK'
  BY <1>2, <1>3, <1>4, <1>5 DEF Types, TradesOK, Request, Reply, Grant
<1> QED
  BY <1>1, <1>2, <1>6 DEF Types, TypeOK, MintsOK

(* What changes hands is recorded and answered. *)
LEMMA HandOverType ==
    ASSUME Types, NEW d \in Nodes, NEW g \in Grant, HandOver(d, g)
    PROVE  /\ target' \in [Nodes -> Int]
           /\ granted' \in [Nodes -> [Nodes -> {NoGrant} \cup Grant]]
           /\ answers' \subseteq Reply
<1>1. g.to \in Nodes /\ g.id \in 1 .. lastId /\ g.slots \in Nat
  BY DEF Grant
<1>2. target' \in [Nodes -> Int]
  BY <1>1 DEF HandOver, Types, TypeOK
<1>3. granted' \in [Nodes -> [Nodes -> {NoGrant} \cup Grant]]
  <2> HIDE DEF Grant
  <2> QED
    BY <1>1 DEF HandOver, Types, TradesOK
<1>4. [from |-> d, to |-> g.to, id |-> g.id, slots |-> g.slots] \in Reply
  BY <1>1 DEF Reply
<1>5. answers' \subseteq Reply
  BY <1>4 DEF HandOver, Types, TradesOK
<1> QED
  BY <1>2, <1>3, <1>5

(* The requester of the grant under the lock, and what it gets: no worker that runs
   an input is killed for it. *)
LEMMA GrantParts ==
    ASSUME Types, NEW d \in Nodes, NEW m, GrantTrade(d, m)
    PROVE  /\ m \in Request /\ m \in atLock[d]
           /\ \E killed \in Nat, g \in Grant :
                 /\ g.to = m.from /\ g.id = m.id
                 /\ killed <= Idle(d)
                 /\ alive' = [alive EXCEPT ![d] = @ - killed]
                 /\ \/ HandOver(d, g) /\ UNCHANGED granting
                    \/ /\ granting' = [granting EXCEPT ![d] = g]
                       /\ UNCHANGED <<target, granted, answers>>
<1>1. m \in Request /\ m \in atLock[d]
  BY DEF GrantTrade, Types, TradesOK
<1>2. PICK drained \in {FALSE, queue[d] = 0} :
        LET unbacked == Lesser(m.want, Unbacked(d))
            killed == IF drained THEN Lesser(m.want - unbacked, Idle(d)) ELSE 0
            g == [to |-> m.from, id |-> m.id, slots |-> unbacked + killed]
        IN /\ alive' = [alive EXCEPT ![d] = @ - killed]
           /\ \/ killed = 0 /\ HandOver(d, g) /\ UNCHANGED granting
              \/ /\ killed > 0
                 /\ granting' = [granting EXCEPT ![d] = g]
                 /\ UNCHANGED <<target, granted, answers>>
  BY DEF GrantTrade
<1> DEFINE unbacked == Lesser(m.want, Unbacked(d))
           killed == IF drained THEN Lesser(m.want - unbacked, Idle(d)) ELSE 0
           g == [to |-> m.from, id |-> m.id, slots |-> unbacked + killed]
<1>3. m.want \in Nat /\ m.from \in Nodes /\ m.id \in 1 .. lastId
  BY <1>1 DEF Request
<1>4. alive[d] \in Nat /\ busy[d] \in Nat /\ busy[d] <= alive[d] /\ target[d] \in Int
  BY DEF Types, TypeOK
<1>5. Unbacked(d) \in Nat
  BY <1>4 DEF Unbacked, Greater
<1>6. unbacked \in Nat /\ unbacked <= m.want
  BY <1>3, <1>5 DEF Lesser
<1>7. Idle(d) \in Nat
  BY <1>4 DEF Idle
<1> HIDE DEF unbacked
<1>8. killed \in Nat /\ killed <= Idle(d)
  BY <1>3, <1>6, <1>7 DEF Lesser
<1> HIDE DEF killed
<1>9. g \in Grant /\ g.to = m.from /\ g.id = m.id
  BY <1>3, <1>6, <1>8 DEF Grant
<1>10. /\ alive' = [alive EXCEPT ![d] = @ - killed]
       /\ \/ HandOver(d, g) /\ UNCHANGED granting
          \/ /\ granting' = [granting EXCEPT ![d] = g]
             /\ UNCHANGED <<target, granted, answers>>
  BY <1>2 DEF killed, unbacked
<1> HIDE DEF g
<1> QED
  BY <1>1, <1>8, <1>9, <1>10

(* Slots change hands within the types. *)
LEMMA GrantType ==
    ASSUME Types, NEW d \in Nodes, NEW m, GrantTrade(d, m)
    PROVE  Types'
<1> USE DEF nodeVars, tradeVars, replaceVars, mintVars
<1>1. PICK killed \in Nat, g \in Grant :
          /\ killed <= Idle(d)
          /\ alive' = [alive EXCEPT ![d] = @ - killed]
          /\ \/ HandOver(d, g) /\ UNCHANGED granting
             \/ /\ granting' = [granting EXCEPT ![d] = g]
                /\ UNCHANGED <<target, granted, answers>>
  BY GrantParts
<1>2. /\ PlansOK'
      /\ UNCHANGED <<place, busy, booting, queue, parked, shedding, pressured, minted,
                     budget, ctl, unproven, ledger, may, tradeId, lastId, tick, requests>>
  BY DEF GrantTrade, Types, PlansOK
<1>3. /\ target' \in [Nodes -> Int]
      /\ granted' \in [Nodes -> [Nodes -> {NoGrant} \cup Grant]]
      /\ answers' \subseteq Reply
      /\ granting' \in [Nodes -> {NoGrant} \cup Grant]
  <2> HIDE DEF Grant, Reply
  <2>1. CASE HandOver(d, g) /\ UNCHANGED granting
    BY <2>1, HandOverType DEF Types, TradesOK
  <2>2. CASE granting' = [granting EXCEPT ![d] = g] /\ UNCHANGED <<target, granted, answers>>
    BY <2>2 DEF Types, TypeOK, TradesOK
  <2> QED
    BY <1>1, <2>1, <2>2
<1>4. atLock' \in [Nodes -> SUBSET Request]
  <2> HIDE DEF Request
  <2> QED
    BY DEF GrantTrade, Types, TradesOK
<1>5. alive' \in [Nodes -> Nat] /\ \A x \in Nodes : busy'[x] <= alive'[x]
  BY <1>1, <1>2 DEF Types, TypeOK, Idle
<1>6. TradesOK'
  BY <1>2, <1>3, <1>4 DEF Types, TradesOK, Request, Reply, Grant
<1> QED
  BY <1>2, <1>3, <1>5, <1>6 DEF Types, TypeOK, MintsOK

(* So they do when the killed workers are gone. *)
LEMMA SettlesType ==
    ASSUME Types, NEW d \in Nodes, TradeSettles(d)
    PROVE  Types' /\ granting[d] \in Grant
<1> USE DEF nodeVars, tradeVars, replaceVars, mintVars
<1>1. granting[d] \in Grant
  BY DEF TradeSettles, Types, TradesOK
<1>2. /\ PlansOK'
      /\ UNCHANGED <<place, alive, busy, booting, queue, parked, shedding, pressured,
                     minted, budget, ctl, unproven, ledger, may, tradeId, lastId, tick,
                     requests, atLock>>
  BY DEF TradeSettles, Types, PlansOK
<1>3. /\ target' \in [Nodes -> Int]
      /\ granted' \in [Nodes -> [Nodes -> {NoGrant} \cup Grant]]
      /\ answers' \subseteq Reply
  BY <1>1, HandOverType DEF TradeSettles
<1>4. granting' \in [Nodes -> {NoGrant} \cup Grant]
  BY DEF TradeSettles, Types, TradesOK
<1>5. TradesOK'
  BY <1>2, <1>3, <1>4 DEF Types, TradesOK, Request, Reply, Grant
<1> QED
  BY <1>1, <1>2, <1>3, <1>5 DEF Types, TypeOK, MintsOK

(* An answer is counted once, or dropped. *)
LEMMA AnswerType ==
    ASSUME Types, NEW a \in answers, NEW n \in Nodes,
           TradeAnswered(n, a) \/ AnswerDropped(a)
    PROVE  Types' /\ a \in Reply
<1> USE DEF nodeVars, tradeVars, replaceVars, mintVars
<1>1. a \in Reply /\ a.slots \in Int
  BY DEF Types, TradesOK, Reply, NotOnJob
<1>2. /\ PlansOK'
      /\ UNCHANGED <<place, alive, busy, booting, queue, parked, shedding, pressured,
                     minted, budget, ctl, unproven, ledger, may, lastId, requests,
                     atLock, granting, granted>>
  BY DEF TradeAnswered, AnswerDropped, Types, PlansOK
<1>3. answers' \subseteq answers
  BY DEF TradeAnswered, AnswerDropped
<1>4. /\ tradeId' \in [Nodes -> 0 .. lastId] /\ target' \in [Nodes -> Int]
      /\ tick' \in [Nodes -> Ticks]
  <2>1. CASE AnswerDropped(a)
    BY <2>1 DEF AnswerDropped, Types, TypeOK, TradesOK
  <2>2. CASE TradeAnswered(n, a)
    <3>1. tick[n] \in Ticks /\ tick[n].pc = "trade"
      BY <2>2 DEF TradeAnswered, Awaited, Types, TradesOK
    <3> DEFINE Open == [pc : {"trade", "mint"}, peer : Nodes \cup {NoNode}, want : Nat \ {0}]
               rest == tick[n].want - a.slots
    <3>2. tick[n] \in Open
      BY <3>1 DEF Ticks, Asleep
    <3>3. rest \in Int
      BY <1>1, <3>2
    <3>4. tick' \in [Nodes -> Ticks]
      <4> HIDE DEF rest
      <4>1. \A v \in Nat \ {0} : [tick[n] EXCEPT !.pc = "mint", !.want = v] \in Open
        BY <3>2
      <4>2. tick' = [tick EXCEPT ![n] =
                  IF a.slots = NotOnJob \/ rest <= 0 THEN Asleep
                  ELSE [tick[n] EXCEPT !.pc = "mint", !.want = rest]]
        BY <2>2 DEF TradeAnswered, rest
      <4>3. rest <= 0 \/ rest \in Nat \ {0}
        BY <3>3
      <4> QED
        BY <4>1, <4>2, <4>3 DEF Ticks, Types, TradesOK
    <3>5. target' \in [Nodes -> Int]
      BY <1>1, <2>2 DEF TradeAnswered, Greater, Types, TypeOK
    <3>6. tradeId' \in [Nodes -> 0 .. lastId]
      BY <2>2 DEF TradeAnswered, Types, TypeOK, TradesOK
    <3> QED
      BY <3>4, <3>5, <3>6
  <2> QED
    BY <2>1, <2>2
<1>5. TradesOK'
  BY <1>2, <1>3, <1>4 DEF Types, TradesOK, Request, Reply, Grant
<1> QED
  BY <1>1, <1>2, <1>4, <1>5 DEF Types, TypeOK, MintsOK

(* Replacement nodes are asked for, planned within the budget, and answered. *)
LEMMA ReplaceType ==
    ASSUME Types, Outside, Replacing, NEW n \in Nodes,
           \/ AskReplacement(n) \/ BootReplacement(n) \/ ReplacementAnswered(n)
           \/ ReplacementFails(n) \/ ReplacementJoins(n)
    PROVE  Types'
<1> USE DEF nodeVars, tradeVars, replaceVars, mintVars
<1>1. /\ TradesOK'
      /\ UNCHANGED <<busy, booting, queue, parked, shedding, pressured, minted,
                     tradeId, lastId, ctl, unproven>>
  BY DEF AskReplacement, BootReplacement, ReplacementAnswered, ReplacementFails,
         ReplacementJoins, Types, TradesOK, Request, Reply, Grant
<1>2. /\ alive[n] \in Nat /\ booting[n] \in Nat /\ target[n] \in Int /\ ledger \in Int
      /\ budget \in 0 .. GrowBudget /\ GrowBudget \in Nat
      /\ replaceId[n] \in Nat /\ asked[n] \in Nat /\ given[n].slots \in Nat
      /\ asked[n] > 0 => replaceId[n] # 0
  BY SizesAssumption DEF Types, TypeOK, PlansOK, MintsOK, Replacing, NoGrant
<1>3. may' \in [Kinds -> Nat]
  <2>1. \A k \in Kinds : Spend(k) => may' \in [Kinds -> Nat]
    BY SpendType DEF Types
  <2>2. "replacements" \in Kinds /\ "losses" \in Kinds
    BY DEF Kinds
  <2>3. UNCHANGED may \/ Spend("replacements") \/ Spend("losses")
    BY DEF AskReplacement, BootReplacement, ReplacementAnswered, ReplacementFails,
           ReplacementJoins
  <2> QED
    BY <2>1, <2>2, <2>3 DEF Types, TypeOK
<1>4. CASE AskReplacement(n)
  <2>1. may["replacements"] \in Nat /\ Deficit(n) \in Nat
    BY <1>2, <1>4 DEF AskReplacement, Deficit, Types, TypeOK, Kinds
  <2>2. PlansOK'
    <3> HIDE DEF Deficit
    <3> QED
      BY <1>4, <2>1 DEF AskReplacement, Types, PlansOK
  <2> QED
    BY <1>1, <1>3, <1>4, <2>2 DEF AskReplacement, Types, TypeOK, MintsOK
<1>5. CASE BootReplacement(n)
  <2>1. CASE /\ \E s \in Nodes :
                LET slots == Lesser(asked[n], budget)
                IN /\ place[s] = "spare"
                   /\ place' = [place EXCEPT ![s] = "booting"]
                   /\ target' = [target EXCEPT ![s] = slots]
                   /\ budget' = budget - slots
                   /\ given' = [given EXCEPT ![n] =
                                  [to |-> s, id |-> replaceId[n], slots |-> slots]]
             /\ answered' = [answered EXCEPT ![n] = TRUE]
             /\ UNCHANGED <<refused, replaceId, asked>>
    <3> DEFINE slots == Lesser(asked[n], budget)
    <3>1. slots \in Nat /\ slots <= budget
      BY <1>2 DEF Lesser
    <3>2. replaceId[n] \in Nat \ {0}
      BY <1>2, <1>5 DEF BootReplacement
    <3>3. PICK s \in Nodes :
             /\ place' = [place EXCEPT ![s] = "booting"]
             /\ target' = [target EXCEPT ![s] = slots]
             /\ budget' = budget - slots
             /\ given' = [given EXCEPT ![n] =
                            [to |-> s, id |-> replaceId[n], slots |-> slots]]
      BY <2>1
    <3> HIDE DEF slots
    <3>4. PlansOK'
      BY <2>1, <3>1, <3>2, <3>3 DEF Types, PlansOK
    <3>5. UNCHANGED <<alive, may, ledger>>
      BY <1>5 DEF BootReplacement
    <3> QED
      BY <1>1, <1>2, <3>1, <3>3, <3>4, <3>5 DEF Types, TypeOK, MintsOK
  <2>2. CASE UNCHANGED <<place, target, given, budget>>
    <3>1. /\ \/ answered' = [answered EXCEPT ![n] = TRUE] /\ UNCHANGED <<refused, replaceId, asked>>
             \/ /\ refused' = [refused EXCEPT ![n] = TRUE]
                /\ replaceId' = [replaceId EXCEPT ![n] = 0]
                /\ asked' = [asked EXCEPT ![n] = 0]
                /\ UNCHANGED answered
          /\ UNCHANGED <<given, alive, ledger, may>>
      BY <1>2, <1>5, <2>2 DEF BootReplacement
    <3>2. PlansOK'
      <4>1. /\ answered' \in [Nodes -> BOOLEAN] /\ refused' \in [Nodes -> BOOLEAN]
        BY <3>1 DEF Types, PlansOK
      <4>2. replaceId' \in [Nodes -> Nat] /\ asked' \in [Nodes -> Nat]
        BY <3>1 DEF Types, PlansOK
      <4> QED
        BY <3>1, <4>1, <4>2 DEF Types, PlansOK
    <3> QED
      BY <1>1, <2>2, <3>1, <3>2 DEF Types, TypeOK, MintsOK
  <2> QED
    BY <1>5, <2>1, <2>2 DEF BootReplacement
<1>6. CASE ReplacementAnswered(n)
  <2>1. PlansOK'
    BY <1>6 DEF ReplacementAnswered, Types, PlansOK
  <2>2. target' \in [Nodes -> Int]
    BY <1>2, <1>6 DEF ReplacementAnswered, Types, TypeOK
  <2> QED
    BY <1>1, <1>6, <2>1, <2>2 DEF ReplacementAnswered, Types, TypeOK, MintsOK
<1>7. CASE ReplacementFails(n)
  <2>1. PlansOK'
    BY <1>7 DEF ReplacementFails, Types, PlansOK
  <2> QED
    BY <1>1, <1>3, <1>7, <2>1 DEF ReplacementFails, Types, TypeOK, MintsOK
<1>8. CASE ReplacementJoins(n)
  <2>1. PlansOK' /\ UNCHANGED budget
    BY <1>8 DEF ReplacementJoins, Types, PlansOK
  <2>2. CASE /\ place' = [place EXCEPT ![n] = "on"]
             /\ alive' = [alive EXCEPT ![n] = target[n]]
             /\ UNCHANGED <<target, ledger, may>>
    <3>1. target[n] \in Nat /\ busy[n] = 0
      BY <1>2, <1>8 DEF ReplacementJoins, Outside, Waiting
    <3> QED
      BY <1>1, <1>2, <2>1, <2>2, <3>1 DEF Types, TypeOK, MintsOK
  <2>3. CASE /\ place' = [place EXCEPT ![n] = "left"]
             /\ target' = [target EXCEPT ![n] = 0]
             /\ ledger' = ledger - target[n]
             /\ UNCHANGED alive
    BY <1>1, <1>2, <1>3, <2>1, <2>3 DEF Types, TypeOK, MintsOK
  <2> QED
    BY <1>8, <2>2, <2>3 DEF ReplacementJoins
<1> QED
  BY <1>4, <1>5, <1>6, <1>7, <1>8

-----------------------------------------------------------------------------
(* The mint controller. *)

(* Its parts, and the worker counts it works with. *)
LEMMA ControllerParts ==
    ASSUME Types
    PROVE  /\ ctl \in Controller /\ ctl.allowance \in Nat
           /\ ctl.grants \in [Nodes -> Nat] /\ ctl.sheds \in [Nodes -> Nat]
           /\ Workers \in Nat /\ EpochGrants \in Nat
           /\ BaseAllowance \in Nat \ {0} /\ ProbeAllowance \in Nat \ {0}
<1>1. ctl \in Controller
  BY DEF Types, MintsOK
<1>2. ctl.grants \in [Nodes -> Nat] /\ ctl.sheds \in [Nodes -> Nat] /\ ctl.allowance \in Nat
  BY <1>1 DEF Controller
<1>3. Workers \in Nat
  BY TotalNat DEF Workers, Types, TypeOK
<1>4. EpochGrants \in Nat
  BY <1>2, TotalNat DEF EpochGrants
<1> QED
  BY <1>1, <1>2, <1>3, <1>4, SizesAssumption

(* A verdict that freezes leaves a controller. *)
LEMMA FrozenType ==
    ASSUME Types, NEW taken \in BOOLEAN
    PROVE  /\ Frozen(taken) \in Controller
           /\ Frozen(taken).frozen /\ ~Frozen(taken).probing /\ Frozen(taken).epoch = "none"
<1>1. ctl \in Controller /\ ctl.grants \in [Nodes -> Nat] /\ ctl.sheds \in [Nodes -> Nat]
  BY ControllerParts
<1> DEFINE none == [n \in Nodes |-> 0]
           sheds == [n \in Nodes |-> ctl.sheds[n] + IF taken THEN ctl.grants[n] ELSE 0]
<1>2. none \in [Nodes -> Nat] /\ sheds \in [Nodes -> Nat]
  BY <1>1
<1>3. Frozen(taken) = [ctl EXCEPT !.frozen = TRUE, !.probing = FALSE, !.allowance = 0,
                         !.epoch = "none", !.grants = none, !.sheds = sheds]
  BY DEF Frozen
<1> HIDE DEF none, sheds
<1>4. [ctl EXCEPT !.frozen = TRUE, !.probing = FALSE, !.allowance = 0,
                  !.epoch = "none", !.grants = none, !.sheds = sheds] \in Controller
  BY <1>1, <1>2 DEF Controller
<1>5. /\ Frozen(taken).frozen = TRUE /\ Frozen(taken).probing = FALSE
      /\ Frozen(taken).epoch = "none"
  BY <1>1, <1>3 DEF Controller
<1> QED
  BY <1>3, <1>4, <1>5

(* So does a grant that opens an epoch. *)
LEMMA OpenedType ==
    ASSUME Types
    PROVE  /\ Opened \in Controller /\ Opened.epoch = "open"
           /\ Opened.probing = ctl.probing /\ Opened.frozen = ctl.frozen
<1>1. ctl \in Controller /\ Workers \in Int /\ BaseAllowance \in Nat /\ ctl.allowance \in Nat
  BY ControllerParts
<1>2. CASE ctl.epoch = "open"
  BY <1>1, <1>2 DEF Opened
<1>3. CASE ctl.epoch # "open"
  <2> DEFINE none == [n \in Nodes |-> 0]
             more == IF ctl.probing THEN ctl.allowance ELSE Greater(ctl.allowance, BaseAllowance)
  <2>1. none \in [Nodes -> Nat] /\ more \in Nat
    BY <1>1 DEF Greater
  <2>2. Opened = [ctl EXCEPT !.epoch = "open", !.base = Workers, !.allowance = more,
                            !.grants = none]
    BY <1>3 DEF Opened
  <2> HIDE DEF none, more, Workers
  <2> QED
    BY <1>1, <2>1, <2>2 DEF Controller
<1> QED
  BY <1>2, <1>3

(* Grants, answers, verdicts and restarts leave a controller. *)
LEMMA MintType ==
    ASSUME Types, NEW n \in Nodes, AskMint(n) \/ MintAnswered(n) \/ PushAnswered(n)
    PROVE  Types'
<1> USE DEF nodeVars, tradeVars, replaceVars, mintVars
<1>1. /\ PlansOK' /\ UNCHANGED <<place, alive, busy, booting, queue, parked, pressured,
                                 budget, tradeId, lastId>>
  BY DEF AskMint, MintAnswered, PushAnswered, Types, PlansOK
<1>2. TradesOK'
  BY DEF AskMint, MintAnswered, PushAnswered, Types, TradesOK, Ticks, Request, Reply, Grant
<1>3. may' \in [Kinds -> Nat]
  <2>1. \A k \in Kinds : Spend(k) => may' \in [Kinds -> Nat]
    BY SpendType DEF Types
  <2>2. "epochs" \in Kinds /\ "losses" \in Kinds
    BY DEF Kinds
  <2>3. UNCHANGED may \/ Spend("epochs") \/ Spend("losses")
    BY DEF AskMint, MintAnswered, PushAnswered
  <2> QED
    BY <2>1, <2>2, <2>3 DEF Types, TypeOK
<1>4. CASE AskMint(n)
  <2>1. PICK k \in 1 .. tick[n].want :
          LET slots == Lesser(k, Opened.allowance)
          IN /\ ctl' = [Opened EXCEPT !.allowance = @ - slots, !.grants[n] = slots]
             /\ minted' = [minted EXCEPT ![n] = slots]
             /\ ledger' = ledger + slots
    BY <1>4 DEF AskMint
  <2> DEFINE slots == Lesser(k, Opened.allowance)
             o == Opened
  <2>2. o \in Controller
    BY OpenedType
  <2>3. k \in Nat /\ o.allowance \in Nat /\ o.grants \in [Nodes -> Nat]
    BY <2>2 DEF Controller
  <2>4. slots \in Nat /\ o.allowance - slots \in Nat
    BY <2>3 DEF Lesser
  <2>5. /\ ctl' = [o EXCEPT !.allowance = o.allowance - slots,
                            !.grants = [o.grants EXCEPT ![n] = slots]]
        /\ minted' = [minted EXCEPT ![n] = slots] /\ ledger' = ledger + slots
    BY <2>1
  <2> HIDE DEF slots, o
  <2>6. [o.grants EXCEPT ![n] = slots] \in [Nodes -> Nat]
    BY <2>3, <2>4
  <2>7. ctl' \in Controller
    <3> DEFINE rest == o.allowance - slots
               grown == [o.grants EXCEPT ![n] = slots]
    <3>1. rest \in Nat /\ grown \in [Nodes -> Nat]
      BY <2>4, <2>6
    <3> HIDE DEF rest, grown
    <3>2. [o EXCEPT !.allowance = rest, !.grants = grown] \in Controller
      BY <2>2, <3>1 DEF Controller
    <3> QED
      BY <2>5, <3>2 DEF rest, grown
  <2>8. minted' \in [Nodes -> Nat \cup {-1}] /\ ledger' \in Int
    BY <2>4, <2>5 DEF Types, TypeOK, MintsOK
  <2>9. unproven' \in Int /\ UNCHANGED <<target, shedding>>
    <3>1. /\ unproven' = unproven + 1 \/ unproven' = unproven
          /\ UNCHANGED <<target, shedding>>
      BY <1>4, Zenon DEF AskMint
    <3> QED
      BY <3>1 DEF Types, MintsOK
  <2> QED
    BY <1>1, <1>2, <1>3, <2>7, <2>8, <2>9 DEF Types, TypeOK, MintsOK, Controller
<1>5. CASE MintAnswered(n)
  <2>1. target' \in [Nodes -> Int]
    BY <1>5 DEF MintAnswered, Types, TypeOK
  <2>2. minted' \in [Nodes -> Nat \cup {-1}]
    BY <1>5 DEF MintAnswered, Types, TypeOK
  <2> QED
    BY <1>1, <1>2, <1>3, <1>5, <2>1, <2>2 DEF MintAnswered, Types, TypeOK, MintsOK
<1>6. CASE PushAnswered(n)
  <2>1. ctl \in Controller /\ ctl.sheds \in [Nodes -> Nat] /\ ctl.sheds[n] \in Nat
    BY ControllerParts
  <2>2. Lesser(ctl.sheds[n], target[n]) \in Int
    BY <2>1 DEF Lesser, Types, TypeOK
  <2> HIDE DEF Lesser
  <2>3. /\ target' \in [Nodes -> Int] /\ shedding' \in [Nodes -> Int] /\ ledger' \in Int
    BY <1>6, <2>2 DEF PushAnswered, Types, TypeOK, MintsOK
  <2>4. ctl' \in Controller
    <3> DEFINE left == [ctl.sheds EXCEPT ![n] = 0]
    <3>1. ctl' = [ctl EXCEPT !.sheds = left] /\ left \in [Nodes -> Nat]
      BY <1>6, <2>1 DEF PushAnswered
    <3> HIDE DEF left
    <3> QED
      BY <2>1, <3>1 DEF Controller
  <2>5. UNCHANGED <<minted, unproven>>
    BY <1>6 DEF PushAnswered
  <2> QED
    BY <1>1, <1>2, <1>3, <2>3, <2>4, <2>5 DEF Types, TypeOK, MintsOK, Controller
<1> QED
  BY <1>4, <1>5, <1>6

(* A new job, and a restarted head, begin with a controller. *)
LEMMA NewControllerType == NewController \in Controller
<1> DEFINE none == [n \in Nodes |-> 0]
<1>1. none \in [Nodes -> Nat] /\ BaseAllowance \in Nat
  BY SizesAssumption
<1>2. NewController = [frozen |-> FALSE, probing |-> FALSE, epoch |-> "none",
                       allowance |-> BaseAllowance, base |-> 0, grants |-> none,
                       sheds |-> none]
  BY DEF NewController
<1> HIDE DEF none
<1> QED
  BY <1>1, <1>2 DEF Controller

(* The verdict of an epoch, its window and its probe leave a controller. *)
LEMMA VerdictType ==
    ASSUME Types,
           WindowCloses \/ NoEvidence \/ Verified \/ FallsShort \/ ProbeOpens \/ HeadRestarts
    PROVE  Types'
<1> USE DEF nodeVars, tradeVars, replaceVars, mintVars
<1>1. /\ PlansOK' /\ TradesOK'
      /\ UNCHANGED <<place, target, alive, busy, booting, queue, parked, shedding,
                     pressured, budget, tradeId, lastId, minted, ledger>>
  BY DEF WindowCloses, NoEvidence, Verified, FallsShort, ProbeOpens, HeadRestarts,
         Types, PlansOK, TradesOK, Request, Reply, Grant
<1>2. may' \in [Kinds -> Nat]
  <2>1. Spend("shocks") => may' \in [Kinds -> Nat]
    BY SpendType DEF Types, Kinds
  <2> QED
    BY <2>1 DEF WindowCloses, NoEvidence, Verified, FallsShort, ProbeOpens,
                HeadRestarts, Types, TypeOK
<1>3. unproven' \in Int
  <2>1. unproven' \in {unproven, unproven - 1, 0}
    <3>1. CASE NoEvidence
      BY <3>1 DEF NoEvidence
    <3>2. CASE FallsShort
      BY <3>2, Zenon DEF FallsShort
    <3>3. CASE Verified
      BY <3>3, Zenon DEF Verified
    <3>4. CASE WindowCloses \/ ProbeOpens \/ HeadRestarts
      BY <3>4, Zenon DEF WindowCloses, ProbeOpens, HeadRestarts
    <3> QED
      BY <3>1, <3>2, <3>3, <3>4
  <2> QED
    BY <2>1 DEF Types, MintsOK
<1>4. ctl' \in Controller
  <2>1. ctl \in Controller /\ Workers \in Nat /\ EpochGrants \in Nat
        /\ BaseAllowance \in Nat /\ ProbeAllowance \in Nat
    BY ControllerParts
  <2>2. CASE NoEvidence \/ FallsShort
    <3>1. TakesBack(TRUE) \in BOOLEAN /\ TakesBack(FALSE) \in BOOLEAN
      BY <2>1 DEF TakesBack, Controller
    <3> HIDE DEF Controller
    <3> QED
      BY <2>2, <3>1, FrozenType DEF NoEvidence, FallsShort
  <2>3. CASE Verified
    <3> DEFINE none == [x \in Nodes |-> 0]
    <3>1. HalfOf(Workers) \in Nat
      BY <2>1 DEF HalfOf
    <3>2. PICK multiplier \in {2, 4} :
            ctl' = [ctl EXCEPT !.probing = FALSE, !.epoch = "none", !.grants = none,
                      !.allowance = Lesser(Greater(BaseAllowance, multiplier * EpochGrants),
                                           HalfOf(Workers))]
      BY <2>3 DEF Verified
    <3> DEFINE more == Lesser(Greater(BaseAllowance, multiplier * EpochGrants),
                              HalfOf(Workers))
    <3>3. multiplier * EpochGrants \in Nat
      BY <2>1, <3>2
    <3>4. more \in Nat /\ none \in [Nodes -> Nat]
      BY <2>1, <3>1, <3>3 DEF Lesser, Greater
    <3> HIDE DEF none, more
    <3>5. [ctl EXCEPT !.probing = FALSE, !.epoch = "none", !.grants = none,
                      !.allowance = more] \in Controller
      BY <2>1, <3>4 DEF Controller
    <3> QED
      BY <3>2, <3>5 DEF more
  <2>4. CASE WindowCloses
    BY <2>1, <2>4 DEF WindowCloses, Controller
  <2>5. CASE ProbeOpens
    BY <2>1, <2>5 DEF ProbeOpens, Controller
  <2>6. CASE HeadRestarts
    BY <2>6, NewControllerType DEF HeadRestarts
  <2> QED
    BY <2>2, <2>3, <2>4, <2>5, <2>6
<1> QED
  BY <1>1, <1>2, <1>3, <1>4 DEF Types, TypeOK, MintsOK, Controller

-----------------------------------------------------------------------------
(* Only the node a step is of changes its part in the job, and it is on the job or
   was. *)
PartIs(n) ==
    <<alive[n], busy[n], booting[n], asked[n], tick[n], minted[n], granting[n],
      atLock[n], target[n], place[n]>>

(* Where only a node that is on the job changes, the others stay outside. *)
LEMMA OutsideFrame ==
    ASSUME Types, Outside, NEW n \in Nodes,
           \A x \in Nodes \ {n} : PartIs(x)' = PartIs(x),
           place'[n] \notin {"spare", "booting"} \/ PartIs(n)' = PartIs(n)
    PROVE  Outside'
BY DEF Outside, Waiting, PartIs

(* No step makes a node that is not on the job take part in it. *)
LEMMA OutsideStep ==
    ASSUME Types, Outside, Replacing, Next
    PROVE  Outside'
<1> USE DEF nodeVars, tradeVars, replaceVars, mintVars
<1>1. ASSUME NEW n \in Nodes,
             \/ StartInput(n) \/ FinishInput(n) \/ RetireWorker(n) \/ PressureForgotten(n)
             \/ Readd(n) \/ Readded(n) \/ SettleInput(n) \/ ShedIdle(n)
             \/ ReclaimStranded(n) \/ LeaveJob(n) \/ \E r \in Nodes : ParkInput(n, r)
      PROVE  Outside'
  <2>1. \A x \in Nodes \ {n} : PartIs(x)' = PartIs(x)
    BY <1>1 DEF PartIs, StartInput, FinishInput, RetireWorker, PressureForgotten, Readd,
           Readded, SettleInput, ShedIdle, ReclaimStranded, LeaveJob, ParkInput,
           Types, TypeOK, TradesOK, PlansOK
  <2>2. CASE \/ StartInput(n) \/ RetireWorker(n) \/ Readd(n) \/ ShedIdle(n)
             \/ ReclaimStranded(n) \/ LeaveJob(n)
    <3>1. place'[n] \notin {"spare", "booting"}
      BY <2>2 DEF StartInput, RetireWorker, Readd, ShedIdle, ReclaimStranded, LeaveJob,
             WatcherRuns, Types, TypeOK
    <3> QED
      BY <2>1, <3>1, OutsideFrame
  <2>3. CASE FinishInput(n) \/ Readded(n)
    <3>1. place'[n] \notin {"spare", "booting"}
      BY <2>3 DEF FinishInput, Readded, Outside, Waiting
    <3> QED
      BY <2>1, <3>1, OutsideFrame
  <2>4. CASE PressureForgotten(n) \/ SettleInput(n) \/ \E r \in Nodes : ParkInput(n, r)
    <3>1. PartIs(n)' = PartIs(n)
      BY <2>4 DEF PressureForgotten, SettleInput, ParkInput, PartIs
    <3> QED
      BY <2>1, <3>1, OutsideFrame
  <2> QED
    BY <1>1, <2>2, <2>3, <2>4
<1>2. ASSUME NEW n \in Nodes,
             \/ BeginTrade(n) \/ NobodyToAsk(n) \/ TradeSettles(n) \/ TradeFails(n)
             \/ AskMint(n) \/ SkipMint(n) \/ MintAnswered(n) \/ PushAnswered(n)
             \/ \E m \in atLock[n] : GrantTrade(n, m)
             \/ \E a \in answers : TradeAnswered(n, a)
      PROVE  Outside'
  <2>1. UNCHANGED place
    BY <1>2 DEF BeginTrade, NobodyToAsk, TradeSettles, TradeFails, AskMint, SkipMint,
           MintAnswered, PushAnswered, GrantTrade, TradeAnswered
  <2>2. place[n] \notin {"spare", "booting"}
    <3>1. CASE BeginTrade(n) \/ NobodyToAsk(n) \/ PushAnswered(n)
      BY <3>1 DEF BeginTrade, NobodyToAsk, Hungry, PushAnswered
    <3>2. CASE TradeSettles(n) \/ TradeFails(n) \/ AskMint(n) \/ SkipMint(n) \/ MintAnswered(n)
      <4>1. granting[n] # NoGrant \/ tick[n].pc \in {"trade", "mint"} \/ minted[n] >= 0
        BY <3>2, Zenon DEF TradeSettles, TradeFails, AskMint, SkipMint, MintAnswered
      <4> QED
        BY <4>1 DEF Outside, Waiting, Asleep
    <3>3. CASE \E m \in atLock[n] : GrantTrade(n, m)
      BY <3>3 DEF Outside, Waiting
    <3>4. CASE \E a \in answers : TradeAnswered(n, a)
      BY <3>4 DEF TradeAnswered, Awaited, Outside, Waiting, Asleep
    <3> QED
      BY <1>2, <3>1, <3>2, <3>3, <3>4
  <2>3. \A x \in Nodes \ {n} : PartIs(x)' = PartIs(x)
    <3>1. CASE \E m \in atLock[n] : GrantTrade(n, m)
      BY <3>1 DEF GrantTrade, HandOver, PartIs, Types, TypeOK, TradesOK, PlansOK
    <3>2. CASE \E a \in answers : TradeAnswered(n, a)
      BY <3>2 DEF TradeAnswered, PartIs, Types, TypeOK, TradesOK, PlansOK
    <3>3. CASE BeginTrade(n) \/ NobodyToAsk(n) \/ TradeSettles(n) \/ TradeFails(n)
      BY <3>3 DEF BeginTrade, NobodyToAsk, TradeSettles, TradeFails, HandOver,
             PartIs, Types, TypeOK, TradesOK, PlansOK
    <3>4. CASE AskMint(n) \/ SkipMint(n) \/ MintAnswered(n) \/ PushAnswered(n)
      BY <3>4 DEF AskMint, SkipMint, MintAnswered, PushAnswered, PartIs,
             Types, TypeOK, TradesOK, PlansOK
    <3> QED
      BY <1>2, <3>1, <3>2, <3>3, <3>4
  <2> QED
    BY <2>1, <2>2, <2>3, OutsideFrame
<1>3. ASSUME NEW n \in Nodes,
             AskReplacement(n) \/ ReplacementAnswered(n) \/ ReplacementFails(n)
             \/ ReplacementJoins(n)
      PROVE  Outside'
  <2>1. \A x \in Nodes \ {n} : PartIs(x)' = PartIs(x)
    BY <1>3 DEF AskReplacement, ReplacementAnswered, ReplacementFails, ReplacementJoins,
           PartIs, Types, TypeOK, TradesOK, PlansOK
  <2>2. place'[n] \notin {"spare", "booting"}
    BY <1>3 DEF AskReplacement, WatcherRuns, ReplacementAnswered, ReplacementFails,
           ReplacementJoins, Types, TypeOK, Outside, Waiting, Replacing
  <2> QED
    BY <2>1, <2>2, OutsideFrame
<1>4. ASSUME NEW n \in Nodes, BootReplacement(n)
      PROVE  Outside'
  <2>1. UNCHANGED <<alive, busy, booting, tick, minted, granting, atLock>>
    BY <1>4 DEF BootReplacement
  <2>2. place[n] \notin {"spare", "booting"}
    BY <1>4 DEF BootReplacement, Outside, Waiting, Types, PlansOK
  <2>3. \A x \in Nodes \ {n} : asked'[x] = asked[x]
    BY <1>4 DEF BootReplacement, Types, PlansOK
  <2>4. CASE UNCHANGED <<place, target>>
    <3>1. \A x \in Nodes \ {n} : PartIs(x)' = PartIs(x)
      BY <2>1, <2>3, <2>4 DEF PartIs
    <3> QED
      BY <2>2, <2>4, <3>1, OutsideFrame
  <2>5. CASE \E s \in Nodes :
                LET slots == Lesser(asked[n], budget)
                IN /\ place[s] = "spare"
                   /\ place' = [place EXCEPT ![s] = "booting"]
                   /\ target' = [target EXCEPT ![s] = slots]
    <3>1. PICK s \in Nodes :
             /\ place[s] = "spare"
             /\ place' = [place EXCEPT ![s] = "booting"]
             /\ target' = [target EXCEPT ![s] = Lesser(asked[n], budget)]
      BY <2>5
    <3>2. Lesser(asked[n], budget) >= 0
      BY SizesAssumption DEF Lesser, Types, TypeOK, PlansOK
    <3>3. Lesser(asked[n], budget) \in Int
      BY SizesAssumption DEF Lesser, Types, TypeOK, PlansOK
    <3> HIDE DEF Lesser
    <3>4. \A x \in Nodes : x # s => place'[x] = place[x] /\ target'[x] = target[x]
      BY <3>1 DEF Types, TypeOK
    <3>5. place'[s] = "booting" /\ target'[s] >= 0
      BY <3>1, <3>2, <3>3 DEF Types, TypeOK
    <3>6. s # n
      BY <2>2, <3>1
    <3>7. Waiting(s)
      BY <3>1 DEF Outside
    <3>8. Waiting(s)'
      BY <2>1, <2>3, <3>5, <3>6, <3>7 DEF Waiting
    <3>9. \A x \in Nodes \ {s, n} : Waiting(x) => Waiting(x)'
      BY <2>1, <2>3, <3>4 DEF Waiting
    <3>10. place'[n] \notin {"spare", "booting"}
      BY <2>2, <3>4, <3>6
    <3> QED
      BY <3>4, <3>8, <3>9, <3>10 DEF Outside
  <2> QED
    BY <1>4, <2>4, <2>5 DEF BootReplacement
<1>5. ASSUME NEW m \in requests, TradeArrives(m)
      PROVE  Outside'
  <2>1. m.peer \in Nodes
    BY DEF Types, TradesOK, Request
  <2>2. \A x \in Nodes \ {m.peer} : PartIs(x)' = PartIs(x)
    BY <1>5, <2>1 DEF TradeArrives, PartIs, Types, TradesOK
  <2>3. place'[m.peer] \notin {"spare", "booting"} \/ PartIs(m.peer)' = PartIs(m.peer)
    BY <1>5 DEF TradeArrives, PartIs
  <2> QED
    BY <2>1, <2>2, <2>3, OutsideFrame
<1>6. CASE \/ \E a \in answers : AnswerDropped(a)
           \/ WindowCloses \/ NoEvidence \/ Verified \/ FallsShort \/ ProbeOpens
           \/ HeadRestarts
  <2>1. \A x \in Nodes : PartIs(x)' = PartIs(x)
    BY <1>6 DEF AnswerDropped, WindowCloses, NoEvidence, Verified, FallsShort, ProbeOpens,
           HeadRestarts, PartIs
  <2> QED
    BY <2>1 DEF Outside, Waiting, PartIs
<1> QED
  BY <1>1, <1>2, <1>3, <1>4, <1>5, <1>6 DEF Next

-----------------------------------------------------------------------------
(* Replacements: a request stays open until its answer was given, and the answer is
   the record of that request. *)
LEMMA ReplacingStep ==
    ASSUME Types, Replacing, Next
    PROVE  Replacing'
<1> USE DEF nodeVars, tradeVars, replaceVars, mintVars
<1>1. ASSUME NEW n \in Nodes, AskReplacement(n)
      PROVE  Replacing'
  <2>1. may["replacements"] > 0 /\ asked[n] = 0
    BY <1>1 DEF AskReplacement, Spend, WatcherRuns
  <2>2. may["replacements"] \in Nat
    BY DEF Types, TypeOK, Kinds
  <2>3. replaceId' = [replaceId EXCEPT ![n] =
                        IF replaceId[n] = 0 THEN may["replacements"] ELSE replaceId[n]]
    BY <1>1 DEF AskReplacement
  <2>4. \A x \in Nodes \ {n} : asked'[x] = asked[x]
    BY <1>1 DEF AskReplacement, Types, PlansOK
  <2>5. UNCHANGED <<answered, given>>
    BY <1>1 DEF AskReplacement
  <2> QED
    BY <2>1, <2>2, <2>3, <2>4, <2>5 DEF Replacing, Types, PlansOK
<1>2. ASSUME NEW n \in Nodes, BootReplacement(n)
      PROVE  Replacing'
  <2>1. asked[n] > 0 /\ ~answered[n]
    BY <1>2 DEF BootReplacement
  <2>2. CASE /\ Replanned(n)
             /\ answered' = [answered EXCEPT ![n] = TRUE]
             /\ UNCHANGED <<place, target, given, budget, refused, replaceId, asked>>
    BY <2>1, <2>2 DEF Replacing, Replanned, Types, PlansOK
  <2>3. CASE /\ \E s \in Nodes : \E slots : given' = [given EXCEPT ![n] =
                                  [to |-> s, id |-> replaceId[n], slots |-> slots]]
             /\ answered' = [answered EXCEPT ![n] = TRUE]
             /\ UNCHANGED <<refused, replaceId, asked>>
    <3>1. given'[n].id = replaceId[n]
      BY <2>3 DEF Types, PlansOK
    <3>2. \A x \in Nodes \ {n} : given'[x] = given[x]
      BY <2>3 DEF Types, PlansOK
    <3> QED
      BY <2>1, <2>3, <3>1, <3>2 DEF Replacing, Types, PlansOK
  <2>4. CASE /\ replaceId' = [replaceId EXCEPT ![n] = 0]
             /\ asked' = [asked EXCEPT ![n] = 0]
             /\ UNCHANGED <<given, answered>>
    BY <2>1, <2>4 DEF Replacing, Types, PlansOK
  <2> QED
    BY <1>2, <2>2, <2>3, <2>4 DEF BootReplacement
<1>3. ASSUME NEW n \in Nodes, ReplacementAnswered(n) \/ ReplacementFails(n)
      PROVE  Replacing'
  <2>1. asked' = [asked EXCEPT ![n] = 0] /\ answered' = [answered EXCEPT ![n] = FALSE]
        /\ UNCHANGED given
    BY <1>3 DEF ReplacementAnswered, ReplacementFails
  <2>2. \A x \in Nodes \ {n} : replaceId'[x] = replaceId[x]
    BY <1>3 DEF ReplacementAnswered, ReplacementFails, Types, PlansOK
  <2> QED
    BY <2>1, <2>2 DEF Replacing, Types, PlansOK
<1>4. CASE UNCHANGED <<asked, answered, replaceId, given>>
  BY <1>4 DEF Replacing
<1> HIDE DEF nodeVars, tradeVars, mintVars
<1>5. ASSUME NEW n \in Nodes,
             \/ StartInput(n) \/ FinishInput(n) \/ RetireWorker(n) \/ PressureForgotten(n)
             \/ Readd(n) \/ Readded(n) \/ SettleInput(n) \/ ShedIdle(n)
             \/ ReclaimStranded(n) \/ LeaveJob(n) \/ \E r \in Nodes : ParkInput(n, r)
             \/ BeginTrade(n) \/ NobodyToAsk(n) \/ TradeSettles(n) \/ TradeFails(n)
             \/ AskMint(n) \/ SkipMint(n) \/ MintAnswered(n) \/ PushAnswered(n)
             \/ \E m \in atLock[n] : GrantTrade(n, m)
             \/ \E a \in answers : TradeAnswered(n, a)
             \/ ReplacementJoins(n)
      PROVE  UNCHANGED <<asked, answered, replaceId, given>>
  BY <1>5, Zenon DEF StartInput, FinishInput, RetireWorker, PressureForgotten, Readd,
         Readded, SettleInput, ShedIdle, ReclaimStranded, LeaveJob, ParkInput,
         BeginTrade, NobodyToAsk, TradeSettles, TradeFails, AskMint, SkipMint,
         MintAnswered, PushAnswered, GrantTrade, TradeAnswered, ReplacementJoins
<1>6. ASSUME \/ \E m \in requests : TradeArrives(m)
             \/ \E a \in answers : AnswerDropped(a)
             \/ WindowCloses \/ NoEvidence \/ Verified \/ FallsShort \/ ProbeOpens
             \/ HeadRestarts
      PROVE  UNCHANGED <<asked, answered, replaceId, given>>
  BY <1>6, Zenon DEF TradeArrives, AnswerDropped, WindowCloses, NoEvidence, Verified, FallsShort,
         ProbeOpens, HeadRestarts
<1> QED
  BY <1>1, <1>2, <1>3, <1>4, <1>5, <1>6 DEF Next

-----------------------------------------------------------------------------
(* The verdicts: an epoch that proved nothing is taken back before the next opens. *)
LEMMA JudgedStep ==
    ASSUME Types, Judged, Next
    PROVE  Judged'
<1> USE DEF nodeVars, tradeVars, replaceVars, mintVars
<1>1. ctl \in Controller /\ unproven \in Int /\ restarts \in Nat
  BY DEF Types, MintsOK, Judged
<1>2. ASSUME NEW n \in Nodes, AskMint(n)
      PROVE  Judged'
  <2>1. /\ ~ctl.frozen /\ ctl.epoch \in {"none", "open"}
        /\ \/ ctl.epoch = "none" /\ unproven' = unproven + 1
           \/ ctl.epoch = "open" /\ unproven' = unproven
        /\ UNCHANGED restarts
    BY <1>2, Zenon DEF AskMint, Grantable
  <2>2. Opened \in Controller /\ Opened.epoch = "open" /\ Opened.probing = ctl.probing
        /\ Opened.frozen = ctl.frozen
    BY OpenedType
  <2>3. ctl'.frozen = Opened.frozen /\ ctl'.probing = Opened.probing
        /\ ctl'.epoch = Opened.epoch
    <3>1. PICK more, some : ctl' = [Opened EXCEPT !.allowance = more, !.grants = some]
      <4>1. PICK slots : ctl' = [Opened EXCEPT !.allowance = @ - slots, !.grants[n] = slots]
        BY <1>2, Zenon DEF AskMint
      <4>2. ctl' = [Opened EXCEPT !.allowance = Opened.allowance - slots,
                                  !.grants = [Opened.grants EXCEPT ![n] = slots]]
        BY <4>1
      <4> QED
        BY <4>2, Zenon
    <3> HIDE DEF Opened
    <3> QED
      BY <2>2, <3>1 DEF Controller
  <2> QED
    BY <1>1, <2>1, <2>2, <2>3 DEF Judged, Controller
<1>3. ASSUME NEW n \in Nodes, PushAnswered(n)
      PROVE  Judged'
  <2>1. ctl'.frozen = ctl.frozen /\ ctl'.probing = ctl.probing /\ ctl'.epoch = ctl.epoch
    BY <1>1, <1>3 DEF PushAnswered, Controller
  <2>2. UNCHANGED <<unproven, restarts>>
    BY <1>3 DEF PushAnswered
  <2> QED
    BY <2>1, <2>2 DEF Judged
<1>4. CASE WindowCloses
  <2>1. ctl.epoch = "open" /\ ctl' = [ctl EXCEPT !.epoch = "closed"]
        /\ UNCHANGED <<unproven, restarts>>
    BY <1>4 DEF WindowCloses
  <2> QED
    BY <1>1, <2>1 DEF Judged, Controller
<1>5. CASE NoEvidence
  <2>1. ctl.epoch = "closed" /\ ctl' = Frozen(TRUE) /\ unproven' = unproven - 1
        /\ UNCHANGED restarts
    BY <1>5 DEF NoEvidence
  <2>2. ctl'.frozen /\ ~ctl'.probing /\ ctl'.epoch = "none"
    BY <2>1, FrozenType
  <2>3. unproven - 1 <= 2 * restarts + 1
    BY <1>1, <2>1 DEF Judged
  <2> QED
    BY <1>1, <2>1, <2>2, <2>3 DEF Judged
<1>6. CASE Verified
  <2>1. ctl'.probing = FALSE /\ ctl'.epoch = "none" /\ ctl'.frozen = ctl.frozen
        /\ unproven' = 0 /\ restarts' = 0 /\ ctl.epoch = "closed"
    <3>1. PICK none, more : ctl' = [ctl EXCEPT !.probing = FALSE, !.epoch = "none",
                                      !.grants = none, !.allowance = more]
      BY <1>6, Zenon DEF Verified
    <3> QED
      BY <1>1, <1>6, <3>1 DEF Verified, Controller
  <2> QED
    BY <2>1 DEF Judged
<1>7. CASE FallsShort
  <2>1. PICK harmful \in BOOLEAN :
          /\ ctl' = Frozen(TakesBack(harmful))
          /\ unproven' = IF TakesBack(harmful) THEN unproven - 1 ELSE unproven
          /\ UNCHANGED restarts
    BY <1>7 DEF FallsShort
  <2>2. TakesBack(harmful) \in BOOLEAN /\ ctl.probing \in BOOLEAN
    BY <1>1 DEF TakesBack, Controller
  <2>3. ctl'.frozen /\ ~ctl'.probing /\ ctl'.epoch = "none"
    BY <2>1, <2>2, FrozenType
  <2>4. ctl.epoch = "closed" /\ (~TakesBack(harmful) => ~ctl.probing)
    BY <1>7 DEF FallsShort, TakesBack
  <2> HIDE DEF TakesBack
  <2> QED
    BY <1>1, <2>1, <2>2, <2>3, <2>4 DEF Judged
<1>8. CASE ProbeOpens
  BY <1>1, <1>8 DEF ProbeOpens, Judged, Controller
<1>9. CASE HeadRestarts
  BY <1>1, <1>9 DEF HeadRestarts, NewController, Judged
<1>10. CASE UNCHANGED <<ctl, unproven, restarts>>
  BY <1>10 DEF Judged
<1>11. ASSUME NEW n \in Nodes,
             \/ StartInput(n) \/ FinishInput(n) \/ RetireWorker(n) \/ PressureForgotten(n)
             \/ Readd(n) \/ Readded(n) \/ SettleInput(n) \/ ShedIdle(n)
             \/ ReclaimStranded(n) \/ LeaveJob(n) \/ \E r \in Nodes : ParkInput(n, r)
             \/ BeginTrade(n) \/ NobodyToAsk(n) \/ TradeSettles(n) \/ TradeFails(n)
             \/ SkipMint(n) \/ MintAnswered(n)
             \/ \E m \in atLock[n] : GrantTrade(n, m)
             \/ \E a \in answers : TradeAnswered(n, a)
             \/ AskReplacement(n) \/ BootReplacement(n) \/ ReplacementAnswered(n)
             \/ ReplacementFails(n) \/ ReplacementJoins(n)
      PROVE  UNCHANGED <<ctl, unproven, restarts>>
  BY <1>11, Zenon DEF StartInput, FinishInput, RetireWorker, PressureForgotten, Readd,
         Readded, SettleInput, ShedIdle, ReclaimStranded, LeaveJob, ParkInput,
         BeginTrade, NobodyToAsk, TradeSettles, TradeFails, SkipMint,
         MintAnswered, GrantTrade, TradeAnswered, AskReplacement, BootReplacement,
         ReplacementAnswered, ReplacementFails, ReplacementJoins
<1>12. ASSUME \/ \E m \in requests : TradeArrives(m)
             \/ \E a \in answers : AnswerDropped(a)
      PROVE  UNCHANGED <<ctl, unproven, restarts>>
  BY <1>12 DEF TradeArrives, AnswerDropped
<1> QED
  BY <1>2, <1>3, <1>4, <1>5, <1>6, <1>7, <1>8, <1>9, <1>10, <1>11, <1>12 DEF Next

-----------------------------------------------------------------------------
(* Slots.  The four sums of the invariant are sums of integers, before and after a
   step. *)
LEMMA SumsAre ==
    ASSUME Types
    PROVE  /\ target \in [Nodes -> Int] /\ Mints \in [Nodes -> Int]
           /\ Debts \in [Nodes -> Int]
           /\ Total(target) \in Int /\ Total(Mints) \in Int /\ Total(Debts) \in Int
           /\ ledger \in Int
<1>1. target \in [Nodes -> Int] /\ ledger \in Int
  BY DEF Types, TypeOK, MintsOK
<1>2. Mints \in [Nodes -> Int]
  BY DEF Types, TypeOK, Mints
<1>3. \A n \in Nodes : given[n].slots \in Int
  BY DEF Types, PlansOK, NoGrant
<1>4. Debts \in [Nodes -> Int]
  BY <1>3 DEF Debts, Owed
<1> QED
  BY <1>1, <1>2, <1>4, TotalInt

(* The same after the step. *)
LEMMA SumsArePrimed ==
    ASSUME Types'
    PROVE  /\ target' \in [Nodes -> Int] /\ Mints' \in [Nodes -> Int]
           /\ Debts' \in [Nodes -> Int]
           /\ Total(target)' \in Int /\ Total(Mints)' \in Int /\ Total(Debts)' \in Int
           /\ ledger' \in Int
<1>1. target' \in [Nodes -> Int] /\ ledger' \in Int
  BY DEF Types, TypeOK, MintsOK
<1>2. Mints' \in [Nodes -> Int]
  BY DEF Types, TypeOK, Mints
<1>3. \A n \in Nodes : given'[n].slots \in Int
  BY DEF Types, PlansOK, NoGrant
<1>4. Debts' \in [Nodes -> Int]
  BY <1>3 DEF Debts, Owed
<1> QED
  BY <1>1, <1>2, <1>4, TotalInt

(* A step that gives no node more than it adds to the ledger, has no more on its way
   and forgets no debt keeps the account. *)
LEMMA Accounts ==
    ASSUME Types, Types', NEW credit \in [Nodes -> Nat], Covered(credit),
           NEW other \in [Nodes -> Nat], MayCredit(other)',
           Total(target)' + Total(other) + Total(Mints)' - Total(Debts)' - ledger'
             <= Total(target) + Total(credit) + Total(Mints) - Total(Debts) - ledger
    PROVE  Conserved'
<1>1. Total(credit) \in Int /\ Total(other) \in Int
  BY TotalInt
<1>2. Total(target)' + Total(other) + Total(Mints)' - Total(Debts)' <= ledger'
  BY <1>1, SumsAre, SumsArePrimed DEF Covered
<1>3. Covered(other)'
  BY <1>2 DEF Covered
<1> QED
  BY <1>3 DEF Conserved

(* No answer credits more than before. *)
NoNewCredit ==
    /\ UNCHANGED <<tradeId, granted>>
    /\ \A a \in answers' :
         \/ a \in answers \/ a.slots <= 0
         \/ \E d, r \in Nodes : /\ a.to = r /\ a.id = granted[d][r].id
                                /\ a.slots = granted[d][r].slots

(* Then what a node may be credited bounds it after the step too. *)
LEMMA CreditKept ==
    ASSUME Types', NEW credit \in [Nodes -> Nat], MayCredit(credit), NoNewCredit
    PROVE  MayCredit(credit)'
<1>1. \A a \in answers' : a.to \in Nodes
  BY DEF Types, TradesOK, Reply
<1>2. ASSUME NEW a \in answers', a.id = tradeId[a.to]
      PROVE  a.slots <= credit[a.to]
  <2>1. CASE a \in answers
    BY <1>2, <2>1 DEF MayCredit
  <2>2. CASE a.slots <= 0
    <3>1. credit[a.to] \in Nat /\ a.slots \in Int
      BY <1>1 DEF Types, TradesOK, Reply, NotOnJob
    <3> QED
      BY <2>2, <3>1
  <2>3. CASE \E d, r \in Nodes : /\ a.to = r /\ a.id = granted[d][r].id
                                 /\ a.slots = granted[d][r].slots
    BY <1>2, <2>3 DEF MayCredit
  <2> QED
    BY <2>1, <2>2, <2>3 DEF NoNewCredit
<1>3. tradeId' = tradeId /\ granted' = granted
  BY DEF NoNewCredit
<1> QED
  BY <1>2, <1>3 DEF MayCredit

(* Most steps only move slots, and the ledger with them. *)
LEMMA Kept ==
    ASSUME Types, Types', Conserved, NoNewCredit, UNCHANGED <<replaceId, given>>,
           \A n \in Nodes : minted'[n] <= minted[n],
           Total(target)' - ledger' <= Total(target) - ledger
    PROVE  Conserved'
<1>1. PICK credit \in [Nodes -> Nat] : MayCredit(credit) /\ Covered(credit)
  BY DEF Conserved
<1>2. MayCredit(credit)'
  BY <1>1, CreditKept
<1>3. \A n \in Nodes : Mints'[n] <= Mints[n]
  BY DEF Mints, Types, TypeOK
<1>4. Total(Mints)' <= Total(Mints)
  BY <1>3, TotalMono, SumsAre, SumsArePrimed
<1>5. Debts' = Debts
  BY DEF Debts, Owed
<1>6. Total(Debts)' = Total(Debts)
  BY <1>5
<1>7. Total(credit) \in Int
  BY TotalInt
<1>8. Total(target)' + Total(credit) + Total(Mints)' - Total(Debts)' - ledger'
        <= Total(target) + Total(credit) + Total(Mints) - Total(Debts) - ledger
  BY <1>4, <1>6, <1>7, SumsAre, SumsArePrimed
<1> QED
  BY <1>1, <1>2, <1>8, Accounts

(* Steps that move no slot keep the account. *)
LEMMA KeptQuietly ==
    ASSUME Types, Types', Conserved, NoNewCredit,
           UNCHANGED <<target, ledger, minted, replaceId, given>>
    PROVE  Conserved'
<1>1. Total(target)' = Total(target)
  OBVIOUS
<1>2. Total(target)' - ledger' <= Total(target) - ledger
  BY <1>1, SumsAre
<1>3. \A n \in Nodes : minted'[n] <= minted[n]
  BY DEF Types, TypeOK
<1> QED
  BY <1>2, <1>3, Kept

(* So do those that change the slots of one node along with the ledger. *)
LEMMA KeptAt ==
    ASSUME Types, Types', Conserved, NoNewCredit, UNCHANGED <<replaceId, given>>,
           \A x \in Nodes : minted'[x] <= minted[x],
           NEW n \in Nodes, \A x \in Nodes \ {n} : target'[x] = target[x],
           target'[n] - target[n] <= ledger' - ledger
    PROVE  Conserved'
<1>1. Total(target)' = Total(target) - target[n] + target'[n]
  BY SumsAre, SumsArePrimed, TotalChange
<1>2. target[n] \in Int /\ target'[n] \in Int
  BY SumsAre, SumsArePrimed
<1>3. Total(target)' - ledger' <= Total(target) - ledger
  BY <1>1, <1>2, SumsAre, SumsArePrimed
<1> QED
  BY <1>3, Kept

(* What workers, inputs, verdicts and failing calls do moves no slots. *)
LEMMA ConservedQuiet ==
    ASSUME Types, Types', Conserved, NEW n \in Nodes,
           \/ StartInput(n) \/ FinishInput(n) \/ RetireWorker(n) \/ PressureForgotten(n)
           \/ Readded(n) \/ SettleInput(n) \/ ShedIdle(n)
           \/ \E r \in Nodes : ParkInput(n, r)
           \/ NobodyToAsk(n) \/ TradeFails(n) \/ SkipMint(n) \/ ReplacementFails(n)
    PROVE  Conserved'
<1> USE DEF nodeVars, tradeVars, replaceVars, mintVars
<1>1. UNCHANGED <<target, ledger, minted, replaceId, given, tradeId, granted>>
      /\ answers' \subseteq answers
  <2>1. CASE \/ StartInput(n) \/ FinishInput(n) \/ RetireWorker(n) \/ PressureForgotten(n)
             \/ Readded(n) \/ SettleInput(n) \/ ShedIdle(n)
             \/ \E r \in Nodes : ParkInput(n, r)
    BY <2>1, Zenon DEF StartInput, FinishInput, RetireWorker, PressureForgotten, Readded,
           SettleInput, ShedIdle, ParkInput
  <2>2. CASE NobodyToAsk(n) \/ TradeFails(n) \/ SkipMint(n) \/ ReplacementFails(n)
    BY <2>2 DEF NobodyToAsk, TradeFails, SkipMint, ReplacementFails
  <2> QED
    BY <2>1, <2>2
<1>2. NoNewCredit
  BY <1>1 DEF NoNewCredit
<1> QED
  BY <1>1, <1>2, KeptQuietly

(* Dropped answers and the verdicts of the controller move no slots. *)
LEMMA ConservedVerdicts ==
    ASSUME Types, Types', Conserved,
           \/ \E a \in answers : AnswerDropped(a)
           \/ WindowCloses \/ NoEvidence \/ Verified \/ FallsShort \/ ProbeOpens
           \/ HeadRestarts
    PROVE  Conserved'
<1> USE DEF nodeVars, tradeVars, replaceVars, mintVars
<1>1. UNCHANGED <<target, ledger, minted, replaceId, given, tradeId, granted>>
      /\ answers' \subseteq answers
  <2>1. CASE \E a \in answers : AnswerDropped(a)
    BY <2>1 DEF AnswerDropped
  <2>2. CASE \/ WindowCloses \/ NoEvidence \/ Verified \/ FallsShort \/ ProbeOpens
             \/ HeadRestarts
    BY <2>2, Zenon DEF WindowCloses, NoEvidence, Verified, FallsShort, ProbeOpens,
           HeadRestarts
  <2> QED
    BY <2>1, <2>2
<1>2. NoNewCredit
  BY <1>1 DEF NoNewCredit
<1> QED
  BY <1>1, <1>2, KeptQuietly

(* A request that arrives is answered from the record of what it was granted. *)
LEMMA ConservedArrives ==
    ASSUME Types, Types', Conserved, NEW m \in requests, TradeArrives(m)
    PROVE  Conserved'
<1> USE DEF nodeVars, tradeVars, replaceVars, mintVars
<1>1. UNCHANGED <<target, ledger, minted, replaceId, given, tradeId, granted>>
  BY DEF TradeArrives
<1>2. m.peer \in Nodes /\ m.from \in Nodes
  BY DEF Types, TradesOK, Request
<1>3. NoNewCredit
  <2>1. ASSUME NEW a \in answers', a \notin answers, a.slots \notin {NotOnJob, 0}
        PROVE  /\ a.to = m.from /\ a.id = granted[m.peer][m.from].id
               /\ a.slots = granted[m.peer][m.from].slots
    BY <2>1 DEF TradeArrives, ReplayedGrant, Answer
  <2>2. \A a \in answers' : a.slots \in {NotOnJob, 0} => a.slots <= 0
    BY DEF NotOnJob
  <2> QED
    BY <1>1, <1>2, <2>1, <2>2 DEF NoNewCredit
<1> QED
  BY <1>1, <1>3, KeptQuietly

(* The ledger goes along with a slot that free memory mints, that is reclaimed,
   given back or lost with its node. *)
LEMMA ConservedShifts ==
    ASSUME Types, Types', Conserved, NEW n \in Nodes,
           \/ Readd(n) \/ ReclaimStranded(n) \/ LeaveJob(n) \/ PushAnswered(n)
           \/ ReplacementJoins(n)
    PROVE  Conserved'
<1> USE DEF nodeVars, tradeVars, replaceVars, mintVars
<1>1. UNCHANGED <<replaceId, given, tradeId, granted>> /\ answers' \subseteq answers
  BY DEF Readd, ReclaimStranded, LeaveJob, PushAnswered, ReplacementJoins
<1>2. NoNewCredit
  BY <1>1 DEF NoNewCredit
<1>3. target \in [Nodes -> Int] /\ ledger \in Int /\ minted \in [Nodes -> Nat \cup {-1}]
  BY DEF Types, TypeOK, MintsOK
<1>4. \A x \in Nodes : minted'[x] <= minted[x]
  BY <1>3 DEF Readd, ReclaimStranded, LeaveJob, PushAnswered, ReplacementJoins
<1>5. /\ \A x \in Nodes \ {n} : target'[x] = target[x]
      /\ target'[n] - target[n] <= ledger' - ledger
  <2>1. CASE Readd(n)
    BY <1>3, <2>1 DEF Readd
  <2>2. CASE ReclaimStranded(n)
    <3>1. Lesser(queue[n], Cpus) \in Int
      BY SizesAssumption DEF Lesser, Types, TypeOK
    <3>2. target[n] = 0
      BY <2>2 DEF ReclaimStranded, Stranded
    <3> HIDE DEF Lesser
    <3> QED
      BY <1>3, <2>2, <3>1, <3>2 DEF ReclaimStranded
  <2>3. CASE LeaveJob(n)
    BY <1>3, <2>3 DEF LeaveJob
  <2>4. CASE PushAnswered(n)
    <3>1. Lesser(ctl.sheds[n], target[n]) \in Int
      BY <1>3, ControllerParts DEF Lesser
    <3> HIDE DEF Lesser
    <3> QED
      BY <1>3, <2>4, <3>1 DEF PushAnswered
  <2>5. CASE ReplacementJoins(n)
    BY <1>3, <2>5 DEF ReplacementJoins
  <2> QED
    BY <2>1, <2>2, <2>3, <2>4, <2>5
<1> QED
  BY <1>1, <1>2, <1>4, <1>5, KeptAt

(* A new trade id was never answered or granted. *)
LEMMA ConservedBegins ==
    ASSUME Types, Types', Conserved, NEW n \in Nodes, BeginTrade(n)
    PROVE  Conserved'
<1> USE DEF nodeVars, tradeVars, replaceVars, mintVars
<1>1. PICK credit \in [Nodes -> Nat] : MayCredit(credit) /\ Covered(credit)
  BY DEF Conserved
<1>2. /\ tradeId' = [tradeId EXCEPT ![n] = IF @ = 0 THEN lastId + 1 ELSE @]
      /\ UNCHANGED <<target, ledger, minted, replaceId, given, granted, answers>>
  BY DEF BeginTrade
<1>3. tradeId[n] \in 0 .. lastId /\ lastId \in Nat
  BY DEF Types, TypeOK, TradesOK
<1>4. \A x \in Nodes \ {n} : tradeId'[x] = tradeId[x]
  BY <1>2 DEF Types, TypeOK
<1>5. tradeId'[n] = tradeId[n] \/ tradeId'[n] = lastId + 1
  BY <1>2 DEF Types, TypeOK
<1>6. MayCredit(credit)'
  <2>1. ASSUME NEW a \in answers, a.id = tradeId'[a.to]
        PROVE  a.slots <= credit[a.to]
    <3>1. a.to \in Nodes /\ a.id \in 1 .. lastId
      BY DEF Types, TradesOK, Reply
    <3>2. a.id = tradeId[a.to]
      BY <1>3, <1>4, <1>5, <2>1, <3>1
    <3> QED
      BY <1>1, <3>2 DEF MayCredit
  <2>2. ASSUME NEW d \in Nodes, NEW r \in Nodes, granted[d][r].id = tradeId'[r]
        PROVE  granted[d][r].slots <= credit[r]
    <3>1. granted[d][r].id \in 0 .. lastId
      BY <1>3 DEF Types, TradesOK, Grant, NoGrant
    <3>2. granted[d][r].id = tradeId[r]
      BY <1>3, <1>4, <1>5, <2>2, <3>1
    <3> QED
      BY <1>1, <3>2 DEF MayCredit
  <2> QED
    BY <1>2, <2>1, <2>2 DEF MayCredit
<1>7. Total(target)' = Total(target) /\ Mints' = Mints /\ Debts' = Debts /\ ledger' = ledger
  BY <1>2 DEF Mints, Debts, Owed
<1>8. Total(credit) \in Int
  BY TotalInt
<1>9. Total(target)' + Total(credit) + Total(Mints)' - Total(Debts)' - ledger'
        <= Total(target) + Total(credit) + Total(Mints) - Total(Debts) - ledger
  BY <1>7, <1>8, SumsAre
<1> QED
  BY <1>1, <1>6, <1>9, Accounts

(* Slots that change hands are on their way to the requester. *)
LEMMA ConservedHandOver ==
    ASSUME Types, Types', Conserved, NEW d \in Nodes, NEW g \in Grant, HandOver(d, g),
           UNCHANGED <<tradeId, minted, replaceId, given, ledger>>
    PROVE  Conserved'
<1>1. PICK credit \in [Nodes -> Nat] : MayCredit(credit) /\ Covered(credit)
  BY DEF Conserved
<1>2. g.to \in Nodes /\ g.slots \in Nat
  BY DEF Grant
<1> DEFINE other == [credit EXCEPT ![g.to] = @ + g.slots]
<1>3. other \in [Nodes -> Nat] /\ other[g.to] = credit[g.to] + g.slots
      /\ \A x \in Nodes \ {g.to} : other[x] = credit[x]
  BY <1>2
<1>4. \A x \in Nodes : credit[x] <= other[x]
  BY <1>2, <1>3
<1>5. /\ target' = [target EXCEPT ![d] = @ - g.slots]
      /\ granted' = [granted EXCEPT ![d][g.to] = g]
      /\ answers' = answers \cup
           {[from |-> d, to |-> g.to, id |-> g.id, slots |-> g.slots]}
  BY DEF HandOver
<1> HIDE DEF other
<1>6. MayCredit(other)'
  <2>1. ASSUME NEW a \in answers', a.id = tradeId[a.to]
        PROVE  a.slots <= other[a.to]
    <3>1. CASE a \in answers
      <4>1. a.to \in Nodes /\ a.slots \in Int
        BY <3>1 DEF Types, TradesOK, Reply, NotOnJob
      <4>2. a.slots <= credit[a.to]
        BY <1>1, <2>1, <3>1 DEF MayCredit
      <4> QED
        BY <1>3, <1>4, <4>1, <4>2
    <3>2. CASE a \notin answers
      <4>1. a.to = g.to /\ a.slots = g.slots
        BY <1>5, <3>2
      <4> QED
        BY <1>2, <1>3, <4>1
    <3> QED
      BY <3>1, <3>2
  <2>2. ASSUME NEW e \in Nodes, NEW r \in Nodes, granted'[e][r].id = tradeId[r]
        PROVE  granted'[e][r].slots <= other[r]
    <3>1. CASE e = d /\ r = g.to
      <4>1. granted'[e][r] = g
        BY <1>2, <1>5, <3>1 DEF Types, TradesOK
      <4> QED
        BY <1>2, <1>3, <3>1, <4>1
    <3>2. CASE ~(e = d /\ r = g.to)
      <4>1. granted'[e][r] = granted[e][r]
        BY <1>2, <1>5, <3>2 DEF Types, TradesOK
      <4>2. granted[e][r].slots \in Int
        BY DEF Types, TradesOK, Grant, NoGrant
      <4>3. granted[e][r].slots <= credit[r]
        BY <1>1, <2>2, <4>1 DEF MayCredit
      <4> QED
        BY <1>3, <1>4, <4>1, <4>2, <4>3
    <3> QED
      BY <3>1, <3>2
  <2> QED
    BY <2>1, <2>2 DEF MayCredit
<1>7. Mints' = Mints /\ Debts' = Debts
  BY DEF Mints, Debts, Owed
<1>8. Total(target)' = Total(target) - g.slots
  <2>1. \A x \in Nodes \ {d} : target'[x] = target[x]
    BY <1>5, SumsAre
  <2>2. Total(target)' = Total(target) - target[d] + target'[d]
    BY <2>1, SumsAre, SumsArePrimed, TotalChange
  <2>3. target[d] \in Int /\ target'[d] = target[d] - g.slots
    BY <1>5, SumsAre
  <2> QED
    BY <1>2, <2>2, <2>3, SumsAre
<1>9. Total(other) = Total(credit) + g.slots /\ Total(credit) \in Int
  <2>1. credit \in [Nodes -> Int] /\ other \in [Nodes -> Int]
    BY <1>3
  <2>2. Total(other) = Total(credit) - credit[g.to] + other[g.to]
    BY <1>2, <1>3, <2>1, TotalChange
  <2>3. Total(credit) \in Int
    BY <2>1, TotalInt
  <2> QED
    BY <1>2, <1>3, <2>2, <2>3
<1>10. Total(target)' + Total(other) + Total(Mints)' - Total(Debts)' - ledger'
        <= Total(target) + Total(credit) + Total(Mints) - Total(Debts) - ledger
  BY <1>2, <1>7, <1>8, <1>9, SumsAre
<1> QED
  BY <1>1, <1>3, <1>6, <1>10, Accounts

(* A grant is handed over at once, or when the killed workers are gone. *)
LEMMA ConservedGrants ==
    ASSUME Types, Types', Conserved, NEW d \in Nodes,
           TradeSettles(d) \/ \E m \in atLock[d] : GrantTrade(d, m)
    PROVE  Conserved'
<1> USE DEF nodeVars, tradeVars, replaceVars, mintVars
<1>1. UNCHANGED <<tradeId, minted, replaceId, given, ledger>>
  BY DEF TradeSettles, GrantTrade
<1>2. CASE TradeSettles(d)
  <2>1. granting[d] \in Grant
    BY <1>2, SettlesType
  <2>2. HandOver(d, granting[d])
    BY <1>2 DEF TradeSettles
  <2> QED
    BY <1>1, <2>1, <2>2, ConservedHandOver
<1>3. ASSUME NEW m \in atLock[d], GrantTrade(d, m)
      PROVE  Conserved'
  <2>1. PICK g \in Grant : HandOver(d, g) \/ UNCHANGED <<target, granted, answers>>
    BY <1>3, GrantParts
  <2>2. CASE HandOver(d, g)
    BY <1>1, <2>2, ConservedHandOver
  <2>3. CASE UNCHANGED <<target, granted, answers>>
    <3>1. NoNewCredit
      BY <1>1, <2>3 DEF NoNewCredit
    <3> QED
      BY <1>1, <2>3, <3>1, KeptQuietly
  <2> QED
    BY <2>1, <2>2, <2>3
<1> QED
  BY <1>2, <1>3

(* An answer is counted for the trade it answers, and for no other. *)
LEMMA ConservedAnswered ==
    ASSUME Types, Types', Conserved, NEW n \in Nodes, NEW a \in answers,
           TradeAnswered(n, a)
    PROVE  Conserved'
<1> USE DEF nodeVars, tradeVars, replaceVars, mintVars
<1>1. PICK credit \in [Nodes -> Nat] : MayCredit(credit) /\ Covered(credit)
  BY DEF Conserved
<1>2. a.to = n /\ a.id = tradeId[n]
  BY DEF TradeAnswered, Awaited
<1>3. a.slots \in Int /\ a.slots <= credit[n] /\ credit[n] \in Nat
  <2>1. a.slots \in Int
    BY DEF Types, TradesOK, Reply, NotOnJob
  <2> QED
    BY <1>1, <1>2, <2>1 DEF MayCredit
<1> DEFINE other == [credit EXCEPT ![n] = 0]
<1>4. other \in [Nodes -> Nat] /\ other[n] = 0 /\ \A x \in Nodes \ {n} : other[x] = credit[x]
  OBVIOUS
<1> HIDE DEF other
<1>5. /\ tradeId' = [tradeId EXCEPT ![n] = 0]
      /\ target' = [target EXCEPT ![n] = @ + Greater(0, a.slots)]
      /\ answers' \subseteq answers
      /\ UNCHANGED <<minted, replaceId, given, granted, ledger>>
  BY DEF TradeAnswered
<1>6. tradeId'[n] = 0 /\ \A x \in Nodes \ {n} : tradeId'[x] = tradeId[x]
  BY <1>5 DEF Types, TypeOK
<1>7. MayCredit(other)'
  <2>1. ASSUME NEW b \in answers', b.id = tradeId'[b.to]
        PROVE  b.slots <= other[b.to]
    <3>1. b \in answers /\ b.to \in Nodes /\ b.id \in 1 .. lastId /\ lastId \in Nat
      BY <1>5 DEF Types, TradesOK, Reply
    <3>2. b.to # n
      BY <1>6, <2>1, <3>1
    <3> QED
      BY <1>1, <1>4, <1>6, <2>1, <3>1, <3>2 DEF MayCredit
  <2>2. ASSUME NEW d \in Nodes, NEW r \in Nodes, granted[d][r].id = tradeId'[r]
        PROVE  granted[d][r].slots <= other[r]
    <3>1. CASE r = n
      <4>1. granted[d][r] \in {NoGrant} \cup Grant /\ granted[d][r].id = 0 /\ lastId \in Nat
        BY <1>6, <2>2, <3>1 DEF Types, TradesOK
      <4>2. granted[d][r].slots = 0
        BY <4>1 DEF Grant, NoGrant
      <4> QED
        BY <1>4, <3>1, <4>2
    <3>2. CASE r # n
      BY <1>1, <1>4, <1>6, <2>2, <3>2 DEF MayCredit
    <3> QED
      BY <3>1, <3>2
  <2> QED
    BY <1>5, <2>1, <2>2 DEF MayCredit
<1>8. Mints' = Mints /\ Debts' = Debts
  BY <1>5 DEF Mints, Debts, Owed
<1>9. Total(target)' = Total(target) + Greater(0, a.slots)
  <2>1. Greater(0, a.slots) \in Int
    BY <1>3 DEF Greater
  <2> HIDE DEF Greater
  <2>2. \A x \in Nodes \ {n} : target'[x] = target[x]
    BY <1>5, SumsAre
  <2>3. Total(target)' = Total(target) - target[n] + target'[n]
    BY <2>2, SumsAre, SumsArePrimed, TotalChange
  <2>4. target[n] \in Int /\ target'[n] = target[n] + Greater(0, a.slots)
    BY <1>5, SumsAre
  <2> QED
    BY <2>1, <2>3, <2>4, SumsAre
<1>10. Total(other) = Total(credit) - credit[n] /\ Total(credit) \in Int
  <2>1. credit \in [Nodes -> Int] /\ other \in [Nodes -> Int]
    BY <1>4
  <2>2. Total(other) = Total(credit) - credit[n] + other[n]
    BY <1>4, <2>1, TotalChange
  <2>3. Total(credit) \in Int
    BY <2>1, TotalInt
  <2> QED
    BY <1>3, <1>4, <2>2, <2>3
<1>11. Greater(0, a.slots) <= credit[n] /\ Greater(0, a.slots) \in Int
  BY <1>3 DEF Greater
<1> HIDE DEF Greater
<1>12. Total(target)' + Total(other) + Total(Mints)' - Total(Debts)' - ledger'
        <= Total(target) + Total(credit) + Total(Mints) - Total(Debts) - ledger
  BY <1>3, <1>5, <1>8, <1>9, <1>10, <1>11, SumsAre
<1> QED
  BY <1>1, <1>4, <1>7, <1>12, Accounts

(* What the head booted is owed until the node that asked hears of it. *)
LEMMA ConservedAsks ==
    ASSUME Types, Types', Conserved, NEW n \in Nodes, AskReplacement(n)
    PROVE  Conserved'
<1> USE DEF nodeVars, tradeVars, replaceVars, mintVars
<1>1. PICK credit \in [Nodes -> Nat] : MayCredit(credit) /\ Covered(credit)
  BY DEF Conserved
<1>2. /\ replaceId' = [replaceId EXCEPT ![n] = IF @ = 0 THEN may["replacements"] ELSE @]
      /\ UNCHANGED <<target, ledger, minted, given, tradeId, granted, answers>>
  BY DEF AskReplacement
<1>3. MayCredit(credit)'
  <2>1. NoNewCredit
    BY <1>2 DEF NoNewCredit
  <2> QED
    BY <1>1, <2>1, CreditKept
<1>4. \A x \in Nodes : Debts[x] <= Debts'[x]
  <2>1. \A x \in Nodes : given[x].slots \in Nat
    BY DEF Types, PlansOK, NoGrant
  <2>2. \A x \in Nodes : replaceId[x] # 0 => replaceId'[x] = replaceId[x]
    BY <1>2 DEF Types, PlansOK
  <2> QED
    BY <1>2, <2>1, <2>2 DEF Debts, Owed
<1>5. Total(Debts) <= Total(Debts)'
  BY <1>4, SumsAre, SumsArePrimed, TotalMono
<1>6. Mints' = Mints /\ Total(target)' = Total(target) /\ Total(credit) \in Int
  BY <1>2, TotalInt DEF Mints
<1>7. Total(target)' + Total(credit) + Total(Mints)' - Total(Debts)' - ledger'
        <= Total(target) + Total(credit) + Total(Mints) - Total(Debts) - ledger
  BY <1>2, <1>5, <1>6, SumsAre, SumsArePrimed
<1> QED
  BY <1>1, <1>3, <1>7, Accounts

(* A debt that comes up with a plan, or ends with the slots of its node. *)
LEMMA ConservedDebt ==
    ASSUME Types, Types', Conserved, NEW n \in Nodes, NEW s \in Nodes,
           UNCHANGED <<tradeId, granted, answers, minted, ledger>>,
           \A x \in Nodes \ {n} : Debts'[x] = Debts[x],
           \A x \in Nodes \ {s} : target'[x] = target[x],
           target'[s] - target[s] = Debts'[n] - Debts[n]
    PROVE  Conserved'
<1>1. PICK credit \in [Nodes -> Nat] : MayCredit(credit) /\ Covered(credit)
  BY DEF Conserved
<1>2. MayCredit(credit)'
  <2>1. NoNewCredit
    BY DEF NoNewCredit
  <2> QED
    BY <1>1, <2>1, CreditKept
<1>3. Total(target)' = Total(target) - target[s] + target'[s]
  BY SumsAre, SumsArePrimed, TotalChange
<1>4. Total(Debts)' = Total(Debts) - Debts[n] + Debts'[n]
  BY SumsAre, SumsArePrimed, TotalChange
<1>5. /\ target[s] \in Int /\ target'[s] \in Int
      /\ Debts[n] \in Int /\ Debts'[n] \in Int
  BY SumsAre, SumsArePrimed
<1>6. Mints' = Mints /\ Total(credit) \in Int
  BY TotalInt DEF Mints
<1>7. Total(target)' + Total(credit) + Total(Mints)' - Total(Debts)' - ledger'
        <= Total(target) + Total(credit) + Total(Mints) - Total(Debts) - ledger
  BY <1>3, <1>4, <1>5, <1>6, SumsAre
<1> QED
  BY <1>1, <1>2, <1>7, Accounts

(* A plan adds to the slots of its node what the requester owes; the answer takes
   both back. *)
LEMMA ConservedReplaces ==
    ASSUME Types, Types', Outside, Replacing, Conserved, NEW n \in Nodes,
           BootReplacement(n) \/ ReplacementAnswered(n)
    PROVE  Conserved'
<1> USE DEF nodeVars, tradeVars, replaceVars, mintVars
<1>1. UNCHANGED <<tradeId, granted, answers, minted, ledger>>
  BY DEF BootReplacement, ReplacementAnswered
<1>2. target \in [Nodes -> Int] /\ given[n].slots \in Nat /\ replaceId[n] \in Nat
  BY DEF Types, TypeOK, PlansOK, NoGrant
<1>3. \A x \in Nodes \ {n} : replaceId'[x] = replaceId[x] /\ given'[x] = given[x]
  BY DEF BootReplacement, ReplacementAnswered, Types, PlansOK
<1>4. \A x \in Nodes \ {n} : Debts'[x] = Debts[x]
  BY <1>3 DEF Debts, Owed
<1>5. CASE ReplacementAnswered(n)
  <2>1. Debts[n] = given[n].slots /\ Debts'[n] = 0
    BY <1>5 DEF ReplacementAnswered, Debts, Owed, Replacing, Types, PlansOK
  <2>2. /\ \A x \in Nodes \ {n} : target'[x] = target[x]
        /\ target'[n] = target[n] - given[n].slots
    BY <1>2, <1>5 DEF ReplacementAnswered
  <2>3. target'[n] - target[n] = Debts'[n] - Debts[n]
    BY <1>2, <2>1, <2>2
  <2> QED
    BY <1>1, <1>4, <2>2, <2>3, ConservedDebt
<1>6. CASE BootReplacement(n)
  <2>1. CASE UNCHANGED <<target, given, replaceId>>
    <3>1. Debts' = Debts
      BY <2>1 DEF Debts, Owed
    <3>2. target'[n] - target[n] = Debts'[n] - Debts[n]
      BY <2>1, <3>1, SumsAre
    <3> QED
      BY <1>1, <1>4, <2>1, <3>2, ConservedDebt
  <2>2. CASE ~Replanned(n) /\ UNCHANGED <<target, given>> /\ replaceId'[n] = 0
    <3>1. Debts[n] = 0 /\ Debts'[n] = 0
      BY <2>2 DEF Debts, Owed, Replanned
    <3>2. target'[n] - target[n] = Debts'[n] - Debts[n]
      BY <1>2, <2>2, <3>1
    <3> QED
      BY <1>1, <1>4, <2>2, <3>2, ConservedDebt
  <2>3. CASE /\ ~Replanned(n)
             /\ \E s \in Nodes :
                LET slots == Lesser(asked[n], budget)
                IN /\ place[s] = "spare"
                   /\ target' = [target EXCEPT ![s] = slots]
                   /\ given' = [given EXCEPT ![n] =
                                  [to |-> s, id |-> replaceId[n], slots |-> slots]]
             /\ UNCHANGED replaceId
    <3> DEFINE slots == Lesser(asked[n], budget)
    <3>1. slots \in Nat
      BY SizesAssumption DEF Lesser, Types, TypeOK, PlansOK
    <3>2. PICK s \in Nodes :
             /\ place[s] = "spare"
             /\ target' = [target EXCEPT ![s] = slots]
             /\ given' = [given EXCEPT ![n] =
                            [to |-> s, id |-> replaceId[n], slots |-> slots]]
      BY <2>3
    <3> HIDE DEF slots
    <3>3. target[s] = 0
      BY <3>2 DEF Outside, Waiting
    <3>4. replaceId[n] # 0
      BY <1>6 DEF BootReplacement, Replacing
    <3>5. Debts[n] = 0
      BY <2>3 DEF Debts, Owed, Replanned
    <3>6. given'[n].id = replaceId[n] /\ given'[n].slots = slots
      BY <3>2 DEF Types, PlansOK
    <3>7. Debts'[n] = slots
      BY <2>3, <3>4, <3>6 DEF Debts, Owed
    <3>8. /\ \A x \in Nodes \ {s} : target'[x] = target[x]
          /\ target'[s] = slots
      BY <1>2, <3>2
    <3>9. target'[s] - target[s] = Debts'[n] - Debts[n]
      BY <3>1, <3>3, <3>5, <3>7, <3>8
    <3> QED
      BY <1>1, <1>4, <3>8, <3>9, ConservedDebt
  <2>4. replaceId' = [replaceId EXCEPT ![n] = 0] => replaceId'[n] = 0
    BY DEF Types, PlansOK
  <2> QED
    BY <1>6, <2>1, <2>2, <2>3, <2>4 DEF BootReplacement
<1> QED
  BY <1>5, <1>6

(* Minted slots are on the ledger while they are on their way. *)
LEMMA ConservedMints ==
    ASSUME Types, Types', Conserved, NEW n \in Nodes, AskMint(n) \/ MintAnswered(n)
    PROVE  Conserved'
<1> USE DEF nodeVars, tradeVars, replaceVars, mintVars
<1>1. PICK credit \in [Nodes -> Nat] : MayCredit(credit) /\ Covered(credit)
  BY DEF Conserved
<1>2. UNCHANGED <<replaceId, given, tradeId, granted, answers>>
  BY DEF AskMint, MintAnswered
<1>3. MayCredit(credit)'
  <2>1. NoNewCredit
    BY <1>2 DEF NoNewCredit
  <2> QED
    BY <1>1, <2>1, CreditKept
<1>4. Total(Debts)' = Total(Debts) /\ Total(credit) \in Int
  <2>1. Debts' = Debts
    BY <1>2 DEF Debts, Owed
  <2> QED
    BY <2>1, TotalInt
<1>5. \A x \in Nodes \ {n} : minted'[x] = minted[x] /\ target'[x] = target[x]
  <2>1. CASE AskMint(n)
    <3>1. UNCHANGED target /\ \E k : minted' = [minted EXCEPT ![n] = k]
      BY <2>1, Zenon DEF AskMint
    <3> QED
      BY <3>1 DEF Types, TypeOK
  <2>2. CASE MintAnswered(n)
    BY <2>2 DEF MintAnswered, Types, TypeOK
  <2> QED
    BY <2>1, <2>2
<1>6. \A x \in Nodes \ {n} : Mints'[x] = Mints[x]
  BY <1>5 DEF Mints
<1>7. Total(Mints)' = Total(Mints) - Mints[n] + Mints'[n]
  BY <1>6, SumsAre, SumsArePrimed, TotalChange
<1>8. Total(target)' = Total(target) - target[n] + target'[n]
  BY <1>5, SumsAre, SumsArePrimed, TotalChange
<1>9. /\ target[n] \in Int /\ target'[n] \in Int
      /\ Mints[n] \in Int /\ Mints'[n] \in Int
  BY SumsAre, SumsArePrimed
<1>10. target'[n] - target[n] + Mints'[n] - Mints[n] <= ledger' - ledger
  <2>1. CASE AskMint(n)
    <3>1. PICK slots : minted' = [minted EXCEPT ![n] = slots] /\ ledger' = ledger + slots
      BY <2>1, Zenon DEF AskMint
    <3>2. minted'[n] = slots /\ minted[n] = -1
      BY <2>1, <3>1 DEF AskMint, Types, TypeOK
    <3>3. slots \in Nat
      <4>1. slots \in Nat \cup {-1}
        BY <3>2 DEF Types, TypeOK
      <4>2. \E k \in 1 .. tick[n].want : minted' = [minted EXCEPT ![n] = Lesser(k, Opened.allowance)]
        BY <2>1, Zenon DEF AskMint
      <4>3. Opened.allowance \in Nat
        BY OpenedType DEF Controller
      <4>4. \A k \in Nat : Lesser(k, Opened.allowance) \in Nat
        BY <4>3 DEF Lesser
      <4>5. tick[n].want \in Int
        BY DEF Types, TradesOK, Ticks, Asleep
      <4> HIDE DEF Lesser, Opened
      <4>6. minted'[n] \in Nat
        BY <4>2, <4>4, <4>5 DEF Types, TypeOK
      <4> QED
        BY <3>2, <4>6
    <3>4. Mints[n] = 0 /\ Mints'[n] = slots
      BY <3>2, <3>3 DEF Mints
    <3>5. UNCHANGED target
      BY <2>1, Zenon DEF AskMint
    <3> QED
      BY <1>9, <3>1, <3>3, <3>4, <3>5, SumsAre
  <2>2. CASE MintAnswered(n)
    <3>1. /\ minted[n] \in Nat /\ minted'[n] = -1 /\ ledger' = ledger
          /\ target'[n] = target[n] + minted[n] \/ target'[n] = target[n]
      BY <2>2 DEF MintAnswered, Types, TypeOK
    <3>2. Mints[n] = minted[n] /\ Mints'[n] = 0
      BY <3>1 DEF Mints
    <3> QED
      BY <1>9, <3>1, <3>2, SumsAre
  <2> QED
    BY <2>1, <2>2
<1>11. Total(target)' + Total(credit) + Total(Mints)' - Total(Debts)' - ledger'
        <= Total(target) + Total(credit) + Total(Mints) - Total(Debts) - ledger
  BY <1>4, <1>7, <1>8, <1>9, <1>10, SumsAre, SumsArePrimed
<1> QED
  BY <1>1, <1>3, <1>11, Accounts

-----------------------------------------------------------------------------
(* Every step keeps the types. *)
LEMMA TypesStep ==
    ASSUME Types, Outside, Replacing, Next
    PROVE  Types'
<1>1. ASSUME NEW n \in Nodes,
             \/ StartInput(n) \/ FinishInput(n) \/ RetireWorker(n) \/ PressureForgotten(n)
             \/ Readd(n) \/ Readded(n) \/ SettleInput(n) \/ ShedIdle(n)
             \/ ReclaimStranded(n) \/ LeaveJob(n) \/ \E r \in Nodes : ParkInput(n, r)
      PROVE  Types'
  BY <1>1, WorkerType, ReaddType, LeaveType
<1>2. ASSUME NEW n \in Nodes,
             \/ BeginTrade(n) \/ NobodyToAsk(n) \/ TradeSettles(n) \/ TradeFails(n)
             \/ SkipMint(n)
             \/ \E m \in atLock[n] : GrantTrade(n, m)
             \/ \E a \in answers : TradeAnswered(n, a)
      PROVE  Types'
  BY <1>2, BeginType, TickType, SettlesType, GrantType, AnswerType
<1>3. ASSUME NEW n \in Nodes,
             \/ AskReplacement(n) \/ BootReplacement(n) \/ ReplacementAnswered(n)
             \/ ReplacementFails(n) \/ ReplacementJoins(n)
             \/ AskMint(n) \/ MintAnswered(n) \/ PushAnswered(n)
      PROVE  Types'
  BY <1>3, ReplaceType, MintType
<1>4. ASSUME NEW m \in requests, TradeArrives(m)
      PROVE  Types'
  BY <1>4, ArrivesType
<1>5. ASSUME NEW a \in answers, AnswerDropped(a)
      PROVE  Types'
  <2>1. a.to \in Nodes
    BY DEF Types, TradesOK, Reply
  <2> QED
    BY <1>5, <2>1, AnswerType
<1>6. ASSUME WindowCloses \/ NoEvidence \/ Verified \/ FallsShort \/ ProbeOpens
             \/ HeadRestarts
      PROVE  Types'
  BY <1>6, VerdictType
<1> QED
  BY <1>1, <1>2, <1>3, <1>4, <1>5, <1>6 DEF Next

(* Every step keeps the account. *)
LEMMA ConservedStep ==
    ASSUME Types, Types', Outside, Replacing, Conserved, Next
    PROVE  Conserved'
<1>1. ASSUME NEW n \in Nodes,
             \/ StartInput(n) \/ FinishInput(n) \/ RetireWorker(n) \/ PressureForgotten(n)
             \/ Readd(n) \/ Readded(n) \/ SettleInput(n) \/ ShedIdle(n)
             \/ ReclaimStranded(n) \/ LeaveJob(n) \/ \E r \in Nodes : ParkInput(n, r)
             \/ PushAnswered(n) \/ ReplacementJoins(n)
             \/ NobodyToAsk(n) \/ TradeFails(n) \/ SkipMint(n) \/ ReplacementFails(n)
      PROVE  Conserved'
  BY <1>1, ConservedQuiet, ConservedShifts
<1>2. ASSUME NEW n \in Nodes,
             \/ BeginTrade(n) \/ TradeSettles(n)
             \/ \E m \in atLock[n] : GrantTrade(n, m)
             \/ \E a \in answers : TradeAnswered(n, a)
      PROVE  Conserved'
  BY <1>2, ConservedBegins, ConservedGrants, ConservedAnswered
<1>3. ASSUME NEW n \in Nodes,
             \/ AskReplacement(n) \/ BootReplacement(n) \/ ReplacementAnswered(n)
             \/ AskMint(n) \/ MintAnswered(n)
      PROVE  Conserved'
  BY <1>3, ConservedAsks, ConservedReplaces, ConservedMints
<1>4. ASSUME NEW m \in requests, TradeArrives(m)
      PROVE  Conserved'
  BY <1>4, ConservedArrives
<1>5. ASSUME \/ \E a \in answers : AnswerDropped(a)
             \/ WindowCloses \/ NoEvidence \/ Verified \/ FallsShort \/ ProbeOpens
             \/ HeadRestarts
      PROVE  Conserved'
  BY <1>5, ConservedVerdicts
<1> QED
  BY <1>1, <1>2, <1>3, <1>4, <1>5 DEF Next

(* Every scenario begins with its slots on the ledger and nothing on its way. *)
LEMMA InitHolds ==
    ASSUME Init
    PROVE  IInv
<1>1. PICK sc \in Scenarios :
          /\ place = [n \in Nodes |-> IF sc.slots[n] > 0 THEN "on" ELSE "spare"]
          /\ target = sc.slots /\ alive = sc.slots
          /\ queue = sc.queue /\ may = sc.may
  BY DEF Init
<1>2. /\ target \in [Nodes -> Nat] /\ alive \in [Nodes -> Nat] /\ queue \in [Nodes -> Nat]
      /\ may \in [Kinds -> Nat]
      /\ place \in [Nodes -> {"spare", "booting", "on", "left"}]
  BY <1>1, ScenariosAssumption
<1> DEFINE none == [n \in Nodes |-> 0]
<1>3. /\ busy = none /\ booting = none /\ shedding = none /\ tradeId = none
      /\ replaceId = none /\ asked = none
  BY DEF Init
<1>4. Total(target) \in Int
  BY <1>2, TotalInt
<1>5. TypeOK
  <2>1. budget \in 0 .. GrowBudget
    BY SizesAssumption DEF Init
  <2>2. ctl \in Controller /\ ctl = NewController
    BY NewControllerType DEF Init
  <2>3. ctl.allowance \in Nat /\ ctl.sheds \in [Nodes -> Nat]
    BY <2>2 DEF Controller
  <2>4. /\ parked \in [Nodes -> Nodes \cup {NoNode}] /\ pressured \in [Nodes -> BOOLEAN]
        /\ minted \in [Nodes -> Nat \cup {-1}] /\ lastId = 0
    BY DEF Init
  <2> QED
    BY <1>2, <1>3, <2>1, <2>3, <2>4 DEF TypeOK
<1>6. TradesOK
  BY DEF Init, TradesOK, Ticks, Request, Reply, Grant
<1>7. PlansOK
  BY <1>3 DEF Init, PlansOK
<1>8. MintsOK
  <2>1. ctl \in Controller
    BY NewControllerType DEF Init
  <2>2. unproven = 0 /\ ledger \in Int
    BY <1>4 DEF Init
  <2> QED
    BY <2>1, <2>2 DEF MintsOK
<1>9. Types
  BY <1>5, <1>6, <1>7, <1>8 DEF Types
<1>10. Outside
  <2>1. ASSUME NEW n \in Nodes, place[n] \in {"spare", "booting"}
        PROVE  Waiting(n)
    <3>1. target[n] = 0 /\ alive[n] = 0
      BY <1>1, <1>2, <2>1
    <3>2. tick[n] = Asleep /\ minted[n] = -1 /\ granting[n] = NoGrant /\ atLock[n] = {}
      BY DEF Init
    <3> QED
      BY <1>3, <3>1, <3>2 DEF Waiting
  <2> QED
    BY <2>1 DEF Outside
<1>11. Replacing
  BY <1>3 DEF Init, Replacing
<1>12. Conserved
  <2>1. none \in [Nodes -> Nat] /\ none \in [Nodes -> Int] /\ \A n \in Nodes : none[n] = 0
    OBVIOUS
  <2>2. MayCredit(none)
    BY <2>1 DEF Init, MayCredit, NoGrant
  <2>3. \A n \in Nodes : Mints[n] = 0 /\ Debts[n] = 0
    BY <1>3 DEF Init, Mints, Debts, Owed
  <2>4. Total(none) = 0
    BY <2>1, TotalZero
  <2>5. Total(Mints) = 0 /\ Total(Debts) = 0
    BY <1>9, <2>3, SumsAre, TotalZero
  <2>6. ledger = Total(target)
    BY DEF Init
  <2> HIDE DEF none
  <2>7. Covered(none)
    BY <1>4, <2>4, <2>5, <2>6 DEF Covered
  <2> QED
    BY <2>1, <2>2, <2>7 DEF Conserved
<1>13. Judged
  BY DEF Init, NewController, Judged
<1> QED
  BY <1>9, <1>10, <1>11, <1>12, <1>13 DEF IInv

(* The inductive invariant holds in every state. *)
THEOREM Invariance == Spec => []IInv
<1>1. Init => IInv
  BY InitHolds
<1>2. IInv /\ [Next]_vars => IInv'
  <2> SUFFICES ASSUME IInv, [Next]_vars PROVE IInv'
    OBVIOUS
  <2> USE DEF IInv
  <2>1. CASE Next
    <3>1. Types'
      BY <2>1, TypesStep
    <3> QED
      BY <2>1, <3>1, OutsideStep, ReplacingStep, ConservedStep, JudgedStep
  <2>2. CASE UNCHANGED vars
    <3> USE DEF vars, nodeVars, tradeVars, replaceVars, mintVars
    <3>1. Types'
      BY <2>2 DEF Types, TypeOK, TradesOK, PlansOK, MintsOK, Request, Reply, Grant
    <3>2. Outside' /\ Replacing' /\ Judged'
      BY <2>2 DEF Outside, Waiting, Replacing, Judged
    <3>3. Conserved'
      <4>1. NoNewCredit
        BY <2>2 DEF NoNewCredit
      <4> QED
        BY <2>2, <3>1, <4>1, KeptQuietly
    <3> QED
      BY <3>1, <3>2, <3>3
  <2> QED
    BY <2>1, <2>2
<1> QED
  BY <1>1, <1>2, PTL DEF Spec

(* SlotsKept: counters keep their ranges, and the nodes never own more slots than
   the job began with, minted and reclaimed: no trade, mint or replacement makes
   one out of nothing (trade_slots, grant, record_replacement_request). *)
THEOREM SlotsStayKept == Spec => []SlotsKept
<1>1. IInv => SlotsKept
  <2> SUFFICES ASSUME IInv PROVE SlotsKept
    OBVIOUS
  <2>1. Types /\ Conserved
    BY DEF IInv
  <2>2. PICK credit \in [Nodes -> Nat] : MayCredit(credit) /\ Covered(credit)
    BY <2>1 DEF Conserved
  <2>3. Mints \in [Nodes -> Nat]
    BY <2>1 DEF Types, TypeOK, Mints
  <2>4. Total(credit) \in Nat /\ Total(Mints) \in Nat
    BY <2>3, TotalNat
  <2>5. Total(target) - Total(Debts) <= ledger
    BY <2>1, <2>2, <2>4, SumsAre DEF Covered
  <2>6. SlotsNotDuplicated
    BY <2>5 DEF SlotsNotDuplicated, Debts
  <2> QED
    BY <2>1, <2>6 DEF Types, SlotsKept
<1> QED
  BY <1>1, Invariance, PTL

(* BlindGrowthBounded: the head lets stand one unproved epoch, a probe beside it,
   and two more for each restart since an epoch was verified; every other one is
   asked back before the next opens (_judge_epoch, controller_loop). *)
THEOREM BlindGrowthStaysBounded == Spec => []BlindGrowthBounded
<1>1. IInv => BlindGrowthBounded
  BY DEF IInv, Judged, BlindGrowthBounded
<1> QED
  BY <1>1, Invariance, PTL
=============================================================================
