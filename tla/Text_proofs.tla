---------------------------- MODULE Text_proofs ----------------------------
(***************************************************************************)
(* What is proved of the texts that are sent: RichText and CopyText, in    *)
(* the instance TextMC composes of them.  The model's operators go over    *)
(* sequences by recursive functions, so each of them is first shown to be  *)
(* a run, a function with a value per place that each step determines; the *)
(* rest are inductions over the places of such a run.                      *)
(***************************************************************************)
EXTENDS TextMC, WellFoundedInduction, SequenceTheorems, TLAPS

-----------------------------------------------------------------------------
(* Numbers, induction and recursion over a range, and the folds of         *)
(* SequenceFolds and SequencesExt: Sums, Total, Only, Gathered,            *)
(* FlattenSeq.                                                             *)

(* A non-empty set of naturals has a least element, and Min is it.         *)
LEMMA MinOf ==
  ASSUME NEW S \in SUBSET Nat, S # {}
  PROVE  Min(S) \in S /\ \A y \in S : Min(S) <= y
<1>1. IsWellFoundedOn(OpToRel(<, Nat), Nat)
  BY NatLessThanWellFounded
<1>2. PICK x \in S : \A y \in S : ~ (<<y, x>> \in OpToRel(<, Nat))
  BY <1>1, WFMin
<1>3. ASSUME NEW y \in S PROVE x <= y
  <2>1. x \in Nat /\ y \in Nat
    OBVIOUS
  <2>2. y < x => <<y, x>> \in OpToRel(<, Nat)
    BY <2>1 DEF OpToRel
  <2>3. ~ (y < x)
    BY <1>2, <2>2
  <2> QED
    BY <2>1, <2>3
<1> QED
  BY <1>3 DEF Min

(* A non-empty set of naturals that is bounded has a greatest element, and *)
(* Max is it.                                                              *)
LEMMA MaxOf ==
  ASSUME NEW S \in SUBSET Nat, S # {}, NEW M \in Nat, \A y \in S : y <= M
  PROVE  Max(S) \in S /\ \A y \in S : y <= Max(S)
<1> DEFINE R == {M - y : y \in S}
<1>1. R \in SUBSET Nat /\ R # {}
  <2>1. \A y \in S : M - y \in Nat
    OBVIOUS
  <2> QED
    BY <2>1
<1>2. PICK r \in R : \A z \in R : r <= z
  BY <1>1, MinOf
<1>3. PICK x \in S : r = M - x
  OBVIOUS
<1>4. \A y \in S : M - y \in R /\ y \in Nat
  OBVIOUS
<1>5. \A y \in S : x >= y
  BY <1>2, <1>3, <1>4
<1>6. \E m \in S : \A y \in S : m >= y
  BY <1>5
<1> QED
  BY <1>6 DEF Max

(* Induction upwards over 0 .. N.                                          *)
LEMMA UpInduction ==
  ASSUME NEW N \in Nat, NEW S, 0 \in S, \A i \in 1 .. N : i - 1 \in S => i \in S
  PROVE  0 .. N \subseteq S
<1> DEFINE Bad == (0 .. N) \ S
<1> SUFFICES ASSUME Bad # {} PROVE FALSE
  OBVIOUS
<1>1. Min(Bad) \in Bad /\ \A y \in Bad : Min(Bad) <= y
  <2>1. Bad \in SUBSET Nat
    OBVIOUS
  <2> QED
    BY <2>1, MinOf
<1> DEFINE n == Min(Bad)
<1> HIDE DEF n
<1>2. n \in Bad /\ \A y \in Bad : n <= y
  BY <1>1 DEF n
<1>3. n \in 1 .. N /\ n - 1 \in 0 .. N /\ n - 1 < n
  BY <1>2
<1>4. n - 1 \in S
  BY <1>2, <1>3
<1> QED
  BY <1>2, <1>3, <1>4

(* Induction downwards over 0 .. N, from all that lie above.               *)
LEMMA DownInduction ==
  ASSUME NEW N \in Nat, NEW S, N \in S, \A i \in 0 .. N - 1 : (\A j \in i + 1 .. N : j \in S) => i \in S
  PROVE  0 .. N \subseteq S
<1> DEFINE G == {k \in 0 .. N : \A j \in N - k .. N : j \in S}
<1>1. 0 \in G
  OBVIOUS
<1>2. ASSUME NEW k \in 1 .. N, k - 1 \in G PROVE k \in G
  <2>1. N - k \in 0 .. N - 1
    OBVIOUS
  <2>2. \A j \in (N - k) + 1 .. N : j \in S
    BY <1>2
  <2>3. N - k \in S
    BY <2>1, <2>2
  <2> QED
    BY <2>2, <2>3
<1>3. 0 .. N \subseteq G
  <2> HIDE DEF G
  <2> QED
    BY <1>1, <1>2, UpInduction
<1> QED
  BY <1>3

Run(f, N, T, e, op) == f \in [0 .. N -> T] /\ f[0] = e /\ \A i \in 1 .. N : f[i] = op[i][f[i - 1]]

(* A recursion that goes up over 0 .. N, by steps op, defines a function.  *)
LEMMA UpRecursion ==
  ASSUME NEW T, NEW e \in T, NEW N \in Nat, NEW op \in [1 .. N -> [T -> T]]
  PROVE  \E f : Run(f, N, T, e, op)
<1> DEFINE Good(k, f) == f[0] = e /\ \A i \in 1 .. k : f[i] = op[i][f[i - 1]]
           Some == {k \in 0 .. N : \E f \in [0 .. N -> T] : Good(k, f)}
<1>1. 0 \in Some
  <2> DEFINE g == [i \in 0 .. N |-> e]
  <2>1. g \in [0 .. N -> T] /\ Good(0, g) /\ 0 \in 0 .. N
    OBVIOUS
  <2> HIDE DEF g, Good
  <2> QED
    BY <2>1
<1>2. ASSUME NEW k \in 1 .. N, k - 1 \in Some PROVE k \in Some
  <2>1. PICK f \in [0 .. N -> T] : Good(k - 1, f)
    BY <1>2
  <2> DEFINE g == [i \in 0 .. N |-> IF i = k THEN op[k][f[k - 1]] ELSE f[i]]
  <2>2. g \in [0 .. N -> T]
    <3>1. op[k] \in [T -> T] /\ f[k - 1] \in T
      OBVIOUS
    <3> QED
      BY <3>1
  <2>3. g[0] = e
    <3>1. 0 \in 0 .. N /\ 0 # k
      OBVIOUS
    <3> QED
      BY <2>1, <3>1
  <2>4. ASSUME NEW i \in 1 .. k PROVE g[i] = op[i][g[i - 1]]
    <3>1. g[i - 1] = f[i - 1]
      OBVIOUS
    <3>2. CASE i = k
      BY <3>1, <3>2
    <3>3. CASE i \in 1 .. k - 1
      BY <2>1, <3>1, <3>3
    <3> QED
      BY <3>2, <3>3
  <2>5. Good(k, g)
    BY <2>3, <2>4
  <2> HIDE DEF g, Good
  <2> QED
    BY <2>2, <2>5
<1>3. N \in Some
  <2> HIDE DEF Some
  <2>1. 0 .. N \subseteq Some
    BY <1>1, <1>2, UpInduction
  <2> QED
    BY <2>1
<1> QED
  BY <1>3 DEF Run

(* Induction over sequences, by their last element.                        *)
LEMMA SeqInduction ==
  ASSUME NEW T, NEW S, <<>> \in S, \A s \in Seq(T), x \in T : s \in S => Append(s, x) \in S
  PROVE  Seq(T) \subseteq S
<1> SUFFICES ASSUME NEW s \in Seq(T) PROVE s \in S
  OBVIOUS
<1> DEFINE N == Len(s)
           G == {i \in 0 .. N : SubSeq(s, 1, i) \in S}
<1>1. 0 \in G
  <2>1. SubSeq(s, 1, 0) = <<>>
    BY SubSeqEmpty
  <2>2. SubSeq(s, 1, 0) \in S
    BY <2>1, Zenon
  <2>3. 0 \in 0 .. N
    OBVIOUS
  <2> QED
    BY <2>2, <2>3
<1>2. ASSUME NEW i \in 1 .. N, i - 1 \in G PROVE i \in G
  <2>1. SubSeq(s, 1, i - 1) \in Seq(T) /\ s[i] \in T /\ SubSeq(s, 1, i) = Append(SubSeq(s, 1, i - 1), s[i])
    OBVIOUS
  <2>2. SubSeq(s, 1, i - 1) \in S
    BY <1>2
  <2>3. SubSeq(s, 1, i) \in S
    BY <2>1, <2>2
  <2> QED
    BY <2>3
<1>3. N \in G
  <2>1. N \in Nat
    OBVIOUS
  <2>2. 0 .. N \subseteq G
    <3> HIDE DEF G, N
    <3> QED
      BY <1>1, <1>2, <2>1, UpInduction
  <2> QED
    BY <2>1, <2>2
<1>4. SubSeq(s, 1, N) = s
  OBVIOUS
<1> QED
  BY <1>3, <1>4

(* The sums of a sequence of naturals: each is the one before it and one   *)
(* element more.                                                           *)
LEMMA SumsRule ==
  ASSUME NEW ns \in Seq(Nat)
  PROVE  /\ Sums(ns) \in [0 .. Len(ns) -> Nat]
         /\ Sums(ns)[0] = 0
         /\ \A i \in 1 .. Len(ns) : Sums(ns)[i] = Sums(ns)[i - 1] + ns[i]
<1> DEFINE N == Len(ns)
           op == [i \in 1 .. N |-> [x \in Nat |-> x + ns[i]]]
<1>1. N \in Nat /\ op \in [1 .. N -> [Nat -> Nat]]
  OBVIOUS
<1>2. PICK f : Run(f, N, Nat, 0, op)
  BY <1>1, UpRecursion
<1>a. \A i \in 1 .. N : f[i - 1] \in Nat /\ f[i] = f[i - 1] + ns[i]
  <2> TAKE i \in 1 .. N
  <2>1. i - 1 \in 0 .. N
    OBVIOUS
  <2>2. f[i - 1] \in Nat
    BY <1>2, <2>1 DEF Run
  <2>3. op[i][f[i - 1]] = f[i - 1] + ns[i]
    BY <2>2
  <2> QED
    BY <1>2, <2>2, <2>3 DEF Run
<1>3. f = [i \in 0 .. Len(ns) |-> IF i = 0 THEN 0 ELSE f[i - 1] + ns[i]]
  BY <1>2, <1>a DEF Run
<1> HIDE DEF op
<1>4. Sums(ns) = [i \in 0 .. Len(ns) |-> IF i = 0 THEN 0 ELSE Sums(ns)[i - 1] + ns[i]]
  BY <1>3 DEF Sums
<1> DEFINE G == {i \in 0 .. N : Sums(ns)[i] \in Nat}
<1>5. 0 .. N \subseteq G
  <2>1. 0 \in G
    BY <1>1, <1>4
  <2>2. ASSUME NEW i \in 1 .. N, i - 1 \in G PROVE i \in G
    <3>1. Sums(ns)[i] = Sums(ns)[i - 1] + ns[i] /\ i \in 0 .. N
      <4>1. i \in 0 .. N /\ i # 0
        OBVIOUS
      <4> QED
        BY <1>4, <4>1
    <3>2. Sums(ns)[i - 1] \in Nat /\ ns[i] \in Nat
      BY <2>2
    <3> QED
      BY <3>1, <3>2
  <2> HIDE DEF G, N
  <2> QED
    BY <1>1, <2>1, <2>2, UpInduction
<1>6. \A i \in 0 .. Len(ns) : Sums(ns)[i] \in Nat
  BY <1>5
<1>7. Sums(ns) \in [0 .. Len(ns) -> Nat]
  BY <1>4, <1>6
<1>8. Sums(ns)[0] = 0
  BY <1>1, <1>4
<1>9. \A i \in 1 .. Len(ns) : Sums(ns)[i] = Sums(ns)[i - 1] + ns[i]
  <2>1. \A i \in 1 .. Len(ns) : i \in 0 .. Len(ns) /\ i # 0
    OBVIOUS
  <2> QED
    BY <1>4, <2>1
<1> QED
  BY <1>7, <1>8, <1>9

(* Two runs whose steps agree as far as M agree as far as M.               *)
LEMMA RunsAgree ==
  ASSUME NEW T, NEW e, NEW M \in Nat, NEW N \in Nat, M <= N, NEW f, NEW g, NEW op, NEW other,
         Run(f, M, T, e, op), Run(g, N, T, e, other), \A i \in 1 .. M : op[i] = other[i]
  PROVE  \A i \in 0 .. M : f[i] = g[i]
<1> DEFINE G == {i \in 0 .. M : f[i] = g[i]}
<1>1. 0 \in G
  BY DEF Run
<1>2. ASSUME NEW i \in 1 .. M, i - 1 \in G PROVE i \in G
  <2>1. i \in 1 .. N /\ f[i - 1] = g[i - 1]
    BY <1>2
  <2>2. f[i] = op[i][f[i - 1]] /\ g[i] = other[i][g[i - 1]] /\ op[i] = other[i]
    BY <2>1 DEF Run
  <2> QED
    BY <2>1, <2>2
<1>3. 0 .. M \subseteq G
  <2> HIDE DEF G
  <2> QED
    BY <1>1, <1>2, UpInduction
<1> QED
  BY <1>3

(* A function that keeps the equations of a run is that run: what a        *)
(* recursive definition needs to be one.                                   *)
LEMMA RunByEquation ==
  ASSUME NEW T, NEW e \in T, NEW N \in Nat, NEW op \in [1 .. N -> [T -> T]], NEW g,
         g = [i \in 0 .. N |-> g[i]], g[0] = e, \A i \in 1 .. N : g[i - 1] \in T => g[i] = op[i][g[i - 1]]
  PROVE  Run(g, N, T, e, op)
<1> DEFINE G == {i \in 0 .. N : g[i] \in T}
<1>1. 0 \in G
  OBVIOUS
<1>2. ASSUME NEW i \in 1 .. N, i - 1 \in G PROVE i \in G
  <2>1. g[i - 1] \in T /\ op[i] \in [T -> T] /\ i \in 0 .. N
    BY <1>2
  <2>2. g[i] = op[i][g[i - 1]]
    BY <2>1
  <2>3. op[i][g[i - 1]] \in T
    BY <2>1
  <2> QED
    BY <2>1, <2>2, <2>3
<1>3. 0 .. N \subseteq G
  <2> HIDE DEF G
  <2> QED
    BY <1>1, <1>2, UpInduction
<1>4. g \in [0 .. N -> T]
  BY <1>3
<1>5. \A i \in 1 .. N : g[i - 1] \in T
  BY <1>4
<1> QED
  BY <1>4, <1>5 DEF Run

(* One step of a run.                                                      *)
LEMMA RunStep ==
  ASSUME NEW T, NEW e, NEW N \in Nat, NEW op, NEW f, Run(f, N, T, e, op), NEW i \in 1 .. N
  PROVE  f[i - 1] \in T /\ f[i] = op[i][f[i - 1]] /\ i \in 0 .. N /\ i # 0
<1>1. i - 1 \in 0 .. N /\ i \in 0 .. N /\ i # 0
  OBVIOUS
<1> QED
  BY <1>1 DEF Run

(* What Append makes, element by element.                                  *)
LEMMA AppendParts ==
  ASSUME NEW A, NEW s \in Seq(A), NEW x \in A
  PROVE  /\ Append(s, x) \in Seq(A) /\ Len(s) \in Nat /\ Len(Append(s, x)) = Len(s) + 1
         /\ \A i \in 1 .. Len(s) : Append(s, x)[i] = s[i] /\ s[i] \in A
         /\ Append(s, x)[Len(s) + 1] = x
BY AppendProperties

Steps(s, st) == [i \in 1 .. Len(s) |-> st[s[i]]]

(* The steps a sequence makes of one step per element.                     *)
LEMMA StepsType ==
  ASSUME NEW A, NEW T, NEW st \in [A -> [T -> T]], NEW s \in Seq(A)
  PROVE  /\ Len(s) \in Nat /\ Steps(s, st) \in [1 .. Len(s) -> [T -> T]]
         /\ \A i \in 1 .. Len(s) : Steps(s, st)[i] = st[s[i]] /\ s[i] \in A
<1>1. Len(s) \in Nat /\ \A i \in 1 .. Len(s) : s[i] \in A
  OBVIOUS
<1> QED
  BY <1>1 DEF Steps

(* A definition that is a run over its sequence has the two equations of a *)
(* fold, on the empty sequence and on Append.                              *)
LEMMA FoldRules ==
  ASSUME NEW A, NEW T, NEW e \in T, NEW st \in [A -> [T -> T]], NEW F,
         \A s \in Seq(A) : \E f : Run(f, Len(s), T, e, Steps(s, st)) /\ F[s] = f[Len(s)]
  PROVE  /\ F[<<>>] = e
         /\ \A s \in Seq(A) : F[s] \in T /\ \A x \in A : F[Append(s, x)] = st[x][F[s]]
<1>1. ASSUME NEW s \in Seq(A) PROVE F[s] \in T
  <2>1. PICK f : Run(f, Len(s), T, e, Steps(s, st)) /\ F[s] = f[Len(s)]
    OBVIOUS
  <2>2. Len(s) \in 0 .. Len(s)
    OBVIOUS
  <2> QED
    BY <2>1, <2>2 DEF Run
<1>2. F[<<>>] = e
  <2>1. <<>> \in Seq(A) /\ Len(<<>>) = 0
    OBVIOUS
  <2>2. PICK f : Run(f, Len(<<>>), T, e, Steps(<<>>, st)) /\ F[<<>>] = f[Len(<<>>)]
    BY <2>1
  <2> QED
    BY <2>1, <2>2 DEF Run
<1>3. ASSUME NEW s \in Seq(A), NEW x \in A PROVE F[Append(s, x)] = st[x][F[s]]
  <2> DEFINE r == Append(s, x)
             n == Len(s)
  <2>1. r \in Seq(A) /\ n \in Nat /\ Len(r) = n + 1 /\ r[n + 1] = x /\ \A i \in 1 .. n : r[i] = s[i]
    BY AppendParts
  <2> HIDE DEF r
  <2>2. PICK f : Run(f, n, T, e, Steps(s, st)) /\ F[s] = f[n]
    OBVIOUS
  <2>3. PICK g : Run(g, Len(r), T, e, Steps(r, st)) /\ F[r] = g[Len(r)]
    BY <2>1
  <2>4. \A i \in 1 .. n : Steps(s, st)[i] = Steps(r, st)[i]
    BY <2>1 DEF Steps
  <2> HIDE DEF n
  <2>5. Run(g, n + 1, T, e, Steps(r, st)) /\ F[r] = g[n + 1]
    BY <2>1, <2>3
  <2>6. n + 1 \in Nat /\ n <= n + 1 /\ n \in 0 .. n /\ n + 1 \in 1 .. n + 1 /\ (n + 1) - 1 = n
    BY <2>1
  <2>7. f[n] = g[n]
    <3>1. \A i \in 0 .. n : f[i] = g[i]
      BY <2>1, <2>2, <2>4, <2>5, <2>6, RunsAgree
    <3> QED
      BY <2>6, <3>1
  <2>8. g[n + 1] = Steps(r, st)[n + 1][g[n]]
    BY <2>5, <2>6 DEF Run
  <2>9. Steps(r, st)[n + 1] = st[x]
    BY <2>1, <2>6 DEF Steps
  <2> QED
    BY <2>2, <2>5, <2>7, <2>8, <2>9 DEF r
<1> QED
  BY <1>1, <1>2, <1>3

(* Only.                                                                   *)
OnlyStep(A, S) == [x \in A |-> [o \in Seq(A) |-> IF x \in S THEN Append(o, x) ELSE o]]

(* Only is a run over its sequence.                                        *)
LEMMA OnlyRuns ==
  ASSUME NEW A, NEW S, NEW s \in Seq(A)
  PROVE  \E f : Run(f, Len(s), Seq(A), <<>>, Steps(s, OnlyStep(A, S))) /\ Only(s, S) = f[Len(s)]
<1> DEFINE N == Len(s)
           T == Seq(A)
           op == Steps(s, OnlyStep(A, S))
           Fits(g) == g = [i \in 0 .. N |->
                     IF i = 0 THEN <<>> ELSE IF s[i] \in S THEN Append(g[i - 1], s[i]) ELSE g[i - 1]]
<1>1. <<>> \in T /\ OnlyStep(A, S) \in [A -> [T -> T]]
  BY DEF OnlyStep
<1>2. N \in Nat /\ op \in [1 .. N -> [T -> T]] /\ \A i \in 1 .. N : op[i] = OnlyStep(A, S)[s[i]] /\ s[i] \in A
  BY <1>1, StepsType
<1>3. ASSUME NEW i \in 1 .. N, NEW o \in T PROVE op[i][o] = IF s[i] \in S THEN Append(o, s[i]) ELSE o
  BY <1>2 DEF OnlyStep
<1> HIDE DEF op
<1>4. PICK f : Run(f, N, T, <<>>, op)
  <2> HIDE DEF N, T
  <2> QED
    BY <1>1, <1>2, UpRecursion
<1>5. Fits(f)
  <2>1. \A i \in 1 .. N : f[i - 1] \in T /\ f[i] = op[i][f[i - 1]]
    <3>1. N \in Nat
      BY <1>2
    <3> HIDE DEF N, T, Fits
    <3> TAKE i \in 1 .. N
    <3> QED
      BY <1>4, <3>1, RunStep
  <2>2. \A i \in 1 .. N : f[i] = IF s[i] \in S THEN Append(f[i - 1], s[i]) ELSE f[i - 1]
    BY <1>3, <2>1
  <2>3. f \in [0 .. N -> T] /\ f[0] = <<>>
    BY <1>4 DEF Run
  <2>4. \A i \in 0 .. N : i # 0 => i \in 1 .. N
    OBVIOUS
  <2> QED
    BY <2>2, <2>3, <2>4
<1> DEFINE g == CHOOSE g : Fits(g)
<1>6. Fits(g)
  BY <1>5
<1>7. Only(s, S) = g[N]
  BY DEF Only
<1>8. Run(g, N, T, <<>>, op)
  <2> HIDE DEF g
  <2>1. g = [i \in 0 .. N |-> g[i]] /\ g[0] = <<>>
    BY <1>2, <1>6
  <2>2. \A i \in 1 .. N : i \in 0 .. N /\ i # 0
    OBVIOUS
  <2>3. \A i \in 1 .. N : g[i] = IF s[i] \in S THEN Append(g[i - 1], s[i]) ELSE g[i - 1]
    BY <1>6, <2>2
  <2>4. \A i \in 1 .. N : g[i - 1] \in T => g[i] = op[i][g[i - 1]]
    BY <1>3, <2>3
  <2> HIDE DEF Fits, N, T
  <2> QED
    BY <1>1, <1>2, <2>1, <2>4, RunByEquation
<1> QED
  BY <1>7, <1>8 DEF op

OnlyGrows(A, S) ==
  /\ Only(<<>>, S) = <<>>
  /\ \A s \in Seq(A) : Only(s, S) \in Seq(A)
  /\ \A s \in Seq(A), x \in A : x \in S => Only(Append(s, x), S) = Append(Only(s, S), x)
  /\ \A s \in Seq(A), x \in A : x \notin S => Only(Append(s, x), S) = Only(s, S)

(* Only, on the empty sequence and on Append.                              *)
LEMMA OnlyRules ==
  ASSUME NEW A, NEW S
  PROVE  OnlyGrows(A, S)
<1> DEFINE T == Seq(A)
           F == [s \in T |-> Only(s, S)]
           st == OnlyStep(A, S)
<1>1. <<>> \in T /\ st \in [A -> [T -> T]] /\ \A s \in T, x \in A : Append(s, x) \in T
  BY DEF OnlyStep
<1>2. \A x \in A, o \in T : st[x][o] = IF x \in S THEN Append(o, x) ELSE o
  BY DEF OnlyStep
<1>3. \A s \in Seq(A) : \E f : Run(f, Len(s), T, <<>>, Steps(s, st)) /\ F[s] = f[Len(s)]
  BY OnlyRuns
<1> HIDE DEF st
<1>4. /\ F[<<>>] = <<>>
      /\ \A s \in Seq(A) : F[s] \in T /\ \A x \in A : F[Append(s, x)] = st[x][F[s]]
  <2> HIDE DEF F, T
  <2> QED
    BY <1>1, <1>3, FoldRules
<1>5. \A s \in T : F[s] = Only(s, S)
  OBVIOUS
<1> HIDE DEF F
<1>6. Only(<<>>, S) = <<>>
  BY <1>1, <1>4, <1>5
<1>7. ASSUME NEW s \in Seq(A) PROVE Only(s, S) \in Seq(A)
  BY <1>4, <1>5
<1>8. ASSUME NEW s \in Seq(A), NEW x \in A
      PROVE  /\ x \in S => Only(Append(s, x), S) = Append(Only(s, S), x)
             /\ x \notin S => Only(Append(s, x), S) = Only(s, S)
  <2>1. Append(s, x) \in T /\ F[s] \in T
    BY <1>1, <1>4
  <2>2. F[Append(s, x)] = IF x \in S THEN Append(F[s], x) ELSE F[s]
    BY <1>2, <1>4, <2>1
  <2> QED
    BY <1>5, <2>1, <2>2
<1> QED
  BY <1>6, <1>7, <1>8 DEF OnlyGrows

(* Nothing of nothing is kept.                                             *)
LEMMA OnlyEmpty == \A S : Only(<<>>, S) = <<>>
BY OnlyRules DEF OnlyGrows

(* Only keeps the type of its sequence.                                    *)
LEMMA OnlyType ==
  ASSUME NEW A, NEW S, NEW s \in Seq(A)
  PROVE  Only(s, S) \in Seq(A)
BY OnlyRules DEF OnlyGrows

(* Only keeps a further element, or drops it.                              *)
LEMMA OnlyAppend ==
  ASSUME NEW A, NEW S, NEW s \in Seq(A), NEW x \in A
  PROVE  /\ x \in S => Only(Append(s, x), S) = Append(Only(s, S), x)
         /\ x \notin S => Only(Append(s, x), S) = Only(s, S)
<1>1. OnlyGrows(A, S)
  BY OnlyRules
<1> QED
  BY <1>1 DEF OnlyGrows

(* Only of two sequences, one after the other.                             *)
LEMMA OnlyConcat ==
  ASSUME NEW A, NEW S, NEW s \in Seq(A), NEW t \in Seq(A)
  PROVE  Only(s \o t, S) = Only(s, S) \o Only(t, S)
<1> DEFINE G == {r \in Seq(A) : Only(s \o r, S) = Only(s, S) \o Only(r, S)}
<1>1. <<>> \in G
  <2>1. s \o <<>> = s /\ Only(s, S) \o <<>> = Only(s, S) /\ Only(<<>>, S) = <<>> /\ <<>> \in Seq(A)
    BY OnlyEmpty
  <2> QED
    BY <2>1
<1>2. ASSUME NEW r \in Seq(A), NEW x \in A, r \in G PROVE Append(r, x) \in G
  <2>1. s \o r \in Seq(A) /\ Append(r, x) \in Seq(A) /\ s \o Append(r, x) = Append(s \o r, x)
    OBVIOUS
  <2>2. /\ x \in S => Only(Append(s \o r, x), S) = Append(Only(s \o r, S), x)
        /\ x \notin S => Only(Append(s \o r, x), S) = Only(s \o r, S)
    BY <2>1, OnlyAppend
  <2>3. /\ x \in S => Only(Append(r, x), S) = Append(Only(r, S), x)
        /\ x \notin S => Only(Append(r, x), S) = Only(r, S)
    BY OnlyAppend
  <2>4. Only(s, S) \in Seq(A) /\ Only(r, S) \in Seq(A)
    BY OnlyType
  <2>5. Only(s, S) \o Append(Only(r, S), x) = Append(Only(s, S) \o Only(r, S), x)
    BY <2>4
  <2>6. Only(s \o r, S) = Only(s, S) \o Only(r, S)
    BY <1>2
  <2>7. Only(s \o Append(r, x), S) = Only(s, S) \o Only(Append(r, x), S)
    BY <2>1, <2>2, <2>3, <2>5, <2>6
  <2> QED
    BY <2>1, <2>7
<1>3. t \in G
  <2> HIDE DEF G
  <2> QED
    BY <1>1, <1>2, SeqInduction
<1> QED
  BY <1>3

(* The elements that Only keeps are those of the sequence that are in the  *)
(* set.                                                                    *)
LEMMA OnlyElements ==
  ASSUME NEW A, NEW S, NEW s \in Seq(A)
  PROVE  /\ \A k \in DOMAIN Only(s, S) : \E j \in DOMAIN s : Only(s, S)[k] = s[j] /\ s[j] \in S
         /\ \A j \in DOMAIN s : s[j] \in S => \E k \in DOMAIN Only(s, S) : Only(s, S)[k] = s[j]
<1> DEFINE Kept(r) == \A k \in DOMAIN Only(r, S) : \E j \in DOMAIN r : Only(r, S)[k] = r[j] /\ r[j] \in S
           All(r) == \A j \in DOMAIN r : r[j] \in S => \E k \in DOMAIN Only(r, S) : Only(r, S)[k] = r[j]
           G == {r \in Seq(A) : Kept(r) /\ All(r)}
<1>1. <<>> \in G
  BY OnlyEmpty
<1>2. ASSUME NEW r \in Seq(A), NEW x \in A, r \in G PROVE Append(r, x) \in G
  <2> DEFINE n == Len(r)
             o == Only(r, S)
             m == Len(o)
             q == Append(r, x)
  <2>1. q \in Seq(A) /\ DOMAIN q = 1 .. n + 1 /\ DOMAIN r = 1 .. n /\ q[n + 1] = x /\ n \in Nat
        /\ \A j \in 1 .. n : q[j] = r[j]
    BY AppendParts
  <2>2. o \in Seq(A) /\ DOMAIN o = 1 .. m /\ m \in Nat
    <3>1. Only(r, S) \in Seq(A)
      BY OnlyType
    <3> QED
      BY <3>1
  <2>3. (x \in S => Only(q, S) = Append(o, x)) /\ (x \notin S => Only(q, S) = o)
    BY OnlyAppend
  <2>4. Kept(r) /\ All(r)
    BY <1>2
  <2> HIDE DEF n, o, m, q
  <2>5. CASE x \in S
    <3>1. DOMAIN Only(q, S) = 1 .. m + 1 /\ Only(q, S)[m + 1] = x /\ \A k \in 1 .. m : Only(q, S)[k] = o[k]
      BY <2>2, <2>3, <2>5 DEF m
    <3>2. Kept(q)
      <4> SUFFICES ASSUME NEW k \in 1 .. m + 1 PROVE \E j \in 1 .. n + 1 : Only(q, S)[k] = q[j] /\ q[j] \in S
        BY <2>1, <3>1
      <4>1. CASE k = m + 1
        BY <2>1, <2>5, <3>1, <4>1
      <4>2. CASE k \in 1 .. m
        <5>1. PICK j \in 1 .. n : o[k] = r[j] /\ r[j] \in S
          BY <2>1, <2>2, <2>4, <4>2 DEF o
        <5> QED
          BY <2>1, <3>1, <4>2, <5>1
      <4> QED
        BY <2>2, <4>1, <4>2
    <3>3. All(q)
      <4> SUFFICES ASSUME NEW j \in 1 .. n + 1, q[j] \in S PROVE \E k \in 1 .. m + 1 : Only(q, S)[k] = q[j]
        BY <2>1, <3>1
      <4>1. CASE j = n + 1
        BY <2>1, <2>2, <3>1, <4>1
      <4>2. CASE j \in 1 .. n
        <5>1. PICK k \in 1 .. m : o[k] = r[j]
          BY <2>1, <2>2, <2>4, <4>2 DEF o
        <5>2. k \in 1 .. m + 1
          BY <2>2
        <5> QED
          BY <2>1, <3>1, <4>2, <5>1, <5>2
      <4> QED
        BY <2>1, <4>1, <4>2
    <3>4. q \in G
      <4> HIDE DEF Kept, All
      <4> QED
        BY <2>1, <3>2, <3>3
    <3> QED
      BY <3>4 DEF q
  <2>6. CASE x \notin S
    <3>1. Only(q, S) = o
      BY <2>3, <2>6
    <3>2. Kept(q)
      BY <2>1, <2>4, <3>1 DEF o
    <3>3. All(q)
      <4> SUFFICES ASSUME NEW j \in 1 .. n + 1, q[j] \in S PROVE \E k \in DOMAIN o : o[k] = q[j]
        BY <2>1, <3>1
      <4>1. j \in 1 .. n
        BY <2>1, <2>6
      <4> QED
        BY <2>1, <2>4, <4>1 DEF o
    <3>4. q \in G
      <4> HIDE DEF Kept, All
      <4> QED
        BY <2>1, <3>2, <3>3
    <3> QED
      BY <3>4 DEF q
  <2> QED
    BY <2>5, <2>6 DEF q
<1>3. s \in G
  <2> HIDE DEF G
  <2> QED
    BY <1>1, <1>2, SeqInduction
<1> QED
  BY <1>3

(* FlattenSeq                                                              *)
FlatStep(A) == [x \in Seq(A) |-> [o \in Seq(A) |-> o \o x]]

(* FlattenSeq is a run over its sequence.                                  *)
LEMMA FlattenRuns ==
  ASSUME NEW A, NEW s \in Seq(Seq(A))
  PROVE  \E f : Run(f, Len(s), Seq(A), <<>>, Steps(s, FlatStep(A))) /\ FlattenSeq(s) = f[Len(s)]
<1> DEFINE N == Len(s)
           T == Seq(A)
           op == Steps(s, FlatStep(A))
           Fits(g) == g = [i \in 1 .. N |-> IF i = 1 THEN s[i] ELSE g[i - 1] \o s[i]]
<1>1. <<>> \in T /\ FlatStep(A) \in [T -> [T -> T]]
  BY DEF FlatStep
<1>2. N \in Nat /\ op \in [1 .. N -> [T -> T]] /\ \A i \in 1 .. N : op[i] = FlatStep(A)[s[i]] /\ s[i] \in T
  BY <1>1, StepsType
<1>3. ASSUME NEW i \in 1 .. N, NEW o \in T PROVE op[i][o] = o \o s[i]
  <2>1. op[i] = FlatStep(A)[s[i]] /\ s[i] \in T
    BY <1>2
  <2>2. \A x \in T : FlatStep(A)[x][o] = o \o x
    BY DEF FlatStep
  <2> HIDE DEF op, T
  <2> QED
    BY <2>1, <2>2
<1> HIDE DEF op
<1>4. PICK f : Run(f, N, T, <<>>, op)
  <2> HIDE DEF N, T
  <2> QED
    BY <1>1, <1>2, UpRecursion
<1>5. \E h : Fits(h)
  <2> DEFINE h == [i \in 1 .. N |-> f[i]]
  <2>1. \A i \in 1 .. N : f[i - 1] \in T /\ f[i] = op[i][f[i - 1]]
    <3>1. N \in Nat
      BY <1>2
    <3> HIDE DEF N, T, Fits, h
    <3> TAKE i \in 1 .. N
    <3>2. i - 1 \in 0 .. N
      BY <3>1
    <3> QED
      BY <1>4, <3>2 DEF Run
  <2>2. \A i \in 1 .. N : f[i] = f[i - 1] \o s[i]
    BY <1>3, <2>1
  <2>3. f[0] = <<>>
    BY <1>4 DEF Run
  <2>4. ASSUME NEW i \in 1 .. N PROVE f[i] = IF i = 1 THEN s[i] ELSE h[i - 1] \o s[i]
    <3>1. CASE i = 1
      <4>1. f[1] = <<>> \o s[1] /\ s[1] \in T
        <5>1. f[1] = f[1 - 1] \o s[1] /\ s[1] \in T
          BY <1>2, <2>2, <3>1
        <5>2. 1 - 1 = 0
          OBVIOUS
        <5> QED
          BY <2>3, <5>1, <5>2
      <4>2. <<>> \o s[1] = s[1]
        BY <4>1
      <4> QED
        BY <3>1, <4>1, <4>2
    <3>2. CASE i # 1
      <4>1. i - 1 \in 1 .. N
        BY <3>2
      <4> QED
        BY <2>2, <3>2, <4>1
    <3> QED
      BY <3>1, <3>2
  <2>5. Fits(h)
    BY <2>4
  <2> QED
    BY <2>5
<1> DEFINE g == CHOOSE g : Fits(g)
<1>6. Fits(g)
  BY <1>5
<1>7. FlattenSeq(s) = IF N = 0 THEN s ELSE g[N]
  BY DEF FlattenSeq
<1> HIDE DEF g
<1> DEFINE k == [i \in 0 .. N |-> IF i = 0 THEN <<>> ELSE g[i]]
<1>8. Run(k, N, T, <<>>, op)
  <2>1. k = [i \in 0 .. N |-> k[i]] /\ k[0] = <<>>
    BY <1>2
  <2>2. ASSUME NEW i \in 1 .. N, k[i - 1] \in T PROVE k[i] = op[i][k[i - 1]]
    <3>1. k[i] = g[i] /\ s[i] \in T
      BY <1>2
    <3>2. CASE i = 1
      <4>1. k[i - 1] = <<>>
        BY <1>2, <3>2
      <4>2. g[i] = s[i]
        BY <1>6, <3>2
      <4>3. <<>> \o s[i] = s[i]
        BY <3>1
      <4> QED
        BY <1>3, <2>2, <3>1, <4>1, <4>2, <4>3
    <3>3. CASE i # 1
      <4>1. k[i - 1] = g[i - 1]
        BY <1>2, <3>3
      <4>2. g[i] = g[i - 1] \o s[i]
        BY <1>6, <3>3
      <4> QED
        BY <1>3, <2>2, <3>1, <4>1, <4>2
    <3> QED
      BY <3>2, <3>3
  <2> HIDE DEF Fits, N, T, k
  <2> QED
    BY <1>1, <1>2, <2>1, <2>2, RunByEquation
<1>9. FlattenSeq(s) = k[N]
  <2>1. N = 0 => s = <<>>
    OBVIOUS
  <2> QED
    BY <1>2, <1>7, <2>1
<1> HIDE DEF k
<1> QED
  BY <1>8, <1>9 DEF op

FlattenGrows(A) ==
  /\ FlattenSeq(<<>>) = <<>>
  /\ \A s \in Seq(Seq(A)) : FlattenSeq(s) \in Seq(A)
  /\ \A s \in Seq(Seq(A)), x \in Seq(A) : FlattenSeq(Append(s, x)) = FlattenSeq(s) \o x

(* FlattenSeq, on the empty sequence and on Append.                        *)
LEMMA FlattenRules ==
  ASSUME NEW A
  PROVE  FlattenGrows(A)
<1> DEFINE T == Seq(A)
           F == [s \in Seq(T) |-> FlattenSeq(s)]
           st == FlatStep(A)
<1>1. <<>> \in T /\ st \in [T -> [T -> T]] /\ \A s \in Seq(T), x \in T : Append(s, x) \in Seq(T)
  BY DEF FlatStep
<1>2. \A x \in T, o \in T : st[x][o] = o \o x
  BY DEF FlatStep
<1>3. \A s \in Seq(T) : \E f : Run(f, Len(s), T, <<>>, Steps(s, st)) /\ F[s] = f[Len(s)]
  BY FlattenRuns
<1> HIDE DEF st
<1>4. /\ F[<<>>] = <<>>
      /\ \A s \in Seq(T) : F[s] \in T /\ \A x \in T : F[Append(s, x)] = st[x][F[s]]
  <2> HIDE DEF F, T
  <2> QED
    BY <1>1, <1>3, FoldRules
<1>5. \A s \in Seq(T) : F[s] = FlattenSeq(s)
  OBVIOUS
<1>a. <<>> \in Seq(T)
  OBVIOUS
<1> HIDE DEF F
<1>6. FlattenSeq(<<>>) = <<>>
  BY <1>4, <1>5, <1>a
<1>7. ASSUME NEW s \in Seq(Seq(A)) PROVE FlattenSeq(s) \in Seq(A)
  BY <1>4, <1>5
<1>8. ASSUME NEW s \in Seq(Seq(A)), NEW x \in Seq(A) PROVE FlattenSeq(Append(s, x)) = FlattenSeq(s) \o x
  <2>1. Append(s, x) \in Seq(T) /\ F[s] \in T
    BY <1>1, <1>4
  <2>2. F[Append(s, x)] = F[s] \o x
    BY <1>2, <1>4, <2>1
  <2> QED
    BY <1>5, <2>1, <2>2
<1> QED
  BY <1>6, <1>7, <1>8 DEF FlattenGrows

(* Nothing flattened is nothing.                                           *)
LEMMA FlattenEmpty == FlattenSeq(<<>>) = <<>>
<1>1. FlattenGrows({})
  BY FlattenRules
<1> QED
  BY <1>1 DEF FlattenGrows

(* FlattenSeq keeps the type of the elements.                              *)
LEMMA FlattenType ==
  ASSUME NEW A, NEW s \in Seq(Seq(A))
  PROVE  FlattenSeq(s) \in Seq(A)
<1>1. FlattenGrows(A)
  BY FlattenRules
<1> QED
  BY <1>1 DEF FlattenGrows

(* A further sequence goes to the end of what was flattened.               *)
LEMMA FlattenAppend ==
  ASSUME NEW A, NEW s \in Seq(Seq(A)), NEW x \in Seq(A)
  PROVE  FlattenSeq(Append(s, x)) = FlattenSeq(s) \o x
<1>1. FlattenGrows(A)
  BY FlattenRules
<1> QED
  BY <1>1 DEF FlattenGrows

Each(G, s) == [k \in DOMAIN s |-> G[s[k]]]

(* A function applied to each element, on Append.                          *)
LEMMA MapAppend ==
  ASSUME NEW A, NEW B, NEW G \in [A -> B], NEW s \in Seq(A), NEW x \in A
  PROVE  Each(G, s) \in Seq(B) /\ Each(G, Append(s, x)) = Append(Each(G, s), G[x])
<1> DEFINE m == [k \in DOMAIN s |-> G[s[k]]]
           r == Append(s, x)
           n == [k \in DOMAIN r |-> G[r[k]]]
<1>1. r \in Seq(A) /\ Len(s) \in Nat /\ Len(r) = Len(s) + 1 /\ r[Len(s) + 1] = x
      /\ DOMAIN r = 1 .. Len(s) + 1 /\ DOMAIN s = 1 .. Len(s)
      /\ \A i \in 1 .. Len(s) : r[i] = s[i] /\ s[i] \in A
  BY AppendParts
<1> HIDE DEF r
<1>2. m \in Seq(B) /\ Len(m) = Len(s) /\ \A i \in 1 .. Len(s) : m[i] = G[s[i]]
  BY <1>1
<1>3. n \in Seq(B) /\ Len(n) = Len(s) + 1 /\ \A i \in 1 .. Len(s) + 1 : n[i] = G[r[i]]
  <2>1. \A i \in 1 .. Len(s) + 1 : r[i] \in A
    BY <1>1
  <2> QED
    BY <1>1, <2>1
<1> HIDE DEF m, n
<1>4. Append(m, G[x]) \in Seq(B) /\ Len(Append(m, G[x])) = Len(s) + 1
      /\ Append(m, G[x])[Len(s) + 1] = G[x] /\ \A i \in 1 .. Len(s) : Append(m, G[x])[i] = G[s[i]]
  BY <1>1, <1>2
<1>5. \A i \in 1 .. Len(s) + 1 : n[i] = Append(m, G[x])[i]
  BY <1>1, <1>3, <1>4
<1>6. n = Append(m, G[x])
  BY <1>3, <1>4, <1>5, SeqEqual
<1> QED
  BY <1>2, <1>6 DEF m, n, r, Each

(* A function applied to each element, element by element.                 *)
LEMMA MapParts ==
  ASSUME NEW A, NEW B, NEW G \in [A -> B], NEW s \in Seq(A)
  PROVE  /\ Each(G, s) \in Seq(B) /\ Len(Each(G, s)) = Len(s) /\ Each(G, <<>>) = <<>>
         /\ \A k \in DOMAIN s : Each(G, s)[k] = G[s[k]] /\ G[s[k]] \in B
<1>1. DOMAIN s = 1 .. Len(s) /\ Len(s) \in Nat /\ \A k \in 1 .. Len(s) : s[k] \in A
  OBVIOUS
<1> QED
  BY <1>1 DEF Each

(* Sums                                                                    *)
LEMMA SumsPrefix ==
  ASSUME NEW ms \in Seq(Nat), NEW ns \in Seq(Nat), NEW k \in Nat, k <= Len(ms), k <= Len(ns),
         \A i \in 1 .. k : ms[i] = ns[i]
  PROVE  \A i \in 0 .. k : Sums(ms)[i] = Sums(ns)[i]
<1> DEFINE G == {i \in 0 .. k : Sums(ms)[i] = Sums(ns)[i]}
<1>1. 0 \in G
  BY SumsRule
<1>2. ASSUME NEW i \in 1 .. k, i - 1 \in G PROVE i \in G
  <2>1. i \in 1 .. Len(ms) /\ i \in 1 .. Len(ns)
    OBVIOUS
  <2>2. Sums(ms)[i] = Sums(ms)[i - 1] + ms[i]
    BY <2>1, SumsRule
  <2>3. Sums(ns)[i] = Sums(ns)[i - 1] + ns[i]
    BY <2>1, SumsRule
  <2> QED
    BY <1>2, <2>2, <2>3
<1>3. 0 .. k \subseteq G
  <2> HIDE DEF G
  <2> QED
    BY <1>1, <1>2, UpInduction
<1> QED
  BY <1>3

(* A total is a natural number, 0 of nothing.                              *)
LEMMA TotalType ==
  ASSUME NEW ns \in Seq(Nat)
  PROVE  Total(ns) \in Nat /\ (ns = <<>> => Total(ns) = 0)
<1>1. Len(ns) \in 0 .. Len(ns) /\ (ns = <<>> => Len(ns) = 0)
  OBVIOUS
<1> QED
  BY <1>1, SumsRule DEF Total

(* A further number adds to the total.                                     *)
LEMMA TotalAppend ==
  ASSUME NEW ns \in Seq(Nat), NEW x \in Nat
  PROVE  Total(Append(ns, x)) = Total(ns) + x
<1> DEFINE r == Append(ns, x)
           n == Len(ns)
<1>1. r \in Seq(Nat) /\ n \in Nat /\ Len(r) = n + 1 /\ r[n + 1] = x /\ \A i \in 1 .. n : r[i] = ns[i]
  BY AppendParts
<1> HIDE DEF r
<1>2. n \in 0 .. n /\ n <= Len(r) /\ n <= Len(ns) /\ n + 1 \in 1 .. Len(r) /\ (n + 1) - 1 = n
  BY <1>1
<1>3. Sums(r)[n] = Sums(ns)[n]
  <2>1. \A i \in 0 .. n : Sums(r)[i] = Sums(ns)[i]
    <3>1. r \in Seq(Nat) /\ ns \in Seq(Nat) /\ n \in Nat /\ n <= Len(r) /\ n <= Len(ns) /\ \A i \in 1 .. n : r[i] = ns[i]
      BY <1>1, <1>2
    <3> HIDE DEF n
    <3> QED
      BY <3>1, SumsPrefix
  <2> QED
    BY <1>2, <2>1
<1>4. Sums(r)[n + 1] = Sums(r)[n] + x
  BY <1>1, <1>2, SumsRule
<1> QED
  BY <1>1, <1>3, <1>4 DEF Total, r

(* The total of two sequences is the sum of their totals.                  *)
LEMMA TotalConcat ==
  ASSUME NEW ms \in Seq(Nat), NEW ns \in Seq(Nat)
  PROVE  Total(ms \o ns) = Total(ms) + Total(ns)
<1> DEFINE G == {s \in Seq(Nat) : Total(ms \o s) = Total(ms) + Total(s)}
<1>1. <<>> \in G
  <2>1. ms \o <<>> = ms /\ <<>> \in Seq(Nat)
    OBVIOUS
  <2>2. Total(<<>>) = 0 /\ Total(ms) \in Nat
    BY <2>1, TotalType
  <2> QED
    BY <2>1, <2>2
<1>2. ASSUME NEW s \in Seq(Nat), NEW x \in Nat, s \in G PROVE Append(s, x) \in G
  <2>1. ms \o s \in Seq(Nat) /\ Append(s, x) \in Seq(Nat) /\ ms \o Append(s, x) = Append(ms \o s, x)
    OBVIOUS
  <2>2. Total(Append(ms \o s, x)) = Total(ms \o s) + x /\ Total(Append(s, x)) = Total(s) + x
    BY <2>1, TotalAppend
  <2>3. Total(ms) \in Nat /\ Total(s) \in Nat
    BY TotalType
  <2>4. Total(ms \o s) = Total(ms) + Total(s)
    BY <1>2
  <2>5. Total(ms \o Append(s, x)) = Total(ms) + Total(Append(s, x))
    BY <2>1, <2>2, <2>3, <2>4
  <2> QED
    BY <2>1, <2>5
<1>3. ns \in G
  <2> DEFINE N == Nat
  <2>1. ns \in Seq(N) /\ \A s \in Seq(N), x \in N : s \in G => Append(s, x) \in G
    BY <1>2
  <2> HIDE DEF G, N
  <2> QED
    BY <1>1, <2>1, SeqInduction
<1> QED
  BY <1>3

(* One sequence flattened is itself.                                       *)
LEMMA FlattenOne ==
  ASSUME NEW A, NEW x \in Seq(A)
  PROVE  FlattenSeq(<<x>>) = x
<1>1. <<>> \in Seq(Seq(A)) /\ Append(<<>>, x) = <<x>> /\ <<>> \o x = x
  OBVIOUS
<1>2. FlattenSeq(Append(<<>>, x)) = FlattenSeq(<<>>) \o x
  BY <1>1, FlattenAppend
<1> QED
  BY <1>1, <1>2, FlattenEmpty

(* An element of what was flattened is one of a sequence in it.            *)
LEMMA FlattenElements ==
  ASSUME NEW A, NEW s \in Seq(Seq(A)), NEW i \in DOMAIN FlattenSeq(s)
  PROVE  \E k \in DOMAIN s : \E j \in DOMAIN s[k] : FlattenSeq(s)[i] = s[k][j]
<1> DEFINE Found(r) == \A n \in DOMAIN FlattenSeq(r) :
                          \E k \in DOMAIN r : \E j \in DOMAIN r[k] : FlattenSeq(r)[n] = r[k][j]
           T == Seq(A)
           G == {r \in Seq(T) : Found(r)}
<1>1. <<>> \in G
  <2>1. Found(<<>>)
    BY FlattenEmpty
  <2> QED
    BY <2>1
<1>2. ASSUME NEW r \in Seq(T), NEW x \in T, r \in G PROVE Append(r, x) \in G
  <2> DEFINE q == Append(r, x)
             o == FlattenSeq(r)
  <2>1. q \in Seq(T) /\ Len(r) \in Nat /\ DOMAIN q = 1 .. Len(r) + 1 /\ DOMAIN r = 1 .. Len(r)
        /\ q[Len(r) + 1] = x /\ \A k \in 1 .. Len(r) : q[k] = r[k]
    BY AppendParts
  <2>2. o \in Seq(A) /\ FlattenSeq(q) = o \o x
    BY FlattenType, FlattenAppend
  <2>3. Found(r)
    BY <1>2
  <2> HIDE DEF q, o
  <2>4. Found(q)
    <3> SUFFICES ASSUME NEW n \in DOMAIN (o \o x) PROVE \E k \in DOMAIN q : \E j \in DOMAIN q[k] : (o \o x)[n] = q[k][j]
      BY <2>2
    <3>1. n \in 1 .. Len(o) + Len(x) /\ Len(o) \in Nat /\ Len(x) \in Nat
      BY <2>2
    <3>2. CASE n \in 1 .. Len(o)
      <4>1. (o \o x)[n] = o[n] /\ n \in DOMAIN o
        BY <2>2, <3>2
      <4>2. PICK k \in DOMAIN r : \E j \in DOMAIN r[k] : o[n] = r[k][j]
        BY <2>3, <4>1 DEF o
      <4> QED
        BY <2>1, <4>1, <4>2
    <3>3. CASE n \notin 1 .. Len(o)
      <4>1. (o \o x)[n] = x[n - Len(o)] /\ n - Len(o) \in DOMAIN x
        BY <2>2, <3>1, <3>3
      <4>2. Len(r) + 1 \in DOMAIN q
        BY <2>1
      <4> QED
        BY <2>1, <4>1, <4>2
    <3> QED
      BY <3>2, <3>3
  <2>5. q \in G
    <3> HIDE DEF Found
    <3> QED
      BY <2>1, <2>4
  <2> QED
    BY <2>5 DEF q
<1>3. s \in G
  <2> HIDE DEF G
  <2> QED
    BY <1>1, <1>2, SeqInduction
<1> QED
  BY <1>3

(* To filter each sequence and flatten is to flatten and filter.           *)
LEMMA FlattenOnly ==
  ASSUME NEW A, NEW S, NEW s \in Seq(Seq(A))
  PROVE  FlattenSeq([k \in DOMAIN s |-> Only(s[k], S)]) = Only(FlattenSeq(s), S)
<1> DEFINE T == Seq(A)
           F == [x \in T |-> Only(x, S)]
           M(r) == Each(F, r)
           G == {r \in Seq(T) : FlattenSeq(M(r)) = Only(FlattenSeq(r), S)}
<1>1. F \in [T -> T]
  BY OnlyType
<1>2. <<>> \in G
  <2>1. M(<<>>) = <<>> /\ <<>> \in Seq(T)
    BY DEF Each
  <2> QED
    BY <2>1, FlattenEmpty, OnlyEmpty
<1>3. ASSUME NEW r \in Seq(T), NEW x \in T, r \in G PROVE Append(r, x) \in G
  <2> HIDE DEF F
  <2>1. M(r) \in Seq(T) /\ M(Append(r, x)) = Append(M(r), F[x])
    <3>1. r \in Seq(T) /\ x \in T
      OBVIOUS
    <3> HIDE DEF T, G
    <3>2. Each(F, r) \in Seq(T)
      BY <1>1, <3>1, MapAppend
    <3>3. Each(F, Append(r, x)) = Append(Each(F, r), F[x])
      BY <1>1, <3>1, MapAppend
    <3> QED
      BY <3>2, <3>3
  <2>2. F[x] \in T /\ F[x] = Only(x, S)
    BY <1>1 DEF F
  <2> HIDE DEF M
  <2>3. FlattenSeq(M(Append(r, x))) = FlattenSeq(M(r)) \o F[x]
    BY <2>1, <2>2, FlattenAppend
  <2>4. FlattenSeq(Append(r, x)) = FlattenSeq(r) \o x /\ FlattenSeq(r) \in T
    BY FlattenAppend, FlattenType
  <2>5. Only(FlattenSeq(r) \o x, S) = Only(FlattenSeq(r), S) \o Only(x, S)
    BY <2>4, OnlyConcat
  <2>6. FlattenSeq(M(r)) = Only(FlattenSeq(r), S)
    BY <1>3
  <2>7. FlattenSeq(M(Append(r, x))) = Only(FlattenSeq(Append(r, x)), S)
    BY <2>2, <2>3, <2>4, <2>5, <2>6
  <2>8. Append(r, x) \in Seq(T)
    OBVIOUS
  <2> QED
    BY <2>7, <2>8
<1>4. s \in G
  <2> HIDE DEF G
  <2> QED
    BY <1>2, <1>3, SeqInduction
<1>5. M(s) = [k \in DOMAIN s |-> Only(s[k], S)]
  <2>1. \A k \in DOMAIN s : s[k] \in T
    OBVIOUS
  <2> QED
    BY <2>1 DEF Each
<1> HIDE DEF M
<1> QED
  BY <1>4, <1>5

(* Gathered                                                                *)
GatherState(A) == [done : Seq(Seq(A)), group : Seq(A)]
GatherStart    == [done |-> <<>>, group |-> <<>>]
GatherStep(A, S) ==
  [x \in A |-> [a \in GatherState(A) |->
     IF a.group = <<>> \/ Append(a.group, x) \in S THEN [a EXCEPT !.group = Append(a.group, x)]
     ELSE [done |-> Append(a.done, a.group), group |-> <<x>>]]]

(* The state of gathering: the groups that are done, and the one that is   *)
(* open.                                                                   *)
LEMMA GatherStepType ==
  ASSUME NEW A, NEW S
  PROVE  GatherStart \in GatherState(A) /\ GatherStep(A, S) \in [A -> [GatherState(A) -> GatherState(A)]]
<1> DEFINE T == GatherState(A)
<1>1. ASSUME NEW x \in A, NEW a \in T
      PROVE  (IF a.group = <<>> \/ Append(a.group, x) \in S THEN [a EXCEPT !.group = Append(a.group, x)]
              ELSE [done |-> Append(a.done, a.group), group |-> <<x>>]) \in T
  <2>1. a.done \in Seq(Seq(A)) /\ a.group \in Seq(A) /\ <<x>> \in Seq(A)
    BY DEF GatherState
  <2>2. Append(a.done, a.group) \in Seq(Seq(A)) /\ Append(a.group, x) \in Seq(A)
    BY <2>1
  <2> QED
    BY <2>1, <2>2 DEF GatherState
<1>2. GatherStart \in T
  BY DEF GatherStart, GatherState
<1> HIDE DEF T
<1> QED
  BY <1>1, <1>2 DEF GatherStep, T

(* Gathered is a run over its sequence, to which the open group is added   *)
(* at the end.                                                             *)
LEMMA GatherRuns ==
  ASSUME NEW A, NEW S, NEW s \in Seq(A)
  PROVE  \E f : /\ Run(f, Len(s), GatherState(A), GatherStart, Steps(s, GatherStep(A, S)))
                /\ Gathered(s, S) = IF s = <<>> THEN <<>> ELSE Append(f[Len(s)].done, f[Len(s)].group)
<1> DEFINE N == Len(s)
           T == GatherState(A)
           op == Steps(s, GatherStep(A, S))
           To(a, x) == IF a.group = <<>> \/ Append(a.group, x) \in S THEN [a EXCEPT !.group = Append(a.group, x)]
                       ELSE [done |-> Append(a.done, a.group), group |-> <<x>>]
           Fits(g) == g = [i \in 0 .. N |-> IF i = 0 THEN GatherStart ELSE To(g[i - 1], s[i])]
<1>1. GatherStart \in T /\ GatherStep(A, S) \in [A -> [T -> T]]
  BY GatherStepType
<1>2. N \in Nat /\ op \in [1 .. N -> [T -> T]] /\ \A i \in 1 .. N : op[i] = GatherStep(A, S)[s[i]] /\ s[i] \in A
  BY <1>1, StepsType
<1>3. ASSUME NEW i \in 1 .. N, NEW o \in T PROVE op[i][o] = To(o, s[i])
  <2>1. op[i] = GatherStep(A, S)[s[i]] /\ s[i] \in A
    BY <1>2
  <2>2. \A x \in A : GatherStep(A, S)[x][o] = To(o, x)
    BY DEF GatherStep
  <2> HIDE DEF op, T, To
  <2> QED
    BY <2>1, <2>2
<1> HIDE DEF op
<1>4. PICK f : Run(f, N, T, GatherStart, op)
  <2> HIDE DEF N, T
  <2> QED
    BY <1>1, <1>2, UpRecursion
<1>5. Fits(f)
  <2> HIDE DEF To, T, N
  <2>1. \A i \in 1 .. N : f[i - 1] \in T /\ f[i] = op[i][f[i - 1]]
    <3> TAKE i \in 1 .. N
    <3>1. i - 1 \in 0 .. N
      BY <1>2
    <3> QED
      BY <1>4, <3>1 DEF Run
  <2>2. \A i \in 1 .. N : f[i] = To(f[i - 1], s[i])
    BY <1>3, <2>1
  <2>3. f \in [0 .. N -> T] /\ f[0] = GatherStart
    BY <1>4 DEF Run
  <2>4. \A i \in 0 .. N : i # 0 => i \in 1 .. N
    OBVIOUS
  <2> QED
    BY <2>2, <2>3, <2>4
<1> DEFINE g == CHOOSE g : Fits(g)
<1>6. Fits(g)
  BY <1>5
<1>7. Gathered(s, S) = IF s = <<>> THEN <<>> ELSE Append(g[N].done, g[N].group)
  BY DEF Gathered, GatherStart
<1>8. Run(g, N, T, GatherStart, op)
  <2> HIDE DEF g, To
  <2>1. g = [i \in 0 .. N |-> g[i]] /\ g[0] = GatherStart
    BY <1>2, <1>6
  <2>2. \A i \in 1 .. N : i \in 0 .. N /\ i # 0
    OBVIOUS
  <2>3. \A i \in 1 .. N : g[i] = To(g[i - 1], s[i])
    BY <1>6, <2>2
  <2>4. \A i \in 1 .. N : g[i - 1] \in T => g[i] = op[i][g[i - 1]]
    BY <1>3, <2>3
  <2> HIDE DEF Fits, N, T
  <2> QED
    BY <1>1, <1>2, <2>1, <2>4, RunByEquation
<1> HIDE DEF g
<1> QED
  BY <1>7, <1>8 DEF op

(* What packing and chunking rest on (rich_split.go:61-77, 163-173):       *)
(* gathering loses and repeats nothing and keeps the order, no group is    *)
(* empty, and a group of more than one element is in the set.              *)
LEMMA GatherRules ==
  ASSUME NEW A, NEW S, NEW s \in Seq(A)
  PROVE  /\ Gathered(s, S) \in Seq(Seq(A)) /\ FlattenSeq(Gathered(s, S)) = s
         /\ \A k \in DOMAIN Gathered(s, S) :
              Gathered(s, S)[k] # <<>> /\ (Len(Gathered(s, S)[k]) = 1 \/ Gathered(s, S)[k] \in S)
<1> DEFINE N == Len(s)
           T == GatherState(A)
           op == Steps(s, GatherStep(A, S))
           Good(g) == g \in Seq(A) /\ g # <<>> /\ (Len(g) = 1 \/ g \in S)
<1>1. PICK f : /\ Run(f, N, T, GatherStart, op)
               /\ Gathered(s, S) = IF s = <<>> THEN <<>> ELSE Append(f[N].done, f[N].group)
  BY GatherRuns
<1>2. N \in Nat /\ \A i \in 1 .. N : s[i] \in A
  OBVIOUS
<1>3. ASSUME NEW i \in 1 .. N
      PROVE  /\ f[i - 1] \in T
             /\ f[i] = IF f[i - 1].group = <<>> \/ Append(f[i - 1].group, s[i]) \in S
                       THEN [f[i - 1] EXCEPT !.group = Append(f[i - 1].group, s[i])]
                       ELSE [done |-> Append(f[i - 1].done, f[i - 1].group), group |-> <<s[i]>>]
  <2>1. f[i - 1] \in T /\ f[i] = op[i][f[i - 1]]
    <3> HIDE DEF T, op, N
    <3>1. i - 1 \in 0 .. N
      BY <1>2
    <3> QED
      BY <1>1, <3>1 DEF Run
  <2>2. op[i] = GatherStep(A, S)[s[i]] /\ s[i] \in A
    BY <1>2 DEF Steps
  <2> HIDE DEF T, op
  <2>3. op[i][f[i - 1]] = IF f[i - 1].group = <<>> \/ Append(f[i - 1].group, s[i]) \in S
                       THEN [f[i - 1] EXCEPT !.group = Append(f[i - 1].group, s[i])]
                       ELSE [done |-> Append(f[i - 1].done, f[i - 1].group), group |-> <<s[i]>>]
    BY <2>1, <2>2 DEF GatherStep, T
  <2> QED
    BY <2>1, <2>3
<1> DEFINE Inv(i) == /\ FlattenSeq(f[i].done) \o f[i].group = SubSeq(s, 1, i)
                     /\ \A k \in DOMAIN f[i].done : Good(f[i].done[k])
                     /\ i # 0 => Good(f[i].group)
                     /\ i = 0 => f[i].group = <<>>
           G == {i \in 0 .. N : Inv(i)}
<1>4. 0 \in G
  <2>1. f[0] = GatherStart /\ SubSeq(s, 1, 0) = <<>>
    <3>1. SubSeq(s, 1, 0) = <<>>
      BY SubSeqEmpty
    <3> QED
      BY <1>1, <3>1 DEF Run
  <2>2. f[0].done = <<>> /\ f[0].group = <<>> /\ <<>> \o <<>> = <<>>
    BY <2>1 DEF GatherStart
  <2>3. Inv(0)
    <3>1. FlattenSeq(f[0].done) \o f[0].group = SubSeq(s, 1, 0)
      BY <2>1, <2>2, FlattenEmpty
    <3>2. DOMAIN f[0].done = {}
      BY <2>2
    <3> HIDE DEF Good
    <3> QED
      BY <2>2, <3>1, <3>2
  <2> HIDE DEF Inv
  <2> QED
    BY <1>2, <2>3
<1>5. ASSUME NEW i \in 1 .. N, i - 1 \in G PROVE i \in G
  <2> DEFINE a == f[i - 1]
             x == s[i]
  <2>1. a.done \in Seq(Seq(A)) /\ a.group \in Seq(A) /\ x \in A
    <3>1. a \in GatherState(A)
      BY <1>3
    <3> QED
      BY <1>2, <3>1 DEF GatherState
  <2>2. Inv(i - 1)
    BY <1>5
  <2>3. SubSeq(s, 1, i) = Append(SubSeq(s, 1, i - 1), x) /\ SubSeq(s, 1, i - 1) \in Seq(A)
    OBVIOUS
  <2>4. FlattenSeq(a.done) \in Seq(A)
    BY <2>1, FlattenType
  <2>5. CASE a.group = <<>> \/ Append(a.group, x) \in S
    <3>1. f[i].done = a.done /\ f[i].group = Append(a.group, x)
      <4>1. f[i] = [a EXCEPT !.group = Append(a.group, x)]
        BY <1>3, <2>5
      <4>2. a \in GatherState(A)
        BY <1>3
      <4> QED
        BY <4>1, <4>2 DEF GatherState
    <3>2. FlattenSeq(f[i].done) \o f[i].group = SubSeq(s, 1, i)
      <4>1. FlattenSeq(a.done) \o Append(a.group, x) = Append(FlattenSeq(a.done) \o a.group, x)
        <5> DEFINE p == FlattenSeq(a.done)
                   q == a.group
        <5>1. p \in Seq(A) /\ q \in Seq(A)
          BY <2>1, <2>4
        <5> HIDE DEF p, q
        <5>2. p \o Append(q, x) = Append(p \o q, x)
          BY <2>1, <5>1
        <5> QED
          BY <5>2 DEF p, q
      <4> QED
        BY <2>2, <2>3, <3>1, <4>1
    <3>3. Good(f[i].group)
      <4> DEFINE q == a.group
      <4>1. q \in Seq(A) /\ (q = <<>> \/ Append(q, x) \in S)
        BY <2>1, <2>5
      <4>2. f[i].group = Append(q, x)
        BY <3>1
      <4> HIDE DEF q
      <4>3. Append(q, x) \in Seq(A) /\ Append(q, x) # <<>> /\ Len(Append(q, x)) = Len(q) + 1
        <5>1. x \in A /\ q \in Seq(A)
          BY <2>1, <4>1
        <5> HIDE DEF x
        <5>2. Append(q, x) \in Seq(A) /\ Len(q) \in Nat /\ Len(Append(q, x)) = Len(q) + 1
          BY <5>1, AppendParts
        <5>3. Append(q, x) # <<>>
          BY <5>1, <5>2
        <5> QED
          BY <5>2, <5>3
      <4>4. q = <<>> => Len(q) = 0
        OBVIOUS
      <4> QED
        BY <4>1, <4>2, <4>3, <4>4
    <3>4. \A k \in DOMAIN f[i].done : Good(f[i].done[k])
      BY <2>2, <3>1
    <3>5. Inv(i)
      <4> HIDE DEF Good
      <4> QED
        BY <3>2, <3>3, <3>4
    <3> HIDE DEF Inv
    <3> QED
      BY <3>5
  <2>6. CASE ~(a.group = <<>> \/ Append(a.group, x) \in S)
    <3>1. f[i].done = Append(a.done, a.group) /\ f[i].group = <<x>>
      <4>1. f[i] = [done |-> Append(a.done, a.group), group |-> <<x>>]
        BY <1>3, <2>6
      <4> QED
        BY <4>1
    <3>2. FlattenSeq(f[i].done) \o f[i].group = SubSeq(s, 1, i)
      <4>1. FlattenSeq(Append(a.done, a.group)) = FlattenSeq(a.done) \o a.group
        BY <2>1, FlattenAppend
      <4>2. FlattenSeq(a.done) \o a.group = SubSeq(s, 1, i - 1)
        BY <2>2
      <4>3. SubSeq(s, 1, i - 1) \o <<x>> = Append(SubSeq(s, 1, i - 1), x)
        BY <2>1, <2>3
      <4> QED
        BY <2>3, <3>1, <4>1, <4>2, <4>3
    <3>3. Good(f[i].group)
      BY <2>1, <3>1
    <3>4. Good(a.group)
      BY <2>2, <2>6
    <3>5. \A k \in DOMAIN f[i].done : Good(f[i].done[k])
      <4> HIDE DEF Good
      <4>1. \A k \in DOMAIN a.done : Good(a.done[k])
        BY <2>2
      <4>2. \A k \in DOMAIN Append(a.done, a.group) :
               (k \in DOMAIN a.done /\ Append(a.done, a.group)[k] = a.done[k]) \/ Append(a.done, a.group)[k] = a.group
        BY <2>1
      <4> QED
        BY <3>1, <3>4, <4>1, <4>2
    <3>6. Inv(i)
      <4> HIDE DEF Good
      <4> QED
        BY <3>2, <3>3, <3>5
    <3> HIDE DEF Inv
    <3> QED
      BY <3>6
  <2> QED
    BY <2>5, <2>6
<1>6. 0 .. N \subseteq G
  <2> HIDE DEF G, N
  <2> QED
    BY <1>2, <1>4, <1>5, UpInduction
<1>7. Inv(N) /\ f[N] \in T
  <2>1. N \in 0 .. N
    BY <1>2
  <2>2. f[N] \in T
    <3> HIDE DEF N, T, op
    <3> QED
      BY <1>1, <2>1 DEF Run
  <2> QED
    BY <1>6, <2>1, <2>2
<1>8. CASE s = <<>>
  <2>1. Gathered(s, S) = <<>>
    BY <1>1, <1>8
  <2>2. FlattenSeq(Gathered(s, S)) = s
    BY <1>8, <2>1, FlattenEmpty
  <2>3. <<>> \in Seq(Seq(A)) /\ DOMAIN <<>> = {}
    OBVIOUS
  <2> QED
    BY <2>1, <2>2, <2>3
<1>9. CASE s # <<>>
  <2> DEFINE d == f[N].done
             g == f[N].group
  <2>1. Gathered(s, S) = Append(d, g) /\ d \in Seq(Seq(A)) /\ g \in Seq(A)
    BY <1>1, <1>7, <1>9 DEF GatherState
  <2>2. N # 0 /\ SubSeq(s, 1, N) = s
    BY <1>9
  <2>3. FlattenSeq(d) \o g = s /\ (\A k \in DOMAIN d : Good(d[k])) /\ Good(g)
    BY <1>7, <2>2
  <2> HIDE DEF d, g, Good
  <2>4. FlattenSeq(Append(d, g)) = FlattenSeq(d) \o g
    BY <2>1, FlattenAppend
  <2>5. \A k \in DOMAIN Append(d, g) : (k \in DOMAIN d /\ Append(d, g)[k] = d[k]) \/ Append(d, g)[k] = g
    BY <2>1
  <2>6. \A k \in DOMAIN Append(d, g) : Good(Append(d, g)[k])
    BY <2>3, <2>5
  <2>7. Append(d, g) \in Seq(Seq(A))
    BY <2>1
  <2> QED
    BY <2>1, <2>3, <2>4, <2>6, <2>7 DEF Good
<1> QED
  BY <1>8, <1>9

-----------------------------------------------------------------------------
(* Filters: a post is judged as a whole.                                   *)

JoinStep ==
  [t \in Seq(Characters) |-> [o \in Seq(Characters) |->
     IF t = <<>> THEN o ELSE IF o = <<>> THEN t ELSE o \o <<Newline>> \o t]]

(* The step of joining texts with newlines.                                *)
LEMMA JoinStepType == <<>> \in Seq(Characters) /\ JoinStep \in [Seq(Characters) -> [Seq(Characters) -> Seq(Characters)]]
<1>1. Newline \in Characters
  <2>1. "newline" \in Letters
    BY CopyTextAssumption
  <2> QED
    BY <2>1 DEF Newline, Characters
<1>2. \A o, t \in Seq(Characters) : o \o <<Newline>> \o t \in Seq(Characters)
  BY <1>1
<1> QED
  BY <1>2 DEF JoinStep

(* Joined is a run over its texts.                                         *)
LEMMA JoinedRuns ==
  ASSUME NEW s \in Seq(Seq(Characters))
  PROVE  \E f : Run(f, Len(s), Seq(Characters), <<>>, Steps(s, JoinStep)) /\ Joined(s) = f[Len(s)]
<1> DEFINE A == Seq(Characters)
           N == Len(s)
           op == Steps(s, JoinStep)
           To(o, t) == IF t = <<>> THEN o ELSE IF o = <<>> THEN t ELSE o \o <<Newline>> \o t
           Fits(g) == g = [i \in 0 .. N |-> IF i = 0 THEN <<>> ELSE To(g[i - 1], s[i])]
<1>1. <<>> \in A /\ JoinStep \in [A -> [A -> A]]
  BY JoinStepType
<1>2. N \in Nat /\ op \in [1 .. N -> [A -> A]] /\ \A i \in 1 .. N : op[i] = JoinStep[s[i]] /\ s[i] \in A
  <2> HIDE DEF A
  <2>1. s \in Seq(A)
    BY DEF A
  <2> QED
    BY <1>1, <2>1, StepsType
<1>3. ASSUME NEW i \in 1 .. N, NEW o \in A PROVE op[i][o] = To(o, s[i])
  <2>1. op[i] = JoinStep[s[i]] /\ s[i] \in A
    BY <1>2
  <2>2. \A x \in A : JoinStep[x][o] = To(o, x)
    BY DEF JoinStep
  <2> HIDE DEF op, A, To
  <2> QED
    BY <2>1, <2>2
<1> HIDE DEF op
<1>4. PICK f : Run(f, N, A, <<>>, op)
  <2> HIDE DEF N, A
  <2> QED
    BY <1>1, <1>2, UpRecursion
<1>5. Fits(f)
  <2> HIDE DEF To, A, N
  <2>1. \A i \in 1 .. N : f[i - 1] \in A /\ f[i] = op[i][f[i - 1]]
    <3>1. N \in Nat
      BY <1>2
    <3> HIDE DEF Fits
    <3> TAKE i \in 1 .. N
    <3> QED
      BY <1>4, <3>1, RunStep
  <2>2. \A i \in 1 .. N : f[i] = To(f[i - 1], s[i])
    BY <1>3, <2>1
  <2>3. f \in [0 .. N -> A] /\ f[0] = <<>>
    BY <1>4 DEF Run
  <2>4. \A i \in 0 .. N : i # 0 => i \in 1 .. N
    BY <1>2
  <2> QED
    BY <2>2, <2>3, <2>4
<1> DEFINE g == CHOOSE g : Fits(g)
<1>6. Fits(g)
  BY <1>5
<1>7. Joined(s) = g[N]
  BY DEF Joined
<1>8. Run(g, N, A, <<>>, op)
  <2> HIDE DEF g, To
  <2>1. g = [i \in 0 .. N |-> g[i]] /\ g[0] = <<>>
    BY <1>2, <1>6
  <2>2. \A i \in 1 .. N : i \in 0 .. N /\ i # 0
    OBVIOUS
  <2>3. \A i \in 1 .. N : g[i] = To(g[i - 1], s[i])
    BY <1>6, <2>2
  <2>4. \A i \in 1 .. N : g[i - 1] \in A => g[i] = op[i][g[i - 1]]
    BY <1>3, <2>3
  <2> HIDE DEF Fits, N, A
  <2> QED
    BY <1>1, <1>2, <2>1, <2>4, RunByEquation
<1> HIDE DEF g
<1> QED
  BY <1>7, <1>8 DEF op

JoinGrows ==
  /\ Joined(<<>>) = <<>>
  /\ \A s \in Seq(Seq(Characters)) : Joined(s) \in Seq(Characters)
  /\ \A s \in Seq(Seq(Characters)), t \in Seq(Characters) :
       /\ t = <<>> => Joined(Append(s, t)) = Joined(s)
       /\ t # <<>> /\ Joined(s) = <<>> => Joined(Append(s, t)) = t
       /\ t # <<>> /\ Joined(s) # <<>> => Joined(Append(s, t)) = Joined(s) \o <<Newline>> \o t

(* Joined, on no text and on one text more.                                *)
LEMMA JoinedRules == JoinGrows
<1> DEFINE A == Seq(Characters)
           F == [s \in Seq(A) |-> Joined(s)]
           st == JoinStep
<1>1. <<>> \in A /\ st \in [A -> [A -> A]]
  BY JoinStepType
<1>2. \A t, o \in A : st[t][o] = IF t = <<>> THEN o ELSE IF o = <<>> THEN t ELSE o \o <<Newline>> \o t
  BY DEF JoinStep
<1>3. \A s \in Seq(A) : \E f : Run(f, Len(s), A, <<>>, Steps(s, st)) /\ F[s] = f[Len(s)]
  BY JoinedRuns
<1> HIDE DEF st
<1>4. /\ F[<<>>] = <<>>
      /\ \A s \in Seq(A) : F[s] \in A /\ \A x \in A : F[Append(s, x)] = st[x][F[s]]
  <2> HIDE DEF F, A
  <2> QED
    BY <1>1, <1>3, FoldRules
<1>5. \A s \in Seq(A) : F[s] = Joined(s)
  OBVIOUS
<1>6. <<>> \in Seq(A) /\ \A s \in Seq(A), t \in A : Append(s, t) \in Seq(A)
  OBVIOUS
<1> HIDE DEF F
<1>7. Joined(<<>>) = <<>>
  BY <1>4, <1>5, <1>6
<1>8. \A s \in Seq(A) : Joined(s) \in A
  BY <1>4, <1>5
<1>9. ASSUME NEW s \in Seq(A), NEW t \in A
      PROVE  /\ t = <<>> => Joined(Append(s, t)) = Joined(s)
             /\ t # <<>> /\ Joined(s) = <<>> => Joined(Append(s, t)) = t
             /\ t # <<>> /\ Joined(s) # <<>> => Joined(Append(s, t)) = Joined(s) \o <<Newline>> \o t
  <2>1. Joined(Append(s, t)) = st[t][Joined(s)] /\ Joined(s) \in A
    BY <1>4, <1>5, <1>6
  <2> HIDE DEF A
  <2> QED
    BY <1>2, <2>1
<1> QED
  BY <1>7, <1>8, <1>9 DEF JoinGrows

(* words                                                                   *)
LEMMA WordAcross ==
  ASSUME NEW a \in Seq(Characters), NEW t \in Seq(Characters), NEW word \in Seq(Letters),
         \A j \in DOMAIN word : word[j] # "newline"
  PROVE  HasWord(a \o <<Newline>> \o t, word) <=> HasWord(a, word) \/ HasWord(t, word)
<1> DEFINE j == a \o <<Newline>> \o t
           W == Len(word)
<1>1. /\ Len(a) \in Nat /\ Len(t) \in Nat /\ W \in Nat /\ Len(j) = Len(a) + 1 + Len(t)
      /\ \A i \in 1 .. Len(a) : j[i] = a[i]
      /\ j[Len(a) + 1] = Newline
      /\ \A i \in 1 .. Len(t) : j[Len(a) + 1 + i] = t[i]
      /\ DOMAIN word = 1 .. W /\ (word # <<>> => W > 0)
  OBVIOUS
<1> HIDE DEF j, W
<1>2. ASSUME HasWord(a, word) PROVE HasWord(j, word)
  <2>1. PICK i \in 0 .. Len(a) - W : \A k \in DOMAIN word : Lower(a[i + k].c) = Lower(word[k])
    BY <1>2 DEF HasWord, W
  <2>2. i \in 0 .. Len(j) - W
    BY <1>1
  <2>3. \A k \in DOMAIN word : i + k \in 1 .. Len(a)
    BY <1>1
  <2>4. \A k \in DOMAIN word : j[i + k] = a[i + k]
    BY <1>1, <2>3
  <2>5. \A k \in DOMAIN word : Lower(j[i + k].c) = Lower(word[k])
    BY <2>1, <2>4
  <2>6. word # <<>>
    BY <1>2 DEF HasWord
  <2> QED
    BY <2>2, <2>5, <2>6 DEF HasWord, W
<1>3. ASSUME HasWord(t, word) PROVE HasWord(j, word)
  <2>1. PICK i \in 0 .. Len(t) - W : \A k \in DOMAIN word : Lower(t[i + k].c) = Lower(word[k])
    BY <1>3 DEF HasWord, W
  <2> DEFINE p == Len(a) + 1 + i
  <2>2. p \in 0 .. Len(j) - W
    BY <1>1
  <2>3. ASSUME NEW k \in DOMAIN word PROVE i + k \in 1 .. Len(t) /\ p + k = Len(a) + 1 + (i + k)
    <3>1. k \in 1 .. W /\ Len(a) \in Nat /\ Len(t) \in Nat /\ W \in Nat
      BY <1>1
    <3> QED
      BY <3>1
  <2>4. \A k \in DOMAIN word : j[p + k] = t[i + k]
    BY <1>1, <2>3
  <2> HIDE DEF p
  <2>5. \A k \in DOMAIN word : Lower(j[p + k].c) = Lower(word[k])
    BY <2>1, <2>4
  <2>6. word # <<>>
    BY <1>3 DEF HasWord
  <2> QED
    BY <2>2, <2>5, <2>6 DEF HasWord, W
<1>4. ASSUME HasWord(j, word) PROVE HasWord(a, word) \/ HasWord(t, word)
  <2>1. PICK i \in 0 .. Len(j) - W : \A k \in DOMAIN word : Lower(j[i + k].c) = Lower(word[k])
    BY <1>4 DEF HasWord, W
  <2>2. word # <<>>
    BY <1>4 DEF HasWord
  <2>3. CASE i + W <= Len(a)
    <3>1. i \in 0 .. Len(a) - W
      BY <1>1, <2>3
    <3>2. \A k \in DOMAIN word : i + k \in 1 .. Len(a)
      BY <1>1, <2>3
    <3>3. \A k \in DOMAIN word : j[i + k] = a[i + k]
      BY <1>1, <3>2
    <3>4. \A k \in DOMAIN word : Lower(a[i + k].c) = Lower(word[k])
      BY <2>1, <3>3
    <3> QED
      BY <2>2, <3>1, <3>4 DEF HasWord, W
  <2>4. CASE i >= Len(a) + 1
    <3> DEFINE p == i - (Len(a) + 1)
    <3>1. p \in 0 .. Len(t) - W
      BY <1>1, <2>4
    <3>2. ASSUME NEW k \in DOMAIN word PROVE p + k \in 1 .. Len(t) /\ i + k = Len(a) + 1 + (p + k)
      <4>1. k \in 1 .. W /\ Len(a) \in Nat /\ Len(t) \in Nat /\ W \in Nat /\ Len(j) = Len(a) + 1 + Len(t)
        BY <1>1
      <4> QED
        BY <2>4, <4>1
    <3>3. \A k \in DOMAIN word : j[i + k] = t[p + k]
      BY <1>1, <3>2
    <3> HIDE DEF p
    <3>4. \A k \in DOMAIN word : Lower(t[p + k].c) = Lower(word[k])
      BY <2>1, <3>3
    <3> QED
      BY <2>2, <3>1, <3>4 DEF HasWord, W
  <2>5. CASE i <= Len(a) /\ i + W > Len(a)
    <3> DEFINE k == Len(a) + 1 - i
    <3>1. k \in DOMAIN word /\ i + k = Len(a) + 1
      BY <1>1, <2>5
    <3>2. Lower(Newline.c) = Lower(word[k]) /\ word[k] # "newline"
      BY <1>1, <2>1, <3>1
    <3> QED
      BY <3>2 DEF Lower, Newline
  <2> QED
    BY <1>1, <2>3, <2>4, <2>5
<1> QED
  BY <1>2, <1>3, <1>4 DEF j

(* A pattern that does not look for a newline matches across one only if   *)
(* it matches on one side of it.                                           *)
LEMMA PatternAcross ==
  ASSUME NEW a \in Seq(Characters), NEW t \in Seq(Characters), NEW p, p # "newline"
  PROVE  Matches(a \o <<Newline>> \o t, p) <=> Matches(a, p) \/ Matches(t, p)
<1> DEFINE j == a \o <<Newline>> \o t
<1>1. /\ Len(a) \in Nat /\ Len(t) \in Nat /\ Len(j) = Len(a) + 1 + Len(t)
      /\ \A i \in 1 .. Len(a) : j[i] = a[i]
      /\ j[Len(a) + 1] = Newline
      /\ \A i \in 1 .. Len(t) : j[Len(a) + 1 + i] = t[i]
      /\ DOMAIN j = 1 .. Len(a) + 1 + Len(t) /\ DOMAIN a = 1 .. Len(a) /\ DOMAIN t = 1 .. Len(t)
  OBVIOUS
<1> HIDE DEF j
<1>2. ASSUME NEW i \in DOMAIN a, a[i].c = p PROVE Matches(j, p)
  <2>1. i \in DOMAIN j /\ j[i].c = p
    BY <1>1, <1>2
  <2> QED
    BY <2>1 DEF Matches
<1>3. ASSUME NEW i \in DOMAIN t, t[i].c = p PROVE Matches(j, p)
  <2>1. Len(a) + 1 + i \in DOMAIN j
    <3>1. i \in 1 .. Len(t) /\ Len(a) \in Nat /\ Len(t) \in Nat /\ DOMAIN j = 1 .. Len(a) + 1 + Len(t)
      BY <1>1
    <3> QED
      BY <3>1
  <2>2. j[Len(a) + 1 + i].c = p
    BY <1>1, <1>3
  <2> QED
    BY <2>1, <2>2 DEF Matches
<1>4. ASSUME NEW i \in DOMAIN j, j[i].c = p PROVE Matches(a, p) \/ Matches(t, p)
  <2>1. CASE i <= Len(a)
    <3>1. i \in DOMAIN a /\ a[i].c = p
      BY <1>1, <1>4, <2>1
    <3> QED
      BY <3>1 DEF Matches
  <2>2. CASE i > Len(a) + 1
    <3>0. i \in 1 .. Len(a) + 1 + Len(t) /\ Len(a) \in Nat /\ Len(t) \in Nat
      BY <1>1
    <3>1. i - (Len(a) + 1) \in 1 .. Len(t) /\ Len(a) + 1 + (i - (Len(a) + 1)) = i
      BY <2>2, <3>0
    <3>2. t[i - (Len(a) + 1)].c = p
      BY <1>1, <1>4, <3>1
    <3> QED
      BY <1>1, <3>1, <3>2 DEF Matches
  <2>3. CASE i = Len(a) + 1
    BY <1>1, <1>4, <2>3 DEF Newline
  <2> QED
    BY <1>1, <2>1, <2>2, <2>3
<1> QED
  BY <1>2, <1>3, <1>4 DEF Matches, j

(* No word and no pattern is found in the empty text.                      *)
LEMMA NothingInNothing ==
  ASSUME NEW word \in Seq(Letters), NEW p
  PROVE  ~HasWord(<<>>, word) /\ ~Matches(<<>>, p)
<1>1. Len(<<>>) = 0 /\ DOMAIN <<>> = {} /\ Len(word) \in Nat /\ (word # <<>> => Len(word) > 0)
  OBVIOUS
<1>2. word # <<>> => 0 .. Len(<<>>) - Len(word) = {}
  BY <1>1
<1> QED
  BY <1>1, <1>2 DEF HasWord, Matches

(* The joined text has a word or a letter of one line exactly when a member has it. *)
LEMMA JoinedWords ==
  ASSUME NEW ts \in Seq(Seq(Characters)), NEW word \in Seq(Letters),
         \A j \in DOMAIN word : word[j] # "newline"
  PROVE  HasWord(Joined(ts), word) <=> \E k \in DOMAIN ts : HasWord(ts[k], word)
<1> DEFINE A == Seq(Characters)
           G == {s \in Seq(A) : HasWord(Joined(s), word) <=> \E k \in DOMAIN s : HasWord(s[k], word)}
<1>1. <<>> \in G
  <2>1. ~HasWord(<<>>, word)
    BY NothingInNothing
  <2>2. <<>> \in Seq(A) /\ DOMAIN <<>> = {} /\ Joined(<<>>) = <<>>
    BY JoinedRules DEF JoinGrows
  <2> QED
    BY <2>1, <2>2
<1>2. ASSUME NEW s \in Seq(A), NEW t \in A, s \in G PROVE Append(s, t) \in G
  <2>1. HasWord(Joined(Append(s, t)), word) <=> HasWord(Joined(s), word) \/ HasWord(t, word)
    <3>1. Joined(s) \in A /\ ~HasWord(<<>>, word)
      BY JoinedRules, NothingInNothing DEF JoinGrows
    <3>2. CASE t = <<>>
      <4>1. Joined(Append(s, t)) = Joined(s)
        BY <3>2, JoinedRules DEF JoinGrows
      <4> QED
        BY <3>1, <3>2, <4>1
    <3>3. CASE t # <<>> /\ Joined(s) = <<>>
      <4>1. Joined(Append(s, t)) = t
        BY <3>3, JoinedRules DEF JoinGrows
      <4> QED
        BY <3>1, <3>3, <4>1
    <3>4. CASE t # <<>> /\ Joined(s) # <<>>
      <4>1. Joined(Append(s, t)) = Joined(s) \o <<Newline>> \o t
        BY <3>4, JoinedRules DEF JoinGrows
      <4> DEFINE a == Joined(s)
      <4>2. a \in Seq(Characters) /\ t \in Seq(Characters)
        BY <3>1
      <4> HIDE DEF a, G, A
      <4>3. HasWord(a \o <<Newline>> \o t, word) <=> HasWord(a, word) \/ HasWord(t, word)
        BY <4>2, WordAcross
      <4> QED
        BY <4>1, <4>3 DEF a
    <3> QED
      BY <3>2, <3>3, <3>4
  <2>2. /\ Append(s, t) \in Seq(A) /\ DOMAIN Append(s, t) = DOMAIN s \cup {Len(s) + 1}
        /\ \A k \in DOMAIN s : Append(s, t)[k] = s[k]
        /\ Append(s, t)[Len(s) + 1] = t
    OBVIOUS
  <2>3. (\E k \in DOMAIN Append(s, t) : HasWord(Append(s, t)[k], word))
          <=> (\E k \in DOMAIN s : HasWord(s[k], word)) \/ HasWord(t, word)
    BY <2>2
  <2>4. HasWord(Joined(s), word) <=> \E k \in DOMAIN s : HasWord(s[k], word)
    BY <1>2
  <2> QED
    BY <2>1, <2>2, <2>3, <2>4
<1>3. Seq(A) \subseteq G
  <2> HIDE DEF G, A
  <2> QED
    BY <1>1, <1>2, SeqInduction
<1> QED
  BY <1>3

(* So a pattern matches the joined text exactly if it matches one of the   *)
(* texts.                                                                  *)
LEMMA JoinedPatterns ==
  ASSUME NEW ts \in Seq(Seq(Characters)), NEW p, p # "newline"
  PROVE  Matches(Joined(ts), p) <=> \E k \in DOMAIN ts : Matches(ts[k], p)
<1> DEFINE A == Seq(Characters)
           G == {s \in Seq(A) : Matches(Joined(s), p) <=> \E k \in DOMAIN s : Matches(s[k], p)}
<1>0. ~Matches(<<>>, p)
  BY DEF Matches
<1>1. <<>> \in G
  <2>1. <<>> \in Seq(A) /\ DOMAIN <<>> = {} /\ Joined(<<>>) = <<>>
    BY JoinedRules DEF JoinGrows
  <2> QED
    BY <1>0, <2>1
<1>2. ASSUME NEW s \in Seq(A), NEW t \in A, s \in G PROVE Append(s, t) \in G
  <2>1. Matches(Joined(Append(s, t)), p) <=> Matches(Joined(s), p) \/ Matches(t, p)
    <3>1. Joined(s) \in A
      BY JoinedRules DEF JoinGrows
    <3>2. CASE t = <<>>
      <4>1. Joined(Append(s, t)) = Joined(s)
        BY <3>2, JoinedRules DEF JoinGrows
      <4> QED
        BY <1>0, <3>2, <4>1
    <3>3. CASE t # <<>> /\ Joined(s) = <<>>
      <4>1. Joined(Append(s, t)) = t
        BY <3>3, JoinedRules DEF JoinGrows
      <4> QED
        BY <1>0, <3>3, <4>1
    <3>4. CASE t # <<>> /\ Joined(s) # <<>>
      <4>1. Joined(Append(s, t)) = Joined(s) \o <<Newline>> \o t
        BY <3>4, JoinedRules DEF JoinGrows
      <4> DEFINE a == Joined(s)
      <4>2. a \in Seq(Characters) /\ t \in Seq(Characters)
        BY <3>1
      <4> HIDE DEF a, G, A
      <4>3. Matches(a \o <<Newline>> \o t, p) <=> Matches(a, p) \/ Matches(t, p)
        BY <4>2, PatternAcross
      <4> QED
        BY <4>1, <4>3 DEF a
    <3> QED
      BY <3>2, <3>3, <3>4
  <2>2. /\ Append(s, t) \in Seq(A) /\ DOMAIN Append(s, t) = DOMAIN s \cup {Len(s) + 1}
        /\ \A k \in DOMAIN s : Append(s, t)[k] = s[k]
        /\ Append(s, t)[Len(s) + 1] = t
    OBVIOUS
  <2>3. (\E k \in DOMAIN Append(s, t) : Matches(Append(s, t)[k], p))
          <=> (\E k \in DOMAIN s : Matches(s[k], p)) \/ Matches(t, p)
    BY <2>2
  <2>4. Matches(Joined(s), p) <=> \E k \in DOMAIN s : Matches(s[k], p)
    BY <1>2
  <2> QED
    BY <2>1, <2>2, <2>3, <2>4
<1>3. Seq(A) \subseteq G
  <2> HIDE DEF G, A
  <2> QED
    BY <1>1, <1>2, SeqInduction
<1> QED
  BY <1>3

(* A post is one message or several, each with its text.                   *)
LEMMA PostType ==
  ASSUME NEW p \in Posts
  PROVE  /\ p \in Seq(Messages) /\ p # <<>>
         /\ \A k \in DOMAIN p : p[k].text \in Seq(Characters)
         /\ [k \in DOMAIN p |-> p[k].text] \in Seq(Seq(Characters))
<1>1. p \in Seq(Messages) /\ p # <<>>
  BY CopyTextAssumption
<1>2. \A k \in DOMAIN p : p[k] \in Messages
  BY <1>1
<1>3. \A m \in Messages : m.text \in Seq(Characters)
  BY DEF Messages
<1>4. \A k \in DOMAIN p : p[k].text \in Seq(Characters)
  BY <1>2, <1>3
<1>5. [k \in DOMAIN p |-> p[k].text] \in Seq(Seq(Characters))
  <2> DEFINE T == Seq(Characters)
  <2>1. DOMAIN p = 1 .. Len(p) /\ Len(p) \in Nat
    BY <1>1
  <2>2. \A k \in 1 .. Len(p) : p[k].text \in T
    BY <1>4, <2>1
  <2> HIDE DEF T
  <2>3. [k \in 1 .. Len(p) |-> p[k].text] \in Seq(T)
    BY <2>1, <2>2, SeqDef
  <2> QED
    BY <2>1, <2>3 DEF T
<1> QED
  BY <1>1, <1>4, <1>5

Taken(p) == [k \in DOMAIN p |-> ConvertMessage(p[k])]

(* The view filters are given: the texts joined, the kinds of all media,   *)
(* forwarded if any message is (filter.go).                                *)
LEMMA ViewOf ==
  ASSUME NEW p \in Posts
  PROVE  LET v == BuildFilterView(Taken(p))
         IN /\ v.text = Joined([k \in DOMAIN p |-> p[k].text])
            /\ v.media = UNION {ConvertMedia(m.media) : m \in ToSet(p)}
            /\ v.forwarded <=> \E m \in ToSet(p) : m.forwarded
<1>1. /\ DOMAIN Taken(p) = DOMAIN p
      /\ \A k \in DOMAIN p : /\ Taken(p)[k].text = p[k].text
                             /\ Taken(p)[k].media = ConvertMedia(p[k].media)
                             /\ Taken(p)[k].forwarded = p[k].forwarded
  BY DEF Taken, ConvertMessage
<1>2. [k \in DOMAIN Taken(p) |-> Taken(p)[k].text] = [k \in DOMAIN p |-> p[k].text]
  BY <1>1
<1>3. ToSet(p) = {p[k] : k \in DOMAIN p}
  BY DEF ToSet
<1>4. UNION {Taken(p)[k].media : k \in DOMAIN Taken(p)} = UNION {ConvertMedia(m.media) : m \in ToSet(p)}
  BY <1>1, <1>3
<1>5. (\E k \in DOMAIN Taken(p) : Taken(p)[k].forwarded) <=> \E m \in ToSet(p) : m.forwarded
  BY <1>1, <1>3
<1> QED
  BY <1>2, <1>4, <1>5 DEF BuildFilterView

(* ShouldForward on the view of a post says what Allowed says of its       *)
(* messages, for a rule whose words and patterns keep to one line.         *)
LEMMA Judged ==
  ASSUME NEW p \in Posts, NEW r \in Rules, InALine(r)
  PROVE  ShouldForward(r, BuildFilterView(Taken(p))) <=> Allowed(r, ToSet(p))
<1> DEFINE ts == [k \in DOMAIN p |-> p[k].text]
           v == BuildFilterView(Taken(p))
           members == ToSet(p)
<1>1. /\ v.text = Joined(ts)
      /\ v.media = UNION {ConvertMedia(m.media) : m \in members}
      /\ v.forwarded <=> \E m \in members : m.forwarded
  BY ViewOf
<1>2. ts \in Seq(Seq(Characters)) /\ DOMAIN ts = DOMAIN p /\ \A k \in DOMAIN p : ts[k] = p[k].text
  BY PostType
<1>3. members = {p[k] : k \in DOMAIN p}
  BY DEF ToSet
<1>4. r.keywords \subseteq Seq(Letters) /\ r.blacklist \subseteq Seq(Letters)
  BY CopyTextAssumption DEF RuleTexts
<1> HIDE DEF ts, v, members
<1>5. ASSUME NEW word \in r.keywords \cup r.blacklist
      PROVE  HasWord(v.text, word) <=> \E m \in members : HasWord(m.text, word)
  <2>1. word \in Seq(Letters) /\ \A j \in DOMAIN word : word[j] # "newline"
    BY <1>4 DEF InALine
  <2>2. HasWord(Joined(ts), word) <=> \E k \in DOMAIN ts : HasWord(ts[k], word)
    BY <1>2, <2>1, JoinedWords
  <2> QED
    BY <1>1, <1>2, <1>3, <2>2
<1>6. ASSUME NEW x \in r.patterns \cup r.blackpatterns
      PROVE  Matches(v.text, x) <=> \E m \in members : Matches(m.text, x)
  <2>1. x # "newline"
    BY DEF InALine
  <2>2. Matches(Joined(ts), x) <=> \E k \in DOMAIN ts : Matches(ts[k], x)
    BY <1>2, <2>1, JoinedPatterns
  <2> QED
    BY <1>1, <1>2, <1>3, <2>2
<1>7. CheckKeywords(v.text, r.keywords) <=> r.keywords = {} \/ \E m \in members : CheckKeywords(m.text, r.keywords)
  BY <1>5 DEF CheckKeywords
<1>8. CheckPatterns(v.text, r.patterns) <=> r.patterns = {} \/ \E m \in members : CheckPatterns(m.text, r.patterns)
  BY <1>6 DEF CheckPatterns
<1>9. ~Blacklisted(v.text, r) <=> \A m \in members : ~Blacklisted(m.text, r)
  BY <1>5, <1>6 DEF Blacklisted
<1>10. ~(r.originalOnly /\ v.forwarded) <=> (r.originalOnly => \A m \in members : ~m.forwarded)
  BY <1>1
<1> DEFINE media == UNION {ConvertMedia(m.media) : m \in members}
           S == r.media
<1>11. CheckMediaTypes(v.media, r.media)
         <=> \/ S = {}
             \/ "any" \in S /\ media # {}
             \/ "any" \notin S /\ "text" \in S /\ media = {}
             \/ "any" \notin S /\ media # {} /\ \A x \in media : x \in S
  <2>1. v.media = media
    BY <1>1
  <2> HIDE DEF media, S
  <2> QED
    BY <2>1 DEF CheckMediaTypes, S
<1> QED
  BY <1>7, <1>8, <1>9, <1>10, <1>11 DEF ShouldForward, Allowed, v, members

CopyStages == {"posted", "converted", "accepted", "composed", "rewritten", "rejected", "copied", "copied_ai"}

(* What is known of a post on its way, and that the verdict is the filters'. *)
CopyVerdict ==
  IF part = "copy"
  THEN /\ copyStage \in CopyStages /\ post \in Posts /\ rule \in Rules
       /\ copyStage # "posted" => taken = Taken(post)
       /\ copyStage \notin {"posted", "converted"} =>
            (copyStage # "rejected" <=> ShouldForward(rule, BuildFilterView(taken)))
  ELSE copyStage = "idle" /\ post = <<>> /\ rule = AnyRule

(* The verdict that is kept in a behaviour is that of ShouldForward on the *)
(* post.                                                                   *)
LEMMA VerdictKept == Spec => []CopyVerdict
<1>1. Init => CopyVerdict
  BY DEF Init, CopyInit, CopyVerdict, CopyStages
<1>2. CopyVerdict /\ [Next]_textVars => CopyVerdict'
  <2> SUFFICES ASSUME CopyVerdict, [Next]_textVars PROVE CopyVerdict'
    OBVIOUS
  <2>1. CASE part = "copy" /\ Convert /\ part' = part
    BY <2>1 DEF CopyVerdict, Convert, CopyStages, Taken
  <2>2. CASE part = "copy" /\ Judge /\ part' = part
    BY <2>2 DEF CopyVerdict, Judge, CopyStages
  <2>3. CASE part = "copy" /\ Compose /\ part' = part
    <3>1. copyStage = "accepted" /\ copyStage' \in {"composed", "rewritten"} /\ UNCHANGED <<post, rule, taken>>
      BY <2>3 DEF Compose
    <3> QED
      BY <2>3, <3>1 DEF CopyVerdict, CopyStages
  <2>4. CASE part = "copy" /\ Send /\ part' = part
    <3>1. copyStage \in {"composed", "rewritten"} /\ copyStage' \in {"copied", "copied_ai"} /\ UNCHANGED <<post, rule, taken>>
      BY <2>4 DEF Send
    <3> QED
      BY <2>4, <3>1 DEF CopyVerdict, CopyStages
  <2>5. CASE UNCHANGED <<part, copyVars>>
    BY <2>5 DEF CopyVerdict, copyVars
  <2> QED
    BY <2>1, <2>2, <2>3, <2>4, <2>5 DEF Next, CopyNext, textVars
<1> QED
  BY <1>1, <1>2, PTL DEF Spec

(* An album is judged as a whole: what is posted was allowed by the rule,  *)
(* looked at over all its messages (filter.go, updates.go).  For all posts *)
(* and rules.                                                              *)
THEOREM JudgedWholeHolds == Spec => []JudgedWhole
<1>1. CopyVerdict => JudgedWhole
  <2> SUFFICES ASSUME CopyVerdict, copyStage \notin {"posted", "converted"}, InALine(rule)
               PROVE  copyStage # "rejected" <=> Allowed(rule, ToSet(post))
    BY DEF JudgedWhole
  <2>1. CASE part = "copy"
    <3>1. post \in Posts /\ rule \in Rules /\ taken = Taken(post)
      BY <2>1 DEF CopyVerdict
    <3>2. ShouldForward(rule, BuildFilterView(Taken(post))) <=> Allowed(rule, ToSet(post))
      BY <3>1, Judged
    <3> QED
      BY <2>1, <3>1, <3>2 DEF CopyVerdict
  <2>2. CASE part # "copy"
    <3>1. copyStage = "idle" /\ post = <<>> /\ rule = AnyRule
      BY <2>2 DEF CopyVerdict
    <3>2. ToSet(post) = {}
      BY <3>1 DEF ToSet
    <3>3. Allowed(AnyRule, {})
      BY DEF Allowed, AnyRule
    <3> QED
      BY <3>1, <3>2, <3>3
  <2> QED
    BY <2>1, <2>2
<1> QED
  BY <1>1, VerdictKept, PTL

-----------------------------------------------------------------------------
(* Places, marks and cuts of a plain text: the copy keeps its text and its *)
(* marks.                                                                  *)

(* Places in a text                                                        *)
Widths(t) == [k \in DOMAIN t |-> t[k].w]

(* The widths of the characters of a text.                                 *)
LEMMA WidthsType ==
  ASSUME NEW t \in Seq(Characters)
  PROVE  /\ Widths(t) \in Seq(Nat) /\ Len(Widths(t)) = Len(t) /\ \A i \in 1 .. Len(t) : Widths(t)[i] = t[i].w
         /\ \A i : Before(t, i) = Sums(Widths(t))[i - 1]
<1>1. DOMAIN t = 1 .. Len(t) /\ Len(t) \in Nat /\ \A i \in 1 .. Len(t) : t[i] \in Characters
  OBVIOUS
<1>2. \A i \in 1 .. Len(t) : t[i].w \in Nat
  BY <1>1 DEF Characters
<1>3. Widths(t) \in Seq(Nat) /\ Len(Widths(t)) = Len(t) /\ \A i \in 1 .. Len(t) : Widths(t)[i] = t[i].w
  BY <1>1, <1>2 DEF Widths
<1>4. \A i : Before(t, i) = Sums(Widths(t))[i - 1]
  BY DEF Before, Widths
<1> QED
  BY <1>3, <1>4

(* The place of a character is that of the one before it and its width     *)
(* more.                                                                   *)
LEMMA BeforeType ==
  ASSUME NEW t \in Seq(Characters)
  PROVE  /\ \A i \in 1 .. Len(t) + 1 : Before(t, i) \in Nat
         /\ Before(t, 1) = 0
         /\ \A i \in 1 .. Len(t) : Before(t, i + 1) = Before(t, i) + t[i].w /\ t[i].w \in 1 .. 2
<1>1. /\ Widths(t) \in Seq(Nat) /\ Len(Widths(t)) = Len(t) /\ (\A i \in 1 .. Len(t) : Widths(t)[i] = t[i].w)
      /\ Len(t) \in Nat
  BY WidthsType
<1>2. \A i : Before(t, i) = Sums(Widths(t))[i - 1]
  BY WidthsType
<1> DEFINE ns == Widths(t)
<1> HIDE DEF ns
<1>3. ns \in Seq(Nat) /\ Len(ns) = Len(t) /\ (\A i \in 1 .. Len(t) : ns[i] = t[i].w) /\ \A i : Before(t, i) = Sums(ns)[i - 1]
  BY <1>1, <1>2 DEF ns
<1>4. Sums(ns) \in [0 .. Len(t) -> Nat] /\ Sums(ns)[0] = 0 /\ \A i \in 1 .. Len(t) : Sums(ns)[i] = Sums(ns)[i - 1] + ns[i]
  BY <1>3, SumsRule
<1>5. \A i \in 1 .. Len(t) + 1 : Before(t, i) \in Nat
  <2> TAKE i \in 1 .. Len(t) + 1
  <2>1. i - 1 \in 0 .. Len(t)
    BY <1>1
  <2> QED
    BY <1>3, <1>4, <2>1
<1>6. Before(t, 1) = 0
  BY <1>3, <1>4
<1>7. ASSUME NEW i \in 1 .. Len(t) PROVE Before(t, i + 1) = Before(t, i) + t[i].w /\ t[i].w \in 1 .. 2
  <2>1. (i + 1) - 1 = i /\ t[i] \in Characters
    BY <1>1
  <2>2. t[i].w \in 1 .. 2
    BY <2>1 DEF Characters
  <2>3. Before(t, i + 1) = Sums(ns)[i] /\ Before(t, i) = Sums(ns)[i - 1]
    BY <1>3, <2>1
  <2> QED
    BY <1>3, <1>4, <2>2, <2>3
<1> QED
  BY <1>5, <1>6, <1>7

(* In a text without wide characters places are counted as the characters  *)
(* are.                                                                    *)
LEMMA BeforeOnes ==
  ASSUME NEW t \in Seq(Characters), ~Wide(t)
  PROVE  \A i \in 1 .. Len(t) + 1 : Before(t, i) = i - 1
<1> DEFINE N == Len(t)
           G == {i \in 0 .. N : Before(t, i + 1) = i}
<1>1. N \in Nat /\ \A i \in 1 .. N : Before(t, i) \in Nat /\ Before(t, i + 1) = Before(t, i) + t[i].w /\ t[i].w \in 1 .. 2
  BY BeforeType
<1>2. 0 \in G
  BY <1>1, BeforeType
<1>3. ASSUME NEW i \in 1 .. N, i - 1 \in G PROVE i \in G
  <2>1. Before(t, (i - 1) + 1) = i - 1 /\ (i - 1) + 1 = i
    BY <1>1, <1>3
  <2>2. ~(t[i].w > 1)
    BY DEF Wide
  <2>3. t[i].w = 1
    BY <1>1, <2>2
  <2> QED
    BY <1>1, <2>1, <2>3
<1>4. 0 .. N \subseteq G
  <2> HIDE DEF G, N
  <2> QED
    BY <1>1, <1>2, <1>3, UpInduction
<1> SUFFICES ASSUME NEW i \in 1 .. N + 1 PROVE Before(t, i) = i - 1
  OBVIOUS
<1>5. i - 1 \in 0 .. N /\ (i - 1) + 1 = i
  BY <1>1
<1> QED
  BY <1>4, <1>5

(* A text that begins another one has its places in it.                    *)
LEMMA BeforePrefix ==
  ASSUME NEW p \in Seq(Characters), NEW v \in Seq(Characters)
  PROVE  /\ \A i \in 1 .. Len(p) + 1 : Before(p \o v, i) = Before(p, i)
         /\ \A i \in Len(p) + 1 .. Len(p \o v) : Before(p \o v, i) >= Before(p, Len(p) + 1)
<1> DEFINE t == p \o v
           N == Len(p)
           M == Len(t)
<1>1. t \in Seq(Characters) /\ N \in Nat /\ M \in Nat /\ N <= M /\ \A i \in 1 .. N : t[i] = p[i]
  OBVIOUS
<1> HIDE DEF t
<1>2. /\ \A i \in 1 .. M + 1 : Before(t, i) \in Nat
      /\ \A i \in 1 .. M : Before(t, i + 1) = Before(t, i) + t[i].w /\ t[i].w \in 1 .. 2
      /\ Before(t, 1) = 0
  BY <1>1, BeforeType
<1>3. /\ \A i \in 1 .. N : Before(p, i + 1) = Before(p, i) + p[i].w
      /\ Before(p, 1) = 0
  BY <1>1, BeforeType
<1> DEFINE G == {i \in 0 .. N : Before(t, i + 1) = Before(p, i + 1)}
<1>4. 0 .. N \subseteq G
  <2>1. 0 \in G
    BY <1>1, <1>2, <1>3
  <2>2. ASSUME NEW i \in 1 .. N, i - 1 \in G PROVE i \in G
    <3>1. Before(t, i) = Before(p, i)
      <4>1. (i - 1) + 1 = i
        BY <1>1
      <4> QED
        BY <2>2, <4>1
    <3>2. Before(t, i + 1) = Before(t, i) + t[i].w /\ Before(p, i + 1) = Before(p, i) + p[i].w /\ t[i] = p[i]
      <4>1. i \in 1 .. M
        BY <1>1
      <4> QED
        BY <1>1, <1>2, <1>3, <4>1
    <3> QED
      BY <3>1, <3>2
  <2> HIDE DEF G, N
  <2> QED
    BY <1>1, <2>1, <2>2, UpInduction
<1>5. ASSUME NEW i \in 1 .. N + 1 PROVE Before(t, i) = Before(p, i)
  <2>1. i - 1 \in 0 .. N /\ (i - 1) + 1 = i
    BY <1>1
  <2> QED
    BY <1>4, <2>1
<1> DEFINE H == {i \in 0 .. M : i >= N => Before(t, i + 1) >= Before(t, N + 1)}
<1>6. 0 .. M \subseteq H
  <2>0. Before(t, N + 1) \in Nat
    <3>1. N + 1 \in 1 .. M + 1
      BY <1>1
    <3> QED
      BY <1>2, <3>1
  <2>1. 0 \in H
    <3>1. 0 >= N => N = 0
      BY <1>1
    <3> QED
      BY <1>1, <2>0, <3>1
  <2>2. ASSUME NEW i \in 1 .. M, i - 1 \in H PROVE i \in H
    <3>1. CASE i < N
      BY <1>1, <3>1
    <3>2. CASE i = N
      BY <1>1, <2>0, <3>2
    <3>3. CASE i > N
      <4>1. i - 1 >= N /\ (i - 1) + 1 = i
        BY <1>1, <3>3
      <4>2. Before(t, i) >= Before(t, N + 1)
        BY <2>2, <4>1
      <4>3. Before(t, i + 1) = Before(t, i) + t[i].w /\ t[i].w \in 1 .. 2 /\ Before(t, i) \in Nat
        BY <1>1, <1>2
      <4> QED
        BY <2>0, <4>2, <4>3
    <3> QED
      BY <1>1, <3>1, <3>2, <3>3
  <2> HIDE DEF H, M
  <2> QED
    BY <1>1, <2>1, <2>2, UpInduction
<1>7. ASSUME NEW i \in N + 1 .. M PROVE Before(t, i) >= Before(p, N + 1)
  <2>1. i - 1 \in 0 .. M /\ (i - 1) + 1 = i /\ i - 1 >= N
    BY <1>1
  <2>2. Before(t, i) >= Before(t, N + 1)
    BY <1>6, <2>1
  <2>3. N + 1 \in 1 .. N + 1
    BY <1>1
  <2> QED
    BY <1>5, <2>2, <2>3
<1> QED
  BY <1>5, <1>7 DEF t

(* The fields of an entity.                                                *)
LEMMA EntityType ==
  ASSUME NEW m \in Entities
  PROVE  m.at \in Nat /\ m.n \in Nat /\ m.type \in Named \cup Unnamed /\ m = [type |-> m.type, at |-> m.at, n |-> m.n]
BY DEF Entities

(* Entities within the beginning of a text cover only letters of it.       *)
LEMMA CoveredPrefix ==
  ASSUME NEW p \in Seq(Characters), NEW v \in Seq(Characters), NEW pm \in Seq(Entities),
         \A k \in DOMAIN pm : pm[k].at + pm[k].n <= Before(p, Len(p) + 1), NEW types
  PROVE  Covered(p \o v, pm, types) = Covered(p, pm, types)
<1> DEFINE t == p \o v
<1>1. /\ \A i \in 1 .. Len(p) + 1 : Before(t, i) = Before(p, i)
      /\ \A i \in Len(p) + 1 .. Len(t) : Before(t, i) >= Before(p, Len(p) + 1)
  BY BeforePrefix
<1>2. /\ DOMAIN t = 1 .. Len(t) /\ DOMAIN p = 1 .. Len(p) /\ Len(p) \in Nat /\ Len(t) \in Nat /\ Len(p) <= Len(t)
      /\ t \in Seq(Characters)
  OBVIOUS
<1> HIDE DEF t
<1>3. \A k \in DOMAIN pm : pm[k].at \in Nat /\ pm[k].n \in Nat
  <2> TAKE k \in DOMAIN pm
  <2>1. pm[k] \in Entities
    OBVIOUS
  <2> QED
    BY <2>1, EntityType
<1>4. ASSUME NEW i \in DOMAIN t, NEW k \in DOMAIN pm, Before(t, i) < pm[k].at + pm[k].n PROVE i \in DOMAIN p
  <2> SUFFICES ASSUME i \in Len(p) + 1 .. Len(t) PROVE FALSE
    BY <1>2
  <2>1. Before(t, i) >= Before(p, Len(p) + 1)
    BY <1>1
  <2>2. Before(t, i) \in Nat /\ Before(p, Len(p) + 1) \in Nat
    <3>1. i \in 1 .. Len(t) + 1 /\ Len(p) + 1 \in 1 .. Len(p) + 1
      BY <1>2
    <3> QED
      BY <1>2, <3>1, BeforeType
  <2> QED
    BY <1>3, <1>4, <2>1, <2>2
<1>5. \A i \in DOMAIN p : i \in DOMAIN t /\ Before(t, i) = Before(p, i)
  <2> TAKE i \in DOMAIN p
  <2>1. i \in 1 .. Len(p) + 1 /\ i \in DOMAIN t
    BY <1>2
  <2> QED
    BY <1>1, <2>1
<1> QED
  BY <1>4, <1>5 DEF Covered, t

(* Converted entities are entities.                                        *)
LEMMA ConvertedType ==
  ASSUME NEW pm \in Seq(Entities)
  PROVE  ConvertEntities(pm) \in Seq(Entities)
<1> DEFINE E == Entities
           to(k) == IF pm[k].type \in Placed THEN pm[k]
                    ELSE [type |-> IF pm[k].type \in Named THEN pm[k].type ELSE "unknown", at |-> 0, n |-> 0]
<1>1. DOMAIN pm = 1 .. Len(pm) /\ Len(pm) \in Nat /\ \A k \in 1 .. Len(pm) : pm[k] \in E
  OBVIOUS
<1>2. \A k \in 1 .. Len(pm) : to(k) \in E
  <2> TAKE k \in 1 .. Len(pm)
  <2>1. "unknown" \in Named \cup Unnamed
    BY DEF Unnamed
  <2> QED
    BY <1>1, <2>1 DEF Entities
<1> HIDE DEF E, to
<1>3. [k \in 1 .. Len(pm) |-> to(k)] \in Seq(E)
  BY <1>1, <1>2
<1> QED
  BY <1>1, <1>3 DEF ConvertEntities, E, to

(* Converting the entities moves no mark (updates.go).                     *)
LEMMA CoveredConverted ==
  ASSUME NEW t, NEW pm \in Seq(Entities), NEW type \in Placed
  PROVE  Covered(t, ConvertEntities(pm), {type}) = Covered(t, pm, {type})
<1> DEFINE ms == ConvertEntities(pm)
<1>1. DOMAIN ms = DOMAIN pm /\ \A k \in DOMAIN pm : (pm[k].type = type => ms[k] = pm[k]) /\ (ms[k].type = type => ms[k] = pm[k])
  <2>1. DOMAIN ms = DOMAIN pm
    BY DEF ConvertEntities
  <2>2. ASSUME NEW k \in DOMAIN pm
        PROVE  (pm[k].type = type => ms[k] = pm[k]) /\ (ms[k].type = type => ms[k] = pm[k])
    <3>1. ms[k] = IF pm[k].type \in Placed THEN pm[k]
                  ELSE [type |-> IF pm[k].type \in Named THEN pm[k].type ELSE "unknown", at |-> 0, n |-> 0]
      BY DEF ConvertEntities
    <3>2. CASE pm[k].type \in Placed
      BY <3>1, <3>2
    <3>3. CASE pm[k].type \notin Placed
      <4>1. ms[k].type = IF pm[k].type \in Named THEN pm[k].type ELSE "unknown"
        BY <3>1, <3>3
      <4>2. "unknown" \notin Placed
        BY DEF Placed
      <4> QED
        BY <3>3, <4>1, <4>2
    <3> QED
      BY <3>2, <3>3
  <2> QED
    BY <2>1, <2>2
<1> HIDE DEF ms
<1> QED
  BY <1>1 DEF Covered, ms

(* Neither does converting them back (outbound.go).                        *)
LEMMA CoveredTg ==
  ASSUME NEW t, NEW ms \in Seq(Entities), NEW type \in Placed
  PROVE  Covered(t, TgEntities(ms), {type}) = Covered(t, ms, {type})
<1> DEFINE S == [type : Named, at : Nat, n : Nat]
           kept == TgEntities(ms)
<1>1. /\ \A k \in DOMAIN kept : \E j \in DOMAIN ms : kept[k] = ms[j] /\ ms[j] \in S
      /\ \A j \in DOMAIN ms : ms[j] \in S => \E k \in DOMAIN kept : kept[k] = ms[j]
  <2>1. kept = Only(ms, S)
    BY DEF TgEntities
  <2> HIDE DEF kept, S
  <2>2. \A k \in DOMAIN Only(ms, S) : \E j \in DOMAIN ms : Only(ms, S)[k] = ms[j] /\ ms[j] \in S
    BY OnlyElements
  <2>3. \A j \in DOMAIN ms : ms[j] \in S => \E k \in DOMAIN Only(ms, S) : Only(ms, S)[k] = ms[j]
    BY OnlyElements
  <2> QED
    BY <2>1, <2>2, <2>3
<1>2. ASSUME NEW j \in DOMAIN ms, ms[j].type = type PROVE ms[j] \in S
  <2>1. ms[j] \in Entities /\ type \in Named
    BY DEF Named
  <2>2. ms[j].at \in Nat /\ ms[j].n \in Nat /\ ms[j] = [type |-> ms[j].type, at |-> ms[j].at, n |-> ms[j].n]
    BY <2>1, EntityType
  <2> QED
    BY <1>2, <2>1, <2>2
<1> HIDE DEF kept, S
<1> QED
  BY <1>1, <1>2 DEF Covered, kept

(* The ends of the segments                                                *)
LEMMA MaxOfTwo ==
  ASSUME NEW a \in Nat, NEW b \in Nat
  PROVE  /\ Max({a, b}) \in Nat /\ Max({a, b}) >= a /\ Max({a, b}) >= b /\ (Max({a, b}) = a \/ Max({a, b}) = b)
         /\ Min({a, b}) \in Nat /\ Min({a, b}) <= a /\ Min({a, b}) <= b /\ (Min({a, b}) = a \/ Min({a, b}) = b)
<1> DEFINE S == {a, b}
<1>1. S \in SUBSET Nat /\ S # {} /\ a + b \in Nat /\ \A y \in S : y <= a + b
  OBVIOUS
<1>2. a \in S /\ b \in S /\ \A y \in S : (y = a \/ y = b) /\ y \in Nat
  OBVIOUS
<1> HIDE DEF S
<1>3. Min(S) \in S /\ \A y \in S : Min(S) <= y
  BY <1>1, MinOf
<1>4. Max(S) \in S /\ \A y \in S : y <= Max(S)
  BY <1>1, MaxOf
<1>5. /\ Max(S) \in Nat /\ Max(S) >= a /\ Max(S) >= b /\ (Max(S) = a \/ Max(S) = b)
      /\ Min(S) \in Nat /\ Min(S) <= a /\ Min(S) <= b /\ (Min(S) = a \/ Min(S) = b)
  BY <1>2, <1>3, <1>4
<1> QED
  BY <1>5 DEF S

(* The limit of a message is positive.                                     *)
LEMMA LimitType == Limit \in Nat /\ Limit > 0
BY CopyTextAssumption

(* A cut is after its start, and at most the limit away.                   *)
LEMMA CutType ==
  ASSUME NEW t \in Seq(Characters), NEW ms \in Seq(Entities), NEW s \in 0 .. Len(t)
  PROVE  /\ Cut(t, ms, s) \in 0 .. Len(t) /\ Cut(t, ms, s) <= s + Limit
         /\ s < Len(t) => Cut(t, ms, s) > s
<1> DEFINE inside == {b \in Ends(ms) : s < b /\ b <= s + Limit}
<1>1. Len(t) \in Nat /\ s \in Nat
  OBVIOUS
<1>2. Cut(t, ms, s) = IF s + Limit >= Len(t) THEN Len(t) ELSE IF inside = {} THEN s + Limit ELSE Max(inside)
  BY DEF Cut
<1>3. Ends(ms) \in SUBSET Nat
  <2>1. \A k \in DOMAIN ms : ms[k] \in Entities
    OBVIOUS
  <2>2. \A k \in DOMAIN ms : ms[k].at \in Nat /\ ms[k].n \in Nat
    BY <2>1, EntityType
  <2> QED
    BY <2>2 DEF Ends
<1>4. inside # {} => Max(inside) \in inside
  <2>1. inside \in SUBSET Nat /\ s + Limit \in Nat /\ \A y \in inside : y <= s + Limit
    BY <1>1, <1>3, LimitType
  <2> HIDE DEF inside
  <2> QED
    BY <2>1, MaxOf
<1>5. inside # {} => Max(inside) \in Nat /\ s < Max(inside) /\ Max(inside) <= s + Limit
  BY <1>3, <1>4
<1> HIDE DEF inside
<1> QED
  BY <1>1, <1>2, <1>5, LimitType

(* The cuts of a text, one after the other.                                *)
LEMMA CutsRule ==
  ASSUME NEW t \in Seq(Characters), NEW ms \in Seq(Entities)
  PROVE  /\ Cuts(t, ms) \in [0 .. Len(t) -> 0 .. Len(t)] /\ Cuts(t, ms)[0] = 0
         /\ \A k \in 1 .. Len(t) : Cuts(t, ms)[k] = Cut(t, ms, Cuts(t, ms)[k - 1])
<1> DEFINE N == Len(t)
           T == 0 .. N
           cut(x) == Cut(t, ms, x)
           op == [i \in 1 .. N |-> [x \in T |-> cut(x)]]
           Fits(g) == g = [k \in 0 .. N |-> IF k = 0 THEN 0 ELSE cut(g[k - 1])]
<1>1. N \in Nat /\ 0 \in T
  OBVIOUS
<1>2. \A x \in T : cut(x) \in T
  BY CutType
<1> HIDE DEF cut
<1>3. op \in [1 .. N -> [T -> T]] /\ \A i \in 1 .. N, x \in T : op[i][x] = cut(x)
  BY <1>2
<1> HIDE DEF op
<1>4. PICK f : Run(f, N, T, 0, op)
  <2> HIDE DEF N, T
  <2> QED
    BY <1>1, <1>3, UpRecursion
<1>5. Fits(f)
  <2>1. \A i \in 1 .. N : f[i - 1] \in T /\ f[i] = op[i][f[i - 1]]
    <3> HIDE DEF N, T
    <3> QED
      BY <1>1, <1>4, RunStep
  <2>2. \A i \in 1 .. N : f[i] = cut(f[i - 1])
    BY <1>3, <2>1
  <2>3. f \in [0 .. N -> T] /\ f[0] = 0
    BY <1>4 DEF Run
  <2>4. \A i \in 0 .. N : i # 0 => i \in 1 .. N
    OBVIOUS
  <2> QED
    BY <2>2, <2>3, <2>4
<1> DEFINE g == CHOOSE g : Fits(g)
<1>6. Fits(g)
  BY <1>5
<1>7. Cuts(t, ms) = g
  BY DEF Cuts, cut
<1>8. Run(g, N, T, 0, op)
  <2> HIDE DEF g
  <2>1. g = [i \in 0 .. N |-> g[i]] /\ g[0] = 0
    BY <1>1, <1>6
  <2>2. \A i \in 1 .. N : i \in 0 .. N /\ i # 0
    OBVIOUS
  <2>3. \A i \in 1 .. N : g[i] = cut(g[i - 1])
    BY <1>6, <2>2
  <2>4. \A i \in 1 .. N : g[i - 1] \in T => g[i] = op[i][g[i - 1]]
    BY <1>3, <2>3
  <2> HIDE DEF Fits, N, T
  <2> QED
    BY <1>1, <1>3, <2>1, <2>4, RunByEquation
<1>9. \A i \in 1 .. N : g[i - 1] \in T /\ g[i] = op[i][g[i - 1]]
  <2> HIDE DEF g, N, T, Fits
  <2> TAKE i \in 1 .. N
  <2>1. i - 1 \in 0 .. N
    BY <1>1
  <2>2. g \in [0 .. N -> T]
    BY <1>8 DEF Run
  <2>3. g[i] = op[i][g[i - 1]]
    BY <1>8 DEF Run
  <2> QED
    BY <2>1, <2>2, <2>3
<1>10. g \in [0 .. N -> T] /\ g[0] = 0
  <2> HIDE DEF g
  <2> QED
    BY <1>8 DEF Run
<1> HIDE DEF g
<1>11. \A i \in 1 .. N : g[i] = cut(g[i - 1])
  BY <1>3, <1>9
<1> QED
  BY <1>7, <1>10, <1>11 DEF cut

(* One cut to the next: it moves on while the text lasts.                  *)
LEMMA CutsStep ==
  ASSUME NEW t \in Seq(Characters), NEW ms \in Seq(Entities), NEW k \in 1 .. Len(t)
  PROVE  LET at == Cuts(t, ms)
         IN /\ at[k - 1] \in 0 .. Len(t) /\ at[k] \in 0 .. Len(t) /\ at[k] <= at[k - 1] + Limit
            /\ at[k - 1] < Len(t) => at[k] > at[k - 1]
<1> DEFINE at == Cuts(t, ms)
           N == Len(t)
<1>1. at \in [0 .. N -> 0 .. N] /\ \A j \in 1 .. N : at[j] = Cut(t, ms, at[j - 1])
  BY CutsRule
<1>2. k - 1 \in 0 .. N /\ k \in 0 .. N
  OBVIOUS
<1> HIDE DEF at
<1>3. at[k - 1] \in 0 .. N /\ at[k] \in 0 .. N /\ at[k] = Cut(t, ms, at[k - 1])
  BY <1>1, <1>2
<1>4. /\ Cut(t, ms, at[k - 1]) <= at[k - 1] + Limit
      /\ at[k - 1] < N => Cut(t, ms, at[k - 1]) > at[k - 1]
  BY <1>3, CutType
<1> QED
  BY <1>3, <1>4 DEF at

(* The number of segments                                                  *)
LastCut(t, ms) == Min({k \in DOMAIN Cuts(t, ms) : Cuts(t, ms)[k] = Len(t)})

(* The last cut is at the end of the text, and between two cuts is at      *)
(* least one character and at most the limit.                              *)
LEMMA LastCutType ==
  ASSUME NEW t \in Seq(Characters), NEW ms \in Seq(Entities)
  PROVE  LET at == Cuts(t, ms)
         IN /\ LastCut(t, ms) \in 0 .. Len(t) /\ at[LastCut(t, ms)] = Len(t)
            /\ \A k \in 1 .. LastCut(t, ms) :
                 /\ k \in 1 .. Len(t) /\ at[k - 1] \in Nat /\ at[k] \in Nat /\ at[k] <= Len(t)
                 /\ at[k - 1] < at[k] /\ at[k] <= at[k - 1] + Limit
            /\ Len(t) > Limit => LastCut(t, ms) > 1
<1> DEFINE at == Cuts(t, ms)
           N == Len(t)
           G == {k \in 0 .. N : at[k] >= k}
           E == {k \in DOMAIN at : at[k] = N}
           last == LastCut(t, ms)
<1>1. N \in Nat /\ at \in [0 .. N -> 0 .. N] /\ at[0] = 0
  BY CutsRule
<1>2. \A k \in 1 .. N : /\ at[k - 1] \in 0 .. N /\ at[k] \in 0 .. N /\ at[k] <= at[k - 1] + Limit
                        /\ at[k - 1] < N => at[k] > at[k - 1]
  BY CutsStep
<1> HIDE DEF at
<1>3. 0 .. N \subseteq G
  <2>1. 0 \in G
    BY <1>1
  <2>2. ASSUME NEW k \in 1 .. N, k - 1 \in G PROVE k \in G
    <3>1. at[k - 1] >= k - 1
      BY <2>2
    <3>2. at[k - 1] \in 0 .. N /\ at[k] \in 0 .. N /\ (at[k - 1] < N => at[k] > at[k - 1])
      BY <1>2
    <3>3. CASE at[k - 1] < N
      BY <3>1, <3>2, <3>3
    <3>4. CASE at[k - 1] = N
      <4>1. Cut(t, ms, N) = N
        BY <1>1, LimitType DEF Cut
      <4>2. at[k] = Cut(t, ms, at[k - 1])
        BY CutsRule DEF at
      <4> QED
        BY <1>1, <3>4, <4>1, <4>2
    <3> QED
      BY <1>1, <3>2, <3>3, <3>4
  <2> HIDE DEF G, N
  <2> QED
    BY <1>1, <2>1, <2>2, UpInduction
<1>4. N \in E
  <2>1. N \in 0 .. N
    BY <1>1
  <2>2. at[N] >= N /\ at[N] \in 0 .. N
    BY <1>1, <1>3, <2>1
  <2> QED
    BY <1>1, <2>1, <2>2
<1>5. last = Min(E)
  BY DEF LastCut, at
<1>6. last \in E /\ \A y \in E : last <= y
  <2>1. E \in SUBSET Nat /\ E # {}
    BY <1>1, <1>4
  <2> HIDE DEF E, last
  <2> QED
    BY <1>5, <2>1, MinOf
<1> HIDE DEF last
<1>7. last \in 0 .. N /\ at[last] = N
  BY <1>1, <1>6
<1>8. ASSUME NEW k \in 1 .. last
      PROVE  /\ k \in 1 .. N /\ at[k - 1] \in Nat /\ at[k] \in Nat /\ at[k] <= N
             /\ at[k - 1] < at[k] /\ at[k] <= at[k - 1] + Limit
  <2>1. k \in 1 .. N /\ k - 1 \in 0 .. N /\ ~(last <= k - 1)
    BY <1>1, <1>7
  <2>2. at[k - 1] # N
    BY <1>1, <1>6, <2>1
  <2>3. /\ at[k - 1] \in 0 .. N /\ at[k] \in 0 .. N /\ at[k] <= at[k - 1] + Limit
        /\ at[k - 1] < N => at[k] > at[k - 1]
    BY <1>2, <2>1
  <2> QED
    BY <1>1, <2>1, <2>2, <2>3
<1>9. ASSUME N > Limit PROVE last > 1
  <2>1. last # 0
    BY <1>1, <1>7, <1>9, LimitType
  <2>2. last # 1
    <3> SUFFICES ASSUME last = 1 PROVE FALSE
      OBVIOUS
    <3>1. at[1] <= at[1 - 1] + Limit /\ 1 - 1 = 0
      BY <1>8
    <3> QED
      BY <1>1, <1>7, <1>9, <3>1, LimitType
  <2> QED
    BY <1>7, <2>1, <2>2
<1> QED
  BY <1>7, <1>8, <1>9 DEF at, last

(* The texts of the first j segments                                       *)
SegmentText(t, ms, k) == SubSeq(t, Cuts(t, ms)[k - 1] + 1, Cuts(t, ms)[k])
SegmentTexts(t, ms, j) == [k \in 1 .. j |-> SegmentText(t, ms, k)]

(* A segment is the text between two cuts.                                 *)
LEMMA SegmentType ==
  ASSUME NEW t \in Seq(Characters), NEW ms \in Seq(Entities), NEW k \in 1 .. LastCut(t, ms)
  PROVE  LET at == Cuts(t, ms)
         IN /\ SegmentText(t, ms, k) \in Seq(Characters) /\ Len(SegmentText(t, ms, k)) = at[k] - at[k - 1]
            /\ Len(SegmentText(t, ms, k)) \in 1 .. Limit
            /\ \A i \in 1 .. at[k] - at[k - 1] : SegmentText(t, ms, k)[i] = t[at[k - 1] + i]
            /\ SubSeq(t, 1, at[k]) = SubSeq(t, 1, at[k - 1]) \o SegmentText(t, ms, k)
<1> DEFINE a == Cuts(t, ms)[k - 1]
           b == Cuts(t, ms)[k]
<1>1. a \in Nat /\ b \in Nat /\ b <= Len(t) /\ a < b /\ b <= a + Limit
  BY LastCutType
<1>2. SegmentText(t, ms, k) = SubSeq(t, a + 1, b)
  BY DEF SegmentText
<1> HIDE DEF a, b
<1>3. /\ SubSeq(t, a + 1, b) \in Seq(Characters) /\ Len(SubSeq(t, a + 1, b)) = b - a
      /\ \A i \in 1 .. b - a : SubSeq(t, a + 1, b)[i] = t[a + i]
  BY <1>1
<1>4. SubSeq(t, 1, b) = SubSeq(t, 1, a) \o SubSeq(t, a + 1, b)
  BY <1>1
<1>5. b - a \in 1 .. Limit
  BY <1>1, LimitType
<1> QED
  BY <1>2, <1>3, <1>4, <1>5 DEF a, b

(* The segments joined are the text: splitting loses and repeats no        *)
(* character (outbound.go:117-169).                                        *)
LEMMA SegmentsJoin ==
  ASSUME NEW t \in Seq(Characters), NEW ms \in Seq(Entities)
  PROVE  /\ SegmentTexts(t, ms, LastCut(t, ms)) \in Seq(Seq(Characters))
         /\ FlattenSeq(SegmentTexts(t, ms, LastCut(t, ms))) = t
<1> DEFINE L == LastCut(t, ms)
           at == Cuts(t, ms)
           C == Seq(Characters)
           F(j) == SegmentTexts(t, ms, j)
           G == {j \in 0 .. L : F(j) \in Seq(C) /\ FlattenSeq(F(j)) = SubSeq(t, 1, at[j])}
<1>1. L \in Nat /\ at[L] = Len(t)
  BY LastCutType
<1>2. at[0] = 0
  BY CutsRule
<1>3. 0 \in G
  <2>1. F(0) = <<>>
    BY DEF SegmentTexts
  <2>2. SubSeq(t, 1, at[0]) = <<>>
    BY <1>2, SubSeqEmpty
  <2>3. <<>> \in Seq(C)
    OBVIOUS
  <2> HIDE DEF F, C
  <2>4. F(0) \in Seq(C) /\ FlattenSeq(F(0)) = SubSeq(t, 1, at[0])
    BY <2>1, <2>2, <2>3, FlattenEmpty
  <2> HIDE DEF at, L
  <2> QED
    BY <1>1, <2>4
<1>4. ASSUME NEW j \in 1 .. L, j - 1 \in G PROVE j \in G
  <2> DEFINE x == SegmentText(t, ms, j)
             s == F(j - 1)
  <2>1. x \in C
    BY SegmentType
  <2>2. SubSeq(t, 1, at[j]) = SubSeq(t, 1, at[j - 1]) \o x
    BY SegmentType
  <2>3. s \in Seq(C) /\ FlattenSeq(s) = SubSeq(t, 1, at[j - 1])
    BY <1>4
  <2>4. F(j) = Append(s, x)
    <3>1. s = [k \in 1 .. j - 1 |-> SegmentText(t, ms, k)] /\ F(j) = [k \in 1 .. j |-> SegmentText(t, ms, k)]
      BY DEF SegmentTexts
    <3>2. Len(s) = j - 1 /\ DOMAIN s = 1 .. j - 1
      BY <1>1, <2>3, <3>1
    <3>3. /\ Append(s, x) \in Seq(C) /\ Len(Append(s, x)) = j
          /\ \A k \in 1 .. j - 1 : Append(s, x)[k] = s[k]
          /\ Append(s, x)[j] = x
      <4> HIDE DEF x, s, C
      <4>1. /\ Append(s, x) \in Seq(C) /\ Len(Append(s, x)) = Len(s) + 1
            /\ \A k \in 1 .. Len(s) : Append(s, x)[k] = s[k]
            /\ Append(s, x)[Len(s) + 1] = x
        BY <2>1, <2>3, AppendParts
      <4>2. (j - 1) + 1 = j
        BY <1>1
      <4> QED
        BY <3>2, <4>1, <4>2
    <3>4. \A k \in 1 .. j : SegmentText(t, ms, k) = Append(s, x)[k]
      <4>1. \A k \in 1 .. j : k \in 1 .. j - 1 \/ k = j
        BY <1>1
      <4> HIDE DEF s, F
      <4> QED
        BY <3>1, <3>3, <4>1
    <3> HIDE DEF s, F, x
    <3>5. Append(s, x) = [k \in 1 .. j |-> Append(s, x)[k]]
      <4> DEFINE q == Append(s, x)
      <4>1. q \in Seq(C) /\ Len(q) = j
        BY <3>3
      <4> HIDE DEF q
      <4>2. q = [k \in 1 .. j |-> q[k]]
        BY <4>1
      <4> QED
        BY <4>2 DEF q
    <3> QED
      BY <3>1, <3>4, <3>5
  <2> HIDE DEF x, s, F
  <2>5. Append(s, x) \in Seq(C)
    BY <2>1, <2>3
  <2>6. FlattenSeq(Append(s, x)) = FlattenSeq(s) \o x
    BY <2>1, <2>3, FlattenAppend
  <2>7. F(j) \in Seq(C) /\ FlattenSeq(F(j)) = SubSeq(t, 1, at[j])
    BY <2>2, <2>3, <2>4, <2>5, <2>6
  <2>8. j \in 0 .. L
    BY <1>1
  <2> HIDE DEF at, L, C
  <2> QED
    BY <2>7, <2>8
<1>5. L \in G
  <2>1. 0 .. L \subseteq G
    <3> HIDE DEF G, L
    <3> QED
      BY <1>1, <1>3, <1>4, UpInduction
  <2>2. L \in 0 .. L
    BY <1>1
  <2> QED
    BY <2>1, <2>2
<1>6. SubSeq(t, 1, at[L]) = t
  BY <1>1
<1>7. F(L) \in Seq(C) /\ FlattenSeq(F(L)) = SubSeq(t, 1, at[L])
  BY <1>5
<1> QED
  BY <1>6, <1>7

(* The lengths of the segments before one add up to its cut.               *)
LEMMA SegmentBases ==
  ASSUME NEW t \in Seq(Characters), NEW ms \in Seq(Entities),
         NEW ns \in Seq(Nat), Len(ns) = LastCut(t, ms),
         \A k \in 1 .. LastCut(t, ms) : ns[k] = Len(SegmentText(t, ms, k))
  PROVE  \A k \in 0 .. LastCut(t, ms) : Sums(ns)[k] = Cuts(t, ms)[k]
<1> DEFINE L == LastCut(t, ms)
           at == Cuts(t, ms)
           G == {k \in 0 .. L : Sums(ns)[k] = at[k]}
<1>1. L \in Nat /\ \A k \in 1 .. L : at[k - 1] \in Nat /\ at[k] \in Nat
  BY LastCutType
<1>2. at[0] = 0
  BY CutsRule
<1>3. \A k \in 1 .. L : ns[k] = at[k] - at[k - 1]
  BY SegmentType
<1>4. Len(ns) = L
  OBVIOUS
<1> HIDE DEF at, L
<1>5. Sums(ns)[0] = 0 /\ \A k \in 1 .. L : Sums(ns)[k] = Sums(ns)[k - 1] + ns[k]
  BY <1>4, SumsRule
<1>6. 0 \in G
  BY <1>1, <1>2, <1>5
<1>7. ASSUME NEW k \in 1 .. L, k - 1 \in G PROVE k \in G
  <2>1. Sums(ns)[k - 1] = at[k - 1]
    BY <1>7
  <2>2. Sums(ns)[k] = at[k]
    BY <1>1, <1>3, <1>5, <2>1
  <2> QED
    BY <1>1, <2>2
<1>8. 0 .. L \subseteq G
  <2> HIDE DEF G
  <2> QED
    BY <1>1, <1>6, <1>7, UpInduction
<1> QED
  BY <1>8 DEF L, at

(* An entity cut to a segment covers the letters of the segment that it    *)
(* covered.                                                                *)
Within(ms, start, end) == Only(ms, {m \in Entities : m.at + m.n > start /\ m.at < end})
Moved(m, start, end) ==
  [m EXCEPT !.at = Max({@, start}) - start, !.n = Min({m.at + @, end}) - Max({m.at, start})]

(* An entity that is moved into a segment.                                 *)
LEMMA MovedIs ==
  ASSUME NEW m \in Entities, NEW start, NEW end
  PROVE  Moved(m, start, end) = [type |-> m.type, at |-> Max({m.at, start}) - start,
                                 n |-> Min({m.at + m.n, end}) - Max({m.at, start})]
<1> DEFINE r == [m EXCEPT !.at = Max({m.at, start}) - start]
<1>1. Moved(m, start, end) = [r EXCEPT !.n = Min({m.at + r.n, end}) - Max({m.at, start})]
  BY DEF Moved
<1>2. r = [type |-> m.type, at |-> Max({m.at, start}) - start, n |-> m.n]
  BY EntityType
<1> QED
  BY <1>1, <1>2

(* The entities of a segment are those that reach into it, moved.          *)
LEMMA ClippedParts ==
  ASSUME NEW ms \in Seq(Entities), NEW start \in Nat, NEW end \in Nat, start < end
  PROVE  /\ Clipped(ms, start, end) \in Seq(Entities)
         /\ DOMAIN Clipped(ms, start, end) = DOMAIN Within(ms, start, end)
         /\ \A k \in DOMAIN Within(ms, start, end) :
              LET m == Within(ms, start, end)[k]
                  c == Clipped(ms, start, end)[k]
              IN /\ c = Moved(m, start, end) /\ m \in Entities
                 /\ c.type = m.type /\ c.at \in Nat /\ c.n \in Nat
                 /\ \A p \in Nat : p < end - start =>
                      (c.at <= p /\ p < c.at + c.n <=> m.at <= start + p /\ start + p < m.at + m.n)
<1> DEFINE in == Within(ms, start, end)
           S == {m \in Entities : m.at + m.n > start /\ m.at < end}
           cs == Clipped(ms, start, end)
<1>1. in \in Seq(Entities)
  BY OnlyType DEF Within
<1>2. \A k \in DOMAIN in : in[k] \in S
  <2>1. in = Only(ms, S)
    BY DEF Within
  <2> HIDE DEF in, S
  <2>2. \A k \in DOMAIN Only(ms, S) : \E j \in DOMAIN ms : Only(ms, S)[k] = ms[j] /\ ms[j] \in S
    BY OnlyElements
  <2> QED
    BY <2>1, <2>2
<1>3. cs = [k \in DOMAIN in |-> Moved(in[k], start, end)]
  BY DEF Clipped, Within, Moved
<1>4. \A k \in DOMAIN in : in[k] \in Entities /\ in[k].at + in[k].n > start /\ in[k].at < end
  BY <1>2
<1> HIDE DEF in, S, cs
<1>5. ASSUME NEW k \in DOMAIN in
      PROVE  /\ cs[k] = Moved(in[k], start, end) /\ cs[k] \in Entities /\ in[k] \in Entities
             /\ cs[k].type = in[k].type /\ cs[k].at \in Nat /\ cs[k].n \in Nat
             /\ \A p \in Nat : p < end - start =>
                  (cs[k].at <= p /\ p < cs[k].at + cs[k].n <=> in[k].at <= start + p /\ start + p < in[k].at + in[k].n)
  <2> DEFINE m == in[k]
             x == Max({m.at, start})
             y == Min({m.at + m.n, end})
  <2>1. /\ m \in Entities /\ m.at \in Nat /\ m.n \in Nat /\ m.type \in Named \cup Unnamed
        /\ m = [type |-> m.type, at |-> m.at, n |-> m.n] /\ m.at + m.n > start /\ m.at < end
    BY <1>4, EntityType
  <2>2. m.at + m.n \in Nat
    BY <2>1
  <2>3. x \in Nat /\ x >= m.at /\ x >= start /\ (x = m.at \/ x = start)
    BY <2>1, MaxOfTwo
  <2>4. y \in Nat /\ y <= m.at + m.n /\ y <= end /\ (y = m.at + m.n \/ y = end)
    BY <2>2, MaxOfTwo
  <2>5. cs[k] = Moved(m, start, end)
    BY <1>3
  <2>6. Moved(m, start, end) = [type |-> m.type, at |-> x - start, n |-> y - x]
    BY <2>1, MovedIs
  <2> HIDE DEF x, y, m
  <2>7. x - start \in Nat /\ y - x \in Nat
    BY <2>1, <2>2, <2>3, <2>4
  <2>8. cs[k] \in Entities
    BY <2>1, <2>5, <2>6, <2>7 DEF Entities
  <2>9. cs[k].type = m.type /\ cs[k].at = x - start /\ cs[k].n = y - x
    BY <2>5, <2>6
  <2>10. \A p \in Nat : p < end - start =>
           (x - start <= p /\ p < (x - start) + (y - x) <=> m.at <= start + p /\ start + p < m.at + m.n)
    BY <2>1, <2>2, <2>3, <2>4
  <2> QED
    BY <2>1, <2>5, <2>7, <2>8, <2>9, <2>10 DEF m
<1>6. DOMAIN cs = DOMAIN in
  BY <1>3
<1>7. cs \in Seq(Entities)
  <2>1. DOMAIN in = 1 .. Len(in) /\ Len(in) \in Nat
    BY <1>1
  <2>2. cs = [k \in 1 .. Len(in) |-> cs[k]] /\ \A k \in 1 .. Len(in) : cs[k] \in Entities
    BY <1>3, <1>5, <2>1
  <2> DEFINE E == Entities
  <2> HIDE DEF E
  <2>3. \A k \in 1 .. Len(in) : cs[k] \in E
    BY <2>2 DEF E
  <2>4. cs \in Seq(E)
    BY <2>1, <2>2, <2>3
  <2> QED
    BY <2>4 DEF E
<1> QED
  BY <1>5, <1>6, <1>7 DEF in, cs

(* A character of a segment is marked as it was in the text.               *)
LEMMA CoveredSegment ==
  ASSUME NEW t \in Seq(Characters), NEW ms \in Seq(Entities), NEW type \in Placed, ~Wide(t),
         NEW k \in 1 .. LastCut(t, ms)
  PROVE  LET a == Cuts(t, ms)[k - 1]
             b == Cuts(t, ms)[k]
             seg == SegmentText(t, ms, k)
         IN /\ \A i \in 1 .. b - a :
                 i \in Covered(seg, TgEntities(Clipped(ms, a, b)), {type}) <=> a + i \in Covered(t, ms, {type})
            /\ Covered(seg, TgEntities(Clipped(ms, a, b)), {type}) \subseteq 1 .. b - a
<1> DEFINE a == Cuts(t, ms)[k - 1]
           b == Cuts(t, ms)[k]
           seg == SegmentText(t, ms, k)
           cs == Clipped(ms, a, b)
           in == Within(ms, a, b)
<1>1. a \in Nat /\ b \in Nat /\ b <= Len(t) /\ a < b /\ Len(t) \in Nat
  BY LastCutType
<1>2. seg \in Seq(Characters) /\ Len(seg) = b - a /\ \A i \in 1 .. b - a : seg[i] = t[a + i]
  BY SegmentType
<1> HIDE DEF a, b, seg
<1>3. ~Wide(seg)
  <2>1. \A i \in 1 .. Len(t) : ~(t[i].w > 1)
    BY DEF Wide
  <2>2. \A i \in 1 .. b - a : a + i \in 1 .. Len(t)
    BY <1>1
  <2>3. \A i \in 1 .. b - a : ~(seg[i].w > 1)
    BY <1>2, <2>1, <2>2
  <2>4. DOMAIN seg = 1 .. b - a
    BY <1>1, <1>2
  <2> QED
    BY <2>3, <2>4 DEF Wide
<1>4. /\ cs \in Seq(Entities) /\ DOMAIN cs = DOMAIN in
      /\ \A j \in DOMAIN in :
           /\ cs[j].type = in[j].type
           /\ \A p \in Nat : p < b - a =>
                (cs[j].at <= p /\ p < cs[j].at + cs[j].n <=> in[j].at <= a + p /\ a + p < in[j].at + in[j].n)
  BY <1>1, ClippedParts
<1>5. Covered(seg, TgEntities(cs), {type}) = Covered(seg, cs, {type})
  BY <1>4, CoveredTg
<1> DEFINE S == {m \in Entities : m.at + m.n > a /\ m.at < b}
<1>6. /\ \A j \in DOMAIN in : \E h \in DOMAIN ms : in[j] = ms[h]
      /\ \A h \in DOMAIN ms : ms[h] \in S => \E j \in DOMAIN in : in[j] = ms[h]
  <2>1. in = Only(ms, S)
    BY DEF Within
  <2> HIDE DEF in, S
  <2>2. \A j \in DOMAIN Only(ms, S) : \E h \in DOMAIN ms : Only(ms, S)[j] = ms[h] /\ ms[h] \in S
    BY OnlyElements
  <2>3. \A h \in DOMAIN ms : ms[h] \in S => \E j \in DOMAIN Only(ms, S) : Only(ms, S)[j] = ms[h]
    BY OnlyElements
  <2> QED
    BY <2>1, <2>2, <2>3
<1>7. \A h \in DOMAIN ms : ms[h] \in Entities /\ ms[h].at \in Nat /\ ms[h].n \in Nat
  <2>1. \A h \in DOMAIN ms : ms[h] \in Entities
    OBVIOUS
  <2> QED
    BY <2>1, EntityType
<1> HIDE DEF cs, in
<1>8. ASSUME NEW i \in 1 .. b - a
      PROVE  i \in Covered(seg, cs, {type}) <=> a + i \in Covered(t, ms, {type})
  <2> DEFINE p == i - 1
  <2>1. /\ p \in Nat /\ p < b - a /\ i \in DOMAIN seg /\ a + i \in DOMAIN t
        /\ i \in 1 .. Len(seg) + 1 /\ a + i \in 1 .. Len(t) + 1 /\ (a + i) - 1 = a + p
    BY <1>1, <1>2
  <2>2. Before(seg, i) = p
    BY <1>2, <1>3, <2>1, BeforeOnes
  <2>3. Before(t, a + i) = a + p
    BY <2>1, BeforeOnes
  <2> HIDE DEF p
  <2>4. i \in Covered(seg, cs, {type}) <=>
          \E j \in DOMAIN cs : cs[j].type = type /\ cs[j].at <= p /\ p < cs[j].at + cs[j].n
    BY <2>1, <2>2 DEF Covered
  <2>5. a + i \in Covered(t, ms, {type}) <=>
          \E h \in DOMAIN ms : ms[h].type = type /\ ms[h].at <= a + p /\ a + p < ms[h].at + ms[h].n
    BY <2>1, <2>3 DEF Covered
  <2>6. ASSUME NEW j \in DOMAIN cs, cs[j].type = type, cs[j].at <= p, p < cs[j].at + cs[j].n
        PROVE  \E h \in DOMAIN ms : ms[h].type = type /\ ms[h].at <= a + p /\ a + p < ms[h].at + ms[h].n
    <3>1. j \in DOMAIN in /\ in[j].type = type /\ in[j].at <= a + p /\ a + p < in[j].at + in[j].n
      BY <1>4, <2>1, <2>6
    <3>2. PICK h \in DOMAIN ms : in[j] = ms[h]
      BY <1>6, <3>1
    <3> QED
      BY <3>1, <3>2
  <2>7. ASSUME NEW h \in DOMAIN ms, ms[h].type = type, ms[h].at <= a + p, a + p < ms[h].at + ms[h].n
        PROVE  \E j \in DOMAIN cs : cs[j].type = type /\ cs[j].at <= p /\ p < cs[j].at + cs[j].n
    <3>1. ms[h].at + ms[h].n > a /\ ms[h].at < b
      <4> DEFINE x == ms[h].at
                 y == ms[h].n
      <4>1. x \in Nat /\ y \in Nat
        BY <1>7, <2>7
      <4>2. x <= a + p /\ a + p < x + y
        BY <2>7
      <4>3. p \in Nat /\ p < b - a
        BY <2>1
      <4> HIDE DEF x, y
      <4>4. x + y > a /\ x < b
        BY <1>1, <4>1, <4>2, <4>3
      <4> QED
        BY <4>4 DEF x, y
    <3>2. ms[h] \in S
      BY <1>7, <3>1
    <3>3. PICK j \in DOMAIN in : in[j] = ms[h]
      BY <1>6, <3>2
    <3>4. j \in DOMAIN cs /\ cs[j].type = type /\ cs[j].at <= p /\ p < cs[j].at + cs[j].n
      BY <1>4, <2>1, <2>7, <3>3
    <3> QED
      BY <3>4
  <2> QED
    BY <2>4, <2>5, <2>6, <2>7
<1>9. Covered(seg, cs, {type}) \subseteq 1 .. b - a
  <2>1. DOMAIN seg = 1 .. b - a
    BY <1>1, <1>2
  <2> QED
    BY <2>1 DEF Covered
<1> QED
  BY <1>5, <1>8, <1>9 DEF a, b, seg, cs

(* Every letter is in one of the segments.                                 *)
LEMMA InASegment ==
  ASSUME NEW t \in Seq(Characters), NEW ms \in Seq(Entities), NEW i \in 1 .. Len(t)
  PROVE  \E k \in 1 .. LastCut(t, ms) : Cuts(t, ms)[k - 1] < i /\ i <= Cuts(t, ms)[k]
<1> DEFINE L == LastCut(t, ms)
           at == Cuts(t, ms)
           Found(j) == i <= at[j] => \E k \in 1 .. j : at[k - 1] < i /\ i <= at[k]
           G == {j \in 0 .. L : Found(j)}
<1>1. L \in Nat /\ at[L] = Len(t) /\ \A k \in 1 .. L : at[k - 1] \in Nat /\ at[k] \in Nat
  BY LastCutType
<1>2. at[0] = 0
  BY CutsRule
<1> HIDE DEF L, at
<1>3. 0 \in G
  BY <1>1, <1>2
<1>4. ASSUME NEW j \in 1 .. L, j - 1 \in G PROVE j \in G
  <2>1. CASE i <= at[j - 1]
    <3>1. PICK k \in 1 .. j - 1 : at[k - 1] < i /\ i <= at[k]
      BY <1>4, <2>1
    <3>2. k \in 1 .. j
      BY <1>1
    <3>3. Found(j)
      BY <3>1, <3>2
    <3> QED
      BY <1>1, <3>3
  <2>2. CASE ~(i <= at[j - 1])
    <3>1. at[j - 1] < i /\ j \in 1 .. j
      BY <1>1, <2>2
    <3>2. Found(j)
      BY <3>1
    <3> QED
      BY <1>1, <3>2
  <2> QED
    BY <2>1, <2>2
<1>5. L \in G
  <2>1. 0 .. L \subseteq G
    <3> HIDE DEF G
    <3> QED
      BY <1>1, <1>3, <1>4, UpInduction
  <2>2. L \in 0 .. L
    BY <1>1
  <2> QED
    BY <2>1, <2>2
<1> QED
  BY <1>1, <1>5 DEF L, at

(* The requests a text is sent in                                          *)
InOne(t, ms)  == <<[text |-> t, marks |-> TgEntities(ms)]>>
InParts(t, ms) ==
  [k \in 1 .. LastCut(t, ms) |->
     [text |-> SegmentText(t, ms, k), marks |-> TgEntities(Clipped(ms, Cuts(t, ms)[k - 1], Cuts(t, ms)[k]))]]
Bases(s)         == Sums([k \in DOMAIN s |-> Len(s[k].text)])
Marked(s, type) ==
  UNION {{Bases(s)[k - 1] + i : i \in Covered(s[k].text, s[k].marks, {type})} : k \in DOMAIN s}

(* So the segments together are marked as the text was.                    *)
LEMMA MarkedSplit ==
  ASSUME NEW t \in Seq(Characters), NEW ms \in Seq(Entities), NEW type \in Placed, ~Wide(t)
  PROVE  Marked(InParts(t, ms), type) = Covered(t, ms, {type})
<1> DEFINE L == LastCut(t, ms)
           s == InParts(t, ms)
           at == Cuts(t, ms)
           ns == [k \in DOMAIN s |-> Len(s[k].text)]
           In(k) == Covered(s[k].text, s[k].marks, {type})
           All == Covered(t, ms, {type})
<1>1. L \in Nat /\ at[L] = Len(t) /\ \A k \in 1 .. L : at[k - 1] \in Nat /\ at[k] \in Nat /\ at[k] <= Len(t)
  BY LastCutType
<1>2. /\ DOMAIN s = 1 .. L
      /\ \A k \in 1 .. L : s[k].text = SegmentText(t, ms, k)
                           /\ s[k].marks = TgEntities(Clipped(ms, at[k - 1], at[k]))
  BY DEF InParts
<1>3. \A k \in 0 .. L : Bases(s)[k] = at[k]
  <2> HIDE DEF s
  <2>1. \A k \in 1 .. L : Len(s[k].text) \in Nat
    <3> TAKE k \in 1 .. L
    <3>1. SegmentText(t, ms, k) \in Seq(Characters)
      BY SegmentType
    <3> QED
      BY <1>2, <3>1
  <2>2. ns = [k \in 1 .. L |-> Len(s[k].text)]
    BY <1>2
  <2> HIDE DEF ns, L
  <2>3. ns \in Seq(Nat) /\ Len(ns) = L /\ \A k \in 1 .. L : ns[k] = Len(SegmentText(t, ms, k))
    <3>1. ns \in Seq(Nat)
      BY <1>1, <2>1, <2>2
    <3>2. Len(ns) = L
      BY <1>1, <2>2
    <3> QED
      BY <1>2, <2>2, <3>1, <3>2
  <2>4. Bases(s) = Sums(ns)
    BY DEF Bases, ns
  <2>5. \A k \in 0 .. LastCut(t, ms) : Sums(ns)[k] = Cuts(t, ms)[k]
    BY <2>3, SegmentBases DEF L
  <2> QED
    BY <2>4, <2>5 DEF L
<1>4. \A k \in 1 .. L : In(k) \subseteq 1 .. at[k] - at[k - 1]
  <2> TAKE k \in 1 .. L
  <2>1. Covered(SegmentText(t, ms, k), TgEntities(Clipped(ms, at[k - 1], at[k])), {type}) \subseteq 1 .. at[k] - at[k - 1]
    BY CoveredSegment
  <2> QED
    BY <1>2, <2>1
<1>5. \A k \in 1 .. L : \A i \in 1 .. at[k] - at[k - 1] : i \in In(k) <=> at[k - 1] + i \in All
  <2> TAKE k \in 1 .. L
  <2>1. \A i \in 1 .. at[k] - at[k - 1] :
          i \in Covered(SegmentText(t, ms, k), TgEntities(Clipped(ms, at[k - 1], at[k])), {type}) <=> at[k - 1] + i \in All
    BY CoveredSegment
  <2> QED
    BY <1>2, <2>1
<1>6. \A i \in All : i \in 1 .. Len(t)
  BY DEF Covered
<1>7. \A i \in 1 .. Len(t) : \E k \in 1 .. L : at[k - 1] < i /\ i <= at[k]
  BY InASegment
<1>8. Marked(s, type) = UNION {{Bases(s)[k - 1] + i : i \in In(k)} : k \in 1 .. L}
  BY <1>2 DEF Marked
<1> HIDE DEF s, L, In, All, at
<1>9. \A k \in 1 .. L : Bases(s)[k - 1] = at[k - 1]
  <2>1. \A k \in 1 .. L : k - 1 \in 0 .. L
    BY <1>1
  <2> QED
    BY <1>3, <2>1
<1>10. ASSUME NEW n \in Marked(s, type) PROVE n \in All
  <2>1. PICK k \in 1 .. L : n \in {Bases(s)[k - 1] + i : i \in In(k)}
    BY <1>8
  <2>2. PICK i \in In(k) : n = at[k - 1] + i
    BY <1>9, <2>1
  <2>3. i \in 1 .. at[k] - at[k - 1]
    BY <1>4
  <2> QED
    BY <1>5, <2>2, <2>3
<1>11. ASSUME NEW n \in All PROVE n \in Marked(s, type)
  <2>1. n \in 1 .. Len(t)
    BY <1>6
  <2>2. PICK k \in 1 .. L : at[k - 1] < n /\ n <= at[k]
    BY <1>7, <2>1
  <2>3. n - at[k - 1] \in 1 .. at[k] - at[k - 1] /\ at[k - 1] + (n - at[k - 1]) = n
    BY <1>1, <2>1, <2>2
  <2>4. n - at[k - 1] \in In(k)
    BY <1>5, <2>3
  <2>5. n \in {Bases(s)[k - 1] + i : i \in In(k)}
    BY <1>9, <2>3, <2>4
  <2> QED
    BY <1>8, <2>5
<1> QED
  BY <1>10, <1>11 DEF s, All

(* Four sequences, one after the other.                                    *)
LEMMA ConcatFour ==
  ASSUME NEW A, NEW x \in Seq(A), NEW v \in Seq(A), NEW n \in Seq(A), NEW t \in Seq(A)
  PROVE  (x \o v) \o n \o t = x \o (v \o n \o t) /\ v \o n \o t \in Seq(A)
<1>1. (x \o v) \o n = x \o (v \o n) /\ v \o n \in Seq(A)
  BY ConcatAssociative
<1> DEFINE w == v \o n
<1>2. w \in Seq(A)
  BY <1>1
<1> HIDE DEF w
<1>3. (x \o w) \o t = x \o (w \o t) /\ w \o t \in Seq(A)
  BY <1>2, ConcatAssociative
<1> QED
  BY <1>1, <1>3 DEF w

(* The joined texts begin with the first of them.                          *)
LEMMA JoinBegins ==
  ASSUME NEW ts \in Seq(Seq(Characters)), ts # <<>>
  PROVE  \E v \in Seq(Characters) : Joined(ts) = ts[1] \o v
<1> DEFINE C == Seq(Characters)
           Begins(s) == \E v \in C : Joined(s) = s[1] \o v
           G == {s \in Seq(C) : s # <<>> => Begins(s)}
<1>1. JoinGrows
  BY JoinedRules
<1>2. <<>> \in G
  OBVIOUS
<1>3. ASSUME NEW s \in Seq(C), NEW t \in C, s \in G PROVE Append(s, t) \in G
  <2> DEFINE q == Append(s, t)
  <2>1. Joined(s) \in C /\ q \in Seq(C)
    BY <1>1 DEF JoinGrows
  <2>2. CASE s = <<>>
    <3>1. q[1] = t /\ Joined(s) = <<>> /\ t \o <<>> = t /\ <<>> \in C /\ <<>> \o <<>> = <<>>
      BY <1>1, <2>2 DEF JoinGrows
    <3>2. t = <<>> \/ t # <<>>
      OBVIOUS
    <3>3. Joined(q) = t
      BY <1>1, <3>1, <3>2 DEF JoinGrows
    <3>4. Begins(q)
      <4> HIDE DEF q
      <4> QED
        BY <3>1, <3>3
    <3> QED
      BY <2>1, <3>4
  <2>3. CASE s # <<>>
    <3>1. q[1] = s[1] /\ s[1] \in C
      BY <2>3
    <3>2. PICK v \in C : Joined(s) = s[1] \o v
      BY <1>3, <2>3
    <3> DEFINE j == Joined(s)
               x == s[1]
    <3>3. j \in C /\ x \in C /\ j = x \o v
      BY <2>1, <3>1, <3>2
    <3>4. \/ Joined(q) = j
          \/ j = <<>> /\ Joined(q) = t
          \/ Joined(q) = j \o <<Newline>> \o t
      BY <1>1 DEF JoinGrows
    <3>5. q[1] = x
      BY <3>1
    <3>6. Begins(q)
      <4> HIDE DEF q, j, x
      <4>1. CASE Joined(q) = j
        BY <3>3, <3>5, <4>1
      <4>2. CASE j = <<>> /\ Joined(q) = t
        <5>1. x = <<>>
          <6>1. Len(x \o v) = Len(x) + Len(v) /\ Len(x) \in Nat /\ Len(v) \in Nat
            BY <3>3
          <6>2. Len(x \o v) = 0
            BY <3>3, <4>2
          <6>3. Len(x) = 0
            BY <6>1, <6>2
          <6> QED
            BY <3>3, <6>3
        <5>2. t = x \o t
          BY <5>1
        <5> QED
          BY <3>5, <4>2, <5>2
      <4>3. CASE Joined(q) = j \o <<Newline>> \o t
        <5>1. <<Newline>> \in C
          BY CopyTextAssumption DEF Newline, Characters
        <5>2. j \o <<Newline>> \o t = x \o (v \o <<Newline>> \o t) /\ v \o <<Newline>> \o t \in C
          <6> DEFINE n == <<Newline>>
          <6>1. n \in C /\ x \in C /\ v \in C /\ t \in C /\ j = x \o v
            BY <3>3, <5>1
          <6> HIDE DEF n, x, j
          <6>2. (x \o v) \o n \o t = x \o (v \o n \o t) /\ v \o n \o t \in C
            BY <6>1, ConcatFour
          <6> QED
            BY <6>1, <6>2 DEF n
        <5> QED
          BY <3>5, <4>3, <5>2
      <4> QED
        BY <3>4, <4>1, <4>2, <4>3
    <3> QED
      BY <2>1, <3>6
  <2> QED
    BY <2>2, <2>3
<1>4. ts \in G
  <2> HIDE DEF G, C
  <2> QED
    BY <1>2, <1>3, SeqInduction DEF C
<1> QED
  BY <1>4

(* The marks of the first message lie in its text.                         *)
LEMMA MessageMarks ==
  ASSUME NEW p \in Posts
  PROVE  /\ p[1].text \in Seq(Characters) /\ p[1].marks \in Seq(Entities)
         /\ \A k \in DOMAIN p[1].marks :
              p[1].marks[k].at + p[1].marks[k].n <= Before(p[1].text, Len(p[1].text) + 1)
<1>1. p \in Seq(Messages) /\ p # <<>>
  BY PostType
<1>2. p[1] \in Messages
  BY <1>1
<1> QED
  BY <1>2 DEF Messages

(* A text that says what was posted, and then perhaps more, with the marks *)
(* of the post                                                             *)
TextsOf(p) == [k \in DOMAIN p |-> p[k].text]
AsPosted(t, ms, p) ==
  ms = ConvertEntities(p[1].marks) /\ \E u \in Seq(Characters) : t = Joined(TextsOf(p)) \o u

(* A text made of a post is marked as the first message was.               *)
LEMMA AsPostedMarks ==
  ASSUME NEW p \in Posts, NEW t, NEW ms, AsPosted(t, ms, p)
  PROVE  /\ t \in Seq(Characters) /\ ms \in Seq(Entities)
         /\ \A type \in Placed : Covered(t, ms, {type}) = Covered(p[1].text, p[1].marks, {type})
<1> DEFINE ts == TextsOf(p)
           x == p[1].text
           pm == p[1].marks
           C == Seq(Characters)
<1>1. ts \in Seq(C) /\ ts # <<>> /\ ts[1] = x
  <2>1. p \in Seq(Messages) /\ p # <<>> /\ ts \in Seq(C)
    BY PostType DEF TextsOf
  <2>2. DOMAIN ts = DOMAIN p /\ 1 \in DOMAIN p
    BY <2>1 DEF TextsOf
  <2>3. ts[1] = x
    BY <2>2 DEF TextsOf
  <2>4. ts # <<>>
    BY <2>2
  <2> QED
    BY <2>1, <2>3, <2>4
<1>2. x \in C /\ pm \in Seq(Entities)
      /\ \A k \in DOMAIN pm : pm[k].at + pm[k].n <= Before(x, Len(x) + 1)
  BY MessageMarks
<1> HIDE DEF ts, x, pm
<1>3. PICK v \in C : Joined(ts) = ts[1] \o v
  BY <1>1, JoinBegins
<1>4. PICK u \in C : t = Joined(ts) \o u
  BY DEF AsPosted, ts
<1>5. t = x \o (v \o u) /\ v \o u \in C
  <2>1. t = (x \o v) \o u
    BY <1>1, <1>3, <1>4
  <2>2. (x \o v) \o u = x \o (v \o u)
    BY <1>2, ConcatAssociative
  <2>3. v \o u \in C
    BY <1>2
  <2> QED
    BY <2>1, <2>2, <2>3
<1>6. ms = ConvertEntities(pm)
  BY DEF AsPosted, pm
<1>7. t \in C /\ ms \in Seq(Entities)
  <2>1. t \in C
    BY <1>2, <1>5
  <2> QED
    BY <1>2, <1>6, <2>1, ConvertedType
<1>8. ASSUME NEW type \in Placed PROVE Covered(t, ms, {type}) = Covered(x, pm, {type})
  <2>1. Covered(t, pm, {type}) = Covered(x, pm, {type})
    <3> DEFINE w == v \o u
    <3>1. w \in C /\ t = x \o w
      BY <1>5
    <3> HIDE DEF w
    <3>2. Covered(x \o w, pm, {type}) = Covered(x, pm, {type})
      BY <1>2, <3>1, CoveredPrefix
    <3> QED
      BY <3>1, <3>2
  <2>2. Covered(t, ms, {type}) = Covered(t, pm, {type})
    BY <1>2, <1>6, CoveredConverted
  <2> QED
    BY <2>1, <2>2
<1> QED
  BY <1>7, <1>8 DEF x, pm

(* The text and the marks of a copy on its way                             *)
CopyMade ==
  /\ copyStage \in {"accepted", "composed", "copied"} => AsPosted(text, marks, post)
  /\ copyStage \in {"rewritten", "copied_ai"} => text \in Seq(Characters) /\ marks = <<>>
  /\ copyStage \in {"copied", "copied_ai"} =>
       segments = InOne(text, marks) \/ (Len(text) > Limit /\ segments = InParts(text, marks))

(* A footer goes to the end of the text.                                   *)
LEMMA FootedType ==
  ASSUME NEW r \in Rules, NEW showDefault \in BOOLEAN
  PROVE  \A t \in Seq(Characters) : \E u \in Seq(Characters) :
           Footed(t, ChooseFooter(r, showDefault)) = t \o u
<1>1. r.footer \in Seq(Characters)
  BY CopyTextAssumption DEF RuleTexts
<1>2. Newline \in Characters /\ [c |-> "link", w |-> 1] \in Characters
  BY CopyTextAssumption DEF Characters, Newline
<1> DEFINE f == ChooseFooter(r, showDefault)
<1>3. f \in Seq(Characters)
  BY <1>1, <1>2 DEF ChooseFooter
<1> HIDE DEF f
<1> SUFFICES ASSUME NEW t \in Seq(Characters) PROVE \E u \in Seq(Characters) : Footed(t, f) = t \o u
  BY DEF f
<1>4. CASE f = <<>>
  <2>1. Footed(t, f) = t /\ t \o <<>> = t /\ <<>> \in Seq(Characters)
    BY <1>4 DEF Footed
  <2> QED
    BY <2>1
<1>5. CASE f # <<>>
  <2>1. Footed(t, f) = t \o <<Newline, Newline>> \o f
    BY <1>5 DEF Footed
  <2>2. <<Newline, Newline>> \in Seq(Characters)
    BY <1>2
  <2>3. <<Newline, Newline>> \o f \in Seq(Characters) /\ t \o <<Newline, Newline>> \o f = t \o (<<Newline, Newline>> \o f)
    BY <1>3, <2>2
  <2> QED
    BY <2>1, <2>3
<1> QED
  BY <1>4, <1>5

(* Composing keeps the marks of the post, or is the rewritten text without *)
(* marks.                                                                  *)
LEMMA ComposeMakes ==
  ASSUME NEW p \in Posts, NEW r \in Rules, NEW showDefault \in BOOLEAN, NEW t, NEW ms, AsPosted(t, ms, p)
  PROVE  /\ AsPosted(Footed(t, ChooseFooter(r, showDefault)), ms, p)
         /\ Footed(Rewritten, ChooseFooter(r, showDefault)) \in Seq(Characters)
<1> DEFINE f == ChooseFooter(r, showDefault)
           j == Joined(TextsOf(p))
<1>1. t \in Seq(Characters) /\ Rewritten \in Seq(Characters)
  BY AsPostedMarks, CopyTextAssumption
<1>2. j \in Seq(Characters)
  BY PostType, JoinedRules DEF JoinGrows, TextsOf
<1>3. \A s \in Seq(Characters) : \E u \in Seq(Characters) : Footed(s, f) = s \o u
  BY FootedType
<1> HIDE DEF f, j
<1>4. PICK u \in Seq(Characters) : t = j \o u
  BY DEF AsPosted, j
<1>5. PICK v \in Seq(Characters) : Footed(t, f) = t \o v
  BY <1>1, <1>3
<1>6. PICK w \in Seq(Characters) : Footed(Rewritten, f) = Rewritten \o w
  BY <1>1, <1>3
<1>7. Footed(t, f) = j \o (u \o v) /\ u \o v \in Seq(Characters)
  BY <1>2, <1>4, <1>5
<1>8. Footed(Rewritten, f) \in Seq(Characters)
  BY <1>1, <1>6
<1> QED
  BY <1>7, <1>8 DEF AsPosted, f, j

(* Sending makes one message, or one per segment.                          *)
LEMMA SendMakes ==
  ASSUME NEW t, NEW ms, NEW split \in BOOLEAN
  PROVE  LET whole == <<[text |-> t, marks |-> ms]>>
             pieces == IF ~split THEN whole ELSE SplitLongText(t, ms)
             made == [k \in DOMAIN pieces |-> [pieces[k] EXCEPT !.marks = TgEntities(@)]]
         IN made = InOne(t, ms) \/ (~(Len(t) <= Limit) /\ made = InParts(t, ms))
<1> DEFINE whole == <<[text |-> t, marks |-> ms]>>
           parted == [k \in 1 .. LastCut(t, ms) |->
                        [text |-> SegmentText(t, ms, k), marks |-> Clipped(ms, Cuts(t, ms)[k - 1], Cuts(t, ms)[k])]]
           pieces == IF ~split THEN whole ELSE SplitLongText(t, ms)
           made(s) == [k \in DOMAIN s |-> [s[k] EXCEPT !.marks = TgEntities(@)]]
<1>1. SplitLongText(t, ms) = IF Len(t) <= Limit THEN whole ELSE parted
  BY DEF SplitLongText, SegmentText, LastCut
<1>2. made(whole) = InOne(t, ms)
  BY DEF InOne
<1>3. made(parted) = InParts(t, ms)
  <2>1. DOMAIN parted = 1 .. LastCut(t, ms)
    OBVIOUS
  <2>2. \A k \in 1 .. LastCut(t, ms) :
          [parted[k] EXCEPT !.marks = TgEntities(@)] =
            [text |-> SegmentText(t, ms, k), marks |-> TgEntities(Clipped(ms, Cuts(t, ms)[k - 1], Cuts(t, ms)[k]))]
    OBVIOUS
  <2> HIDE DEF parted
  <2> QED
    BY <2>1, <2>2 DEF InParts
<1>4. pieces = whole \/ (~(Len(t) <= Limit) /\ pieces = parted)
  BY <1>1
<1> HIDE DEF whole, parted, pieces, made
<1>5. made(pieces) = InOne(t, ms) \/ (~(Len(t) <= Limit) /\ made(pieces) = InParts(t, ms))
  BY <1>2, <1>3, <1>4
<1> QED
  BY <1>5 DEF made, pieces, whole

(* What a behaviour of the copy made of its post, stage by stage.          *)
LEMMA CopyKept == Spec => [](part = "copy" => CopyMade)
<1> DEFINE Kept == part = "copy" => CopyMade
<1>1. Init => Kept
  BY DEF Init, CopyInit, CopyMade
<1>2. CopyVerdict /\ Kept /\ [Next]_textVars => Kept'
  <2> SUFFICES ASSUME CopyVerdict, Kept, [Next]_textVars, part' = "copy" PROVE CopyMade'
    OBVIOUS
  <2>1. part = "copy" /\ (Convert \/ Judge \/ Compose \/ Send \/ UNCHANGED copyVars)
    BY DEF Next, CopyNext, textVars
  <2>2. post \in Posts /\ rule \in Rules /\ (copyStage # "posted" => taken = Taken(post)) /\ CopyMade
    BY <2>1 DEF CopyVerdict
  <2>3. CASE Convert
    BY <2>3 DEF Convert, CopyMade
  <2>4. CASE Judge
    <3>1. CASE copyStage' = "rejected"
      BY <3>1 DEF CopyMade
    <3>2. CASE copyStage' # "rejected"
      <4>1. /\ copyStage = "converted" /\ copyStage' = "accepted" /\ post' = post
            /\ text' = BuildFilterView(taken).text /\ marks' = Head(taken).marks
        BY <2>4, <3>2 DEF Judge
      <4>2. taken = Taken(post)
        BY <2>2, <4>1
      <4>3. text' = Joined(TextsOf(post))
        BY <2>2, <4>1, <4>2, ViewOf DEF TextsOf
      <4>4. marks' = ConvertEntities(post[1].marks)
        <5>1. post \in Seq(Messages) /\ post # <<>>
          BY <2>2, PostType
        <5>2. 1 \in DOMAIN post /\ Taken(post)[1] = ConvertMessage(post[1])
          BY <5>1 DEF Taken
        <5>3. Head(Taken(post)) = Taken(post)[1]
          OBVIOUS
        <5> QED
          BY <4>1, <4>2, <5>2, <5>3 DEF ConvertMessage
      <4>5. AsPosted(text', marks', post')
        <5>1. Joined(TextsOf(post)) \in Seq(Characters)
          BY <2>2, PostType, JoinedRules DEF JoinGrows, TextsOf
        <5> DEFINE j == Joined(TextsOf(post))
        <5> HIDE DEF j
        <5>2. j \in Seq(Characters)
          BY <5>1 DEF j
        <5>3. j = j \o <<>> /\ <<>> \in Seq(Characters)
          BY <5>2
        <5>4. \E u \in Seq(Characters) : Joined(TextsOf(post)) = Joined(TextsOf(post)) \o u
          BY <5>3 DEF j
        <5> QED
          BY <4>1, <4>3, <4>4, <5>4 DEF AsPosted
      <4> QED
        BY <4>1, <4>5 DEF CopyMade
    <3> QED
      BY <3>1, <3>2
  <2>5. CASE Compose
    <3>1. copyStage = "accepted" /\ post' = post
      BY <2>5 DEF Compose
    <3>2. PICK answered \in {FALSE, rule.ai}, showDefault \in BOOLEAN :
            /\ text' = Footed(Rewrite(marks, text, answered)[1], ChooseFooter(rule, showDefault))
            /\ marks' = Rewrite(marks, text, answered)[2]
            /\ copyStage' = IF answered THEN "rewritten" ELSE "composed"
      BY <2>5 DEF Compose
    <3>3. AsPosted(text, marks, post)
      BY <2>2, <3>1 DEF CopyMade
    <3>4. /\ AsPosted(Footed(text, ChooseFooter(rule, showDefault)), marks, post)
          /\ Footed(Rewritten, ChooseFooter(rule, showDefault)) \in Seq(Characters)
      BY <2>2, <3>3, ComposeMakes
    <3>5. CASE answered
      <4>1. Rewrite(marks, text, answered) = <<Rewritten, <<>>>>
        BY <3>5 DEF Rewrite
      <4>2. text' = Footed(Rewritten, ChooseFooter(rule, showDefault)) /\ marks' = <<>> /\ copyStage' = "rewritten"
        <5>1. <<Rewritten, <<>>>>[1] = Rewritten /\ <<Rewritten, <<>>>>[2] = <<>>
          OBVIOUS
        <5>2. copyStage' = "rewritten"
          BY <3>2, <3>5
        <5>3. text' = Footed(<<Rewritten, <<>>>>[1], ChooseFooter(rule, showDefault)) /\ marks' = <<Rewritten, <<>>>>[2]
          BY <3>2, <4>1, Zenon
        <5> QED
          BY <5>1, <5>2, <5>3
      <4> QED
        BY <3>4, <4>2 DEF CopyMade
    <3>6. CASE ~answered
      <4>1. Rewrite(marks, text, answered) = <<text, marks>>
        BY <3>6 DEF Rewrite
      <4>2. text' = Footed(text, ChooseFooter(rule, showDefault)) /\ marks' = marks /\ copyStage' = "composed"
        BY <3>2, <3>6, <4>1
      <4>3. AsPosted(text', marks', post')
        BY <3>1, <3>4, <4>2
      <4> QED
        BY <4>2, <4>3 DEF CopyMade
    <3> QED
      BY <3>5, <3>6
  <2>6. CASE Send
    <3> DEFINE split == BuildFilterView(taken).media = {}
    <3>1. /\ copyStage \in {"composed", "rewritten"}
          /\ copyStage' = IF copyStage = "composed" THEN "copied" ELSE "copied_ai"
          /\ text' = text /\ marks' = marks /\ post' = post
      BY <2>6 DEF Send
    <3>2. segments' = LET whole == <<[text |-> text, marks |-> marks]>>
                          pieces == IF ~split THEN whole ELSE SplitLongText(text, marks)
                      IN [k \in DOMAIN pieces |-> [pieces[k] EXCEPT !.marks = TgEntities(@)]]
      BY <2>6 DEF Send
    <3>3. split \in BOOLEAN
      OBVIOUS
    <3> HIDE DEF split
    <3>4. segments' = InOne(text, marks) \/ (~(Len(text) <= Limit) /\ segments' = InParts(text, marks))
      BY <3>2, <3>3, SendMakes
    <3>5. text \in Seq(Characters)
      <4>1. CASE copyStage = "composed"
        BY <2>2, <4>1, AsPostedMarks DEF CopyMade
      <4>2. CASE copyStage = "rewritten"
        BY <2>2, <4>2 DEF CopyMade
      <4> QED
        BY <3>1, <4>1, <4>2
    <3>6. segments' = InOne(text, marks) \/ (Len(text) > Limit /\ segments' = InParts(text, marks))
      <4>1. Len(text) \in Nat
        BY <3>5
      <4>2. ~(Len(text) <= Limit) => Len(text) > Limit
        BY <4>1, LimitType
      <4> QED
        BY <3>4, <4>2
    <3>7. /\ copyStage' = "copied" => AsPosted(text', marks', post')
          /\ copyStage' = "copied_ai" => text' \in Seq(Characters) /\ marks' = <<>>
      BY <2>2, <3>1 DEF CopyMade
    <3>8. copyStage' \in {"copied", "copied_ai"}
      BY <3>1
    <3> QED
      BY <3>1, <3>6, <3>7, <3>8 DEF CopyMade
  <2>7. CASE UNCHANGED copyVars
    BY <2>2, <2>7 DEF CopyMade, copyVars
  <2> QED
    BY <2>1, <2>3, <2>4, <2>5, <2>6, <2>7
<1> HIDE DEF Kept
<1>3. Spec => []Kept
  BY <1>1, <1>2, VerdictKept, PTL DEF Spec
<1> QED
  BY <1>3 DEF Kept

(* One message has the text and its marks.                                 *)
LEMMA WholeMarked ==
  ASSUME NEW t \in Seq(Characters), NEW ms \in Seq(Entities)
  PROVE  /\ FlattenSeq([k \in DOMAIN InOne(t, ms) |-> InOne(t, ms)[k].text]) = t /\ Len(InOne(t, ms)) = 1
         /\ \A type \in Placed : Marked(InOne(t, ms), type) = Covered(t, ms, {type})
<1> DEFINE s == InOne(t, ms)
           ns == [k \in DOMAIN s |-> Len(s[k].text)]
<1>1. Len(s) = 1 /\ DOMAIN s = {1} /\ s[1] = [text |-> t, marks |-> TgEntities(ms)]
  BY DEF InOne
<1>2. [k \in DOMAIN s |-> s[k].text] = <<t>>
  BY DEF InOne
<1> HIDE DEF s
<1>3. FlattenSeq(<<t>>) = t
  BY FlattenOne
<1>4. ASSUME NEW type \in Placed PROVE Marked(s, type) = Covered(t, ms, {type})
  <2>1. ns = <<Len(t)>> /\ Len(t) \in Nat
    BY <1>1
  <2>2. ns \in Seq(Nat)
    BY <2>1
  <2>3. Sums(ns)[0] = 0
    <3> HIDE DEF ns
    <3> QED
      BY <2>2, SumsRule
  <2>4. Bases(s)[1 - 1] = 0
    BY <2>3 DEF Bases
  <2>5. Covered(t, TgEntities(ms), {type}) = Covered(t, ms, {type})
    BY CoveredTg
  <2>6. s[1].text = t /\ s[1].marks = TgEntities(ms)
    BY <1>1
  <2> DEFINE C == Covered(t, ms, {type})
  <2>7. Marked(s, type) = UNION {{Bases(s)[k - 1] + i : i \in Covered(s[k].text, s[k].marks, {type})} : k \in {1}}
    BY <1>1 DEF Marked
  <2>8. Covered(s[1].text, s[1].marks, {type}) = C
    BY <2>5, <2>6
  <2>9. \A i \in C : i \in Nat
    BY DEF Covered
  <2> HIDE DEF C
  <2>10. \A x : x \in Marked(s, type) <=> \E i \in C : x = Bases(s)[1 - 1] + i
    BY <2>7, <2>8
  <2>11. \A x : x \in Marked(s, type) <=> x \in C
    BY <2>4, <2>9, <2>10
  <2> QED
    BY <2>11 DEF C
<1> QED
  BY <1>1, <1>2, <1>3, <1>4 DEF s

(* Several messages have the text, each a part of it that is not empty and *)
(* within the limit.                                                       *)
LEMMA SplitJoined ==
  ASSUME NEW t \in Seq(Characters), NEW ms \in Seq(Entities), Len(t) > Limit
  PROVE  /\ FlattenSeq([k \in DOMAIN InParts(t, ms) |-> InParts(t, ms)[k].text]) = t /\ Len(InParts(t, ms)) \in Nat \ {1}
         /\ \A k \in DOMAIN InParts(t, ms) : Len(InParts(t, ms)[k].text) \in 1 .. Limit
<1> DEFINE L == LastCut(t, ms)
           s == InParts(t, ms)
<1>1. L \in Nat /\ L > 1
  BY LastCutType
<1>2. DOMAIN s = 1 .. L /\ Len(s) = L /\ \A k \in 1 .. L : s[k].text = SegmentText(t, ms, k)
  <2>1. DOMAIN s = 1 .. L /\ \A k \in 1 .. L : s[k].text = SegmentText(t, ms, k)
    BY DEF InParts
  <2>2. Len(s) = L
    BY <1>1, <2>1
  <2> QED
    BY <2>1, <2>2
<1>3. \A k \in 1 .. L : Len(SegmentText(t, ms, k)) \in 1 .. Limit
  BY SegmentType
<1>4. FlattenSeq(SegmentTexts(t, ms, L)) = t
  BY SegmentsJoin
<1> HIDE DEF s, L
<1>5. [k \in DOMAIN s |-> s[k].text] = SegmentTexts(t, ms, L)
  BY <1>2 DEF SegmentTexts
<1>6. FlattenSeq([k \in DOMAIN s |-> s[k].text]) = t
  BY <1>4, <1>5
<1>7. Len(s) \in Nat \ {1}
  BY <1>1, <1>2
<1>8. \A k \in DOMAIN s : Len(s[k].text) \in 1 .. Limit
  BY <1>2, <1>3
<1> QED
  BY <1>6, <1>7, <1>8 DEF s

(* The copy has the text, and a mark stays on the characters it was on,    *)
(* also when the text is cut (outbound.go:117-169).  For all posts,        *)
(* rules and limits; where characters are wide and the text is cut, the    *)
(* property says less.                                                     *)
THEOREM MarksStayHolds == Spec => []MarksStay
<1>1. CopyVerdict /\ (part = "copy" => CopyMade) => MarksStay
  <2> SUFFICES ASSUME CopyVerdict, part = "copy" => CopyMade, copyStage \in {"copied", "copied_ai"}
               PROVE  /\ text = FlattenSeq([k \in DOMAIN segments |-> segments[k].text])
                      /\ Len(segments) > 1 => \A k \in DOMAIN segments : Len(segments[k].text) \in 1 .. Limit
                      /\ Len(segments) = 1 \/ ~Wide(text) =>
                           \A type \in Placed :
                             Marked(segments, type) =
                               IF copyStage = "copied_ai" THEN {} ELSE Covered(post[1].text, post[1].marks, {type})
    BY DEF MarksStay, Marked, Bases
  <2>1. part = "copy" /\ post \in Posts
    BY DEF CopyVerdict
  <2>2. /\ copyStage = "copied" => AsPosted(text, marks, post)
        /\ copyStage = "copied_ai" => text \in Seq(Characters) /\ marks = <<>>
        /\ segments = InOne(text, marks) \/ (Len(text) > Limit /\ segments = InParts(text, marks))
    BY <2>1 DEF CopyMade
  <2>3. /\ text \in Seq(Characters) /\ marks \in Seq(Entities)
        /\ \A type \in Placed :
             Covered(text, marks, {type}) =
               IF copyStage = "copied_ai" THEN {} ELSE Covered(post[1].text, post[1].marks, {type})
    <3>1. CASE copyStage = "copied"
      BY <2>1, <2>2, <3>1, AsPostedMarks
    <3>2. CASE copyStage = "copied_ai"
      <4>1. text \in Seq(Characters) /\ marks = <<>>
        BY <2>2, <3>2
      <4>2. \A type \in Placed : Covered(text, <<>>, {type}) = {}
        BY DEF Covered
      <4> QED
        BY <3>2, <4>1, <4>2
    <3> QED
      BY <3>1, <3>2
  <2>4. CASE segments = InOne(text, marks)
    <3>1. /\ FlattenSeq([k \in DOMAIN segments |-> segments[k].text]) = text /\ Len(segments) = 1
          /\ \A type \in Placed : Marked(segments, type) = Covered(text, marks, {type})
      BY <2>3, <2>4, WholeMarked
    <3> QED
      <4>1. ~(Len(segments) > 1)
        BY <3>1
      <4>2. \A type \in Placed :
              Marked(segments, type) =
                IF copyStage = "copied_ai" THEN {} ELSE Covered(post[1].text, post[1].marks, {type})
        BY <2>3, <3>1
      <4> QED
        BY <3>1, <4>1, <4>2
  <2>5. CASE Len(text) > Limit /\ segments = InParts(text, marks)
    <3>1. /\ FlattenSeq([k \in DOMAIN segments |-> segments[k].text]) = text /\ Len(segments) # 1
          /\ \A k \in DOMAIN segments : Len(segments[k].text) \in 1 .. Limit
      BY <2>3, <2>5, SplitJoined
    <3>2. ~(Len(segments) = 1)
      BY <3>1, SMT
    <3>3. ~Wide(text) => \A type \in Placed : Marked(segments, type) = Covered(text, marks, {type})
      BY <2>3, <2>5, MarkedSplit
    <3> QED
      BY <2>3, <3>1, <3>2, <3>3
  <2> QED
    BY <2>2, <2>4, <2>5
<1> QED
  BY <1>1, VerdictKept, CopyKept, PTL

-----------------------------------------------------------------------------
(* Parsing, splitting and packing of a rich text: the limits are kept, and *)
(* nothing is lost.                                                        *)

(* A function that is computed downwards, with jumps.                      *)
Jumps(f, M, T, e, next, op) ==
  f \in [1 .. M -> T] /\ f[M] = e /\ \A i \in 1 .. M - 1 : f[i] = op[i][f[next[i]]]

(* A recursion that jumps upwards, and is evaluated from the end, defines  *)
(* a function.                                                             *)
LEMMA DownRecursion ==
  ASSUME NEW T, NEW e \in T, NEW M \in Nat \ {0}, NEW next \in [1 .. M - 1 -> 1 .. M],
         \A i \in 1 .. M - 1 : next[i] > i, NEW op \in [1 .. M - 1 -> [T -> T]]
  PROVE  \E f : Jumps(f, M, T, e, next, op)
<1> DEFINE Good(k, f) == f[M] = e /\ \A i \in M - k .. M - 1 : f[i] = op[i][f[next[i]]]
           Some == {k \in 0 .. M - 1 : \E f \in [1 .. M -> T] : Good(k, f)}
<1>1. 0 \in Some
  <2> DEFINE g == [i \in 1 .. M |-> e]
  <2>1. g \in [1 .. M -> T] /\ 0 \in 0 .. M - 1
    OBVIOUS
  <2>2. Good(0, g)
    <3>1. g[M] = e
      OBVIOUS
    <3>2. M - 0 .. M - 1 = {}
      OBVIOUS
    <3> QED
      BY <3>1, <3>2
  <2> HIDE DEF g, Good
  <2> QED
    BY <2>1, <2>2
<1>2. ASSUME NEW k \in 1 .. M - 1, k - 1 \in Some PROVE k \in Some
  <2>1. PICK f \in [1 .. M -> T] : Good(k - 1, f)
    BY <1>2
  <2> DEFINE d == M - k
             g == [i \in 1 .. M |-> IF i = d THEN op[d][f[next[d]]] ELSE f[i]]
  <2>2. d \in 1 .. M - 1 /\ next[d] \in 1 .. M /\ next[d] > d
    <3>1. d \in 1 .. M - 1
      OBVIOUS
    <3> HIDE DEF d
    <3> QED
      BY <3>1
  <2>3. g \in [1 .. M -> T]
    <3>1. op[d] \in [T -> T] /\ f[next[d]] \in T
      BY <2>2
    <3> HIDE DEF d
    <3> QED
      BY <3>1
  <2>4. g[M] = e
    <3>1. M \in 1 .. M /\ M # d
      BY <2>2
    <3> QED
      BY <2>1, <3>1
  <2>5. ASSUME NEW i \in M - k .. M - 1 PROVE g[i] = op[i][g[next[i]]]
    <3>1. i \in 1 .. M - 1 /\ i >= d /\ i \in 1 .. M
      OBVIOUS
    <3>2. next[i] \in 1 .. M /\ next[i] > i
      BY <3>1
    <3>3. next[i] # d
      BY <2>2, <3>1, <3>2
    <3> HIDE DEF d
    <3>4. g[next[i]] = f[next[i]]
      BY <3>2, <3>3
    <3>5. CASE i = d
      BY <3>1, <3>4, <3>5
    <3>6. CASE i # d
      <4>1. i \in M - (k - 1) .. M - 1
        BY <3>1, <3>6 DEF d
      <4>2. f[i] = op[i][f[next[i]]]
        BY <2>1, <4>1
      <4> QED
        BY <3>1, <3>4, <3>6, <4>2
    <3> QED
      BY <3>5, <3>6
  <2>6. Good(k, g)
    BY <2>4, <2>5
  <2> HIDE DEF g, Good
  <2> QED
    BY <2>3, <2>6
<1>3. M - 1 \in Some
  <2> DEFINE K == M - 1
  <2>1. K \in Nat
    OBVIOUS
  <2> HIDE DEF Some
  <2>2. \A k \in 1 .. K : k - 1 \in Some => k \in Some
    BY <1>2
  <2> HIDE DEF K
  <2>3. 0 .. K \subseteq Some
    BY <1>1, <2>1, <2>2, UpInduction
  <2>4. K \in Some
    BY <2>1, <2>3
  <2> QED
    BY <2>4 DEF K
<1>4. PICK f \in [1 .. M -> T] : Good(M - 1, f)
  BY <1>3
<1>5. M - (M - 1) = 1
  OBVIOUS
<1> QED
  BY <1>4, <1>5 DEF Jumps

(* A function that keeps the equations of such a recursion is the one.     *)
LEMMA JumpsByEquation ==
  ASSUME NEW T, NEW e \in T, NEW M \in Nat \ {0}, NEW next \in [1 .. M - 1 -> 1 .. M],
         \A i \in 1 .. M - 1 : next[i] > i, NEW op \in [1 .. M - 1 -> [T -> T]], NEW g,
         g = [i \in 1 .. M |-> g[i]], g[M] = e,
         \A i \in 1 .. M - 1 : g[next[i]] \in T => g[i] = op[i][g[next[i]]]
  PROVE  Jumps(g, M, T, e, next, op)
<1> DEFINE G == {i \in 0 .. M : i # 0 => g[i] \in T}
<1>1. M \in G
  OBVIOUS
<1>2. ASSUME NEW i \in 0 .. M - 1, \A j \in i + 1 .. M : j \in G PROVE i \in G
  <2>1. CASE i = 0
    BY <2>1
  <2>2. CASE i # 0
    <3>1. i \in 1 .. M - 1
      BY <2>2
    <3>2. next[i] \in 1 .. M /\ next[i] > i
      BY <3>1
    <3>3. next[i] \in i + 1 .. M
      BY <3>2
    <3>4. g[next[i]] \in T
      <4>1. next[i] \in G
        BY <1>2, <3>3
      <4>2. next[i] # 0
        BY <3>1, <3>2
      <4> QED
        BY <4>1, <4>2
    <3>5. op[i] \in [T -> T] /\ g[i] = op[i][g[next[i]]]
      BY <3>1, <3>4
    <3>6. g[i] \in T
      BY <3>4, <3>5
    <3> QED
      BY <3>6
  <2> QED
    BY <2>1, <2>2
<1>3. 0 .. M \subseteq G
  <2> HIDE DEF G
  <2> QED
    BY <1>1, <1>2, DownInduction
<1>4. \A i \in 1 .. M : g[i] \in T
  <2> TAKE i \in 1 .. M
  <2>1. i \in 0 .. M /\ i # 0
    OBVIOUS
  <2>2. i \in G
    BY <1>3, <2>1
  <2> QED
    BY <2>1, <2>2
<1>5. g \in [1 .. M -> T]
  BY <1>4
<1>6. \A i \in 1 .. M - 1 : g[i] = op[i][g[next[i]]]
  <2> TAKE i \in 1 .. M - 1
  <2>1. next[i] \in 1 .. M
    OBVIOUS
  <2> QED
    BY <1>4, <2>1
<1> QED
  BY <1>5, <1>6 DEF Jumps

(* EndOf                                                                   *)
LEMMA WithIn ==
  ASSUME NEW s \in Seq(LineTypes), NEW i \in 1 .. Len(s), NEW S \in SUBSET (i + 1 .. Len(s))
  PROVE  /\ With(s, S) \in i .. Len(s) /\ Without(s, S) \in i .. Len(s)
         /\ S # {} => With(s, S) \in S /\ \A j \in S : With(s, S) <= j
         /\ \A j \in i + 1 .. With(s, S) - 1 : j \notin S
         /\ \A j \in i + 1 .. Without(s, S) : j \notin S
         /\ Without(s, S) < Len(s) => Without(s, S) + 1 \in S
<1>1. S \in SUBSET Nat /\ Len(s) \in Nat /\ i \in Nat
  OBVIOUS
<1>2. CASE S = {}
  BY <1>1, <1>2 DEF With, Without
<1>3. CASE S # {}
  <2>1. Min(S) \in S /\ \A y \in S : Min(S) <= y
    BY <1>1, <1>3, MinOf
  <2>2. With(s, S) = Min(S) /\ Without(s, S) = Min(S) - 1
    BY <1>3 DEF With, Without
  <2> DEFINE m == Min(S)
  <2> HIDE DEF m
  <2>3. m \in S /\ m \in i + 1 .. Len(s) /\ (\A y \in S : m <= y) /\ With(s, S) = m /\ Without(s, S) = m - 1
    BY <2>1, <2>2 DEF m
  <2>4. \A j \in i + 1 .. m - 1 : j \notin S
    <3> TAKE j \in i + 1 .. m - 1
    <3>1. ~(m <= j)
      BY <1>1, <2>3
    <3> QED
      BY <2>3, <3>1
  <2>5. m - 1 + 1 = m /\ m - 1 \in i .. Len(s) /\ m \in i .. Len(s)
    BY <1>1, <2>3
  <2> QED
    BY <2>3, <2>4, <2>5
<1> QED
  BY <1>2, <1>3

LEMMA WithFrom ==
  ASSUME NEW s \in Seq(LineTypes), NEW i \in 1 .. Len(s), NEW S \in SUBSET (i .. Len(s))
  PROVE  With(s, S) \in i .. Len(s)
<1>1. S \in SUBSET Nat /\ Len(s) \in Nat /\ Len(s) \in i .. Len(s)
  OBVIOUS
<1>2. S # {} => Min(S) \in S
  BY <1>1, MinOf
<1> QED
  BY <1>1, <1>2 DEF With

(* A block ends where it starts or after it, and in the text.              *)
LEMMA EndIn ==
  ASSUME NEW s \in Seq(LineTypes), NEW i \in 1 .. Len(s)
  PROVE  EndOf(s, i) \in i .. Len(s)
<1> DEFINE after == i + 1 .. Len(s)
<1>1. \A S \in SUBSET after : With(s, S) \in i .. Len(s) /\ Without(s, S) \in i .. Len(s)
  BY WithIn
<1>2. i \in i .. Len(s)
  OBVIOUS
<1> DEFINE A == {j \in after : IsFence(s[j]) /\ s[j].v = s[i].v}
           B == {j \in after : "math" \in s[j].has}
           C == {j \in after : j > i + 1 /\ s[j].k \notin {"row", "divider"}}
           D == {j \in i .. Len(s) : "shut" \in s[j].has}
           E == {j \in after : ~ \/ s[j].k = "quote" /\ s[j].v = s[i].v
                                 \/ "quoted" \in s[j].has /\ s[i].v = 1}
           F == {j \in after : ~("indented" \in s[j].has /\ s[j].k # "item")}
           G == {j \in after : "indented" \notin s[j].has}
           H == {j \in after : IsBlank(s[j]) \/ KindAt(s, j) # "paragraph"}
<1>3. A \in SUBSET after /\ B \in SUBSET after /\ C \in SUBSET after /\ D \in SUBSET (i .. Len(s))
      /\ E \in SUBSET after /\ F \in SUBSET after /\ G \in SUBSET after /\ H \in SUBSET after
  OBVIOUS
<1>4. EndOf(s, i) \in {With(s, A), With(s, B), Without(s, C), With(s, D), Without(s, E), Without(s, F), Without(s, G), Without(s, H), i}
  <2> DEFINE kind == KindAt(s, i)
  <2> HIDE DEF kind
  <2>1. EndOf(s, i) =
          CASE kind = "code" -> With(s, A)
            [] kind = "formula" /\ ~(s[i].v # 0 /\ "math" \in s[i].has) -> With(s, B)
            [] kind = "table" /\ s[i].k # "topen" -> Without(s, C)
            [] kind = "table" /\ s[i].k = "topen" -> With(s, D)
            [] kind = "quote" -> Without(s, E)
            [] kind = "item" -> Without(s, F)
            [] kind = "footnote" -> Without(s, G)
            [] kind = "paragraph" -> Without(s, H)
            [] OTHER -> i
    BY DEF EndOf, FenceEnds, kind
  <2> HIDE DEF A, B, C, D, E, F, G, H
  <2> QED
    BY <2>1
<1>5. With(s, D) \in i .. Len(s)
  BY <1>3, WithFrom
<1> HIDE DEF A, B, C, D, E, F, G, H
<1> QED
  BY <1>1, <1>2, <1>3, <1>4, <1>5

(* The parse                                                               *)
Starts(s)   == {i \in 1 .. Len(s) : ~IsBlank(s[i])}
BlocksOf(s) == {BlockAt(s, i) : i \in Starts(s)}

(* f[i] are the blocks of the lines from i on.                             *)
ParseRun(f, s) ==
  /\ f \in [1 .. Len(s) + 1 -> Seq(BlocksOf(s))]
  /\ f[Len(s) + 1] = <<>>
  /\ \A i \in 1 .. Len(s) :
       /\ IsBlank(s[i]) => f[i] = f[i + 1]
       /\ ~IsBlank(s[i]) => f[i] = <<BlockAt(s, i)>> \o f[EndOf(s, i) + 1]

(* ParsedBlocks is a recursion that jumps from block to block.             *)
LEMMA ParseRuns ==
  ASSUME NEW s \in Seq(LineTypes)
  PROVE  \E f : ParseRun(f, s) /\ ParsedBlocks(s) = f[1]
<1> DEFINE M == Len(s) + 1
           T == Seq(BlocksOf(s))
           next == [i \in 1 .. M - 1 |-> IF IsBlank(s[i]) THEN i + 1 ELSE EndOf(s, i) + 1]
           op == [i \in 1 .. M - 1 |-> [o \in T |-> IF IsBlank(s[i]) THEN o ELSE <<BlockAt(s, i)>> \o o]]
           Fits(g) == g = [i \in 1 .. M |->
                             IF i > Len(s) THEN <<>>
                             ELSE IF IsBlank(s[i]) THEN g[i + 1]
                             ELSE <<BlockAt(s, i)>> \o g[EndOf(s, i) + 1]]
<1>1. M \in Nat \ {0} /\ <<>> \in T /\ Len(s) = M - 1 /\ M > Len(s)
  OBVIOUS
<1>2. \A i \in 1 .. M - 1 : EndOf(s, i) + 1 \in 1 .. M /\ EndOf(s, i) + 1 > i
  <2> TAKE i \in 1 .. M - 1
  <2>1. i \in 1 .. Len(s)
    BY <1>1
  <2>2. EndOf(s, i) \in i .. Len(s)
    BY <2>1, EndIn
  <2> QED
    BY <1>1, <2>2
<1>3. next \in [1 .. M - 1 -> 1 .. M] /\ \A i \in 1 .. M - 1 : next[i] > i
  <2>1. \A i \in 1 .. M - 1 : i + 1 \in 1 .. M /\ i + 1 > i
    BY <1>1
  <2> HIDE DEF M
  <2> QED
    BY <1>2, <2>1
<1>4. op \in [1 .. M - 1 -> [T -> T]]
  <2>1. ASSUME NEW i \in 1 .. M - 1, ~IsBlank(s[i]), NEW o \in T PROVE <<BlockAt(s, i)>> \o o \in T
    <3>1. BlockAt(s, i) \in BlocksOf(s)
      BY <1>1, <2>1 DEF BlocksOf, Starts
    <3> QED
      BY <3>1
  <2> HIDE DEF M, T
  <2> QED
    BY <2>1
<1>5. /\ \A i \in 1 .. M - 1 : next[i] = IF IsBlank(s[i]) THEN i + 1 ELSE EndOf(s, i) + 1
      /\ \A i \in 1 .. M - 1, o \in T : op[i][o] = IF IsBlank(s[i]) THEN o ELSE <<BlockAt(s, i)>> \o o
  OBVIOUS
<1> HIDE DEF next, op
<1>6. PICK f : Jumps(f, M, T, <<>>, next, op)
  <2> HIDE DEF M, T
  <2> QED
    BY <1>1, <1>3, <1>4, DownRecursion
<1>7. Fits(f)
  <2>1. f \in [1 .. M -> T] /\ f[M] = <<>> /\ \A i \in 1 .. M - 1 : f[next[i]] \in T /\ f[i] = op[i][f[next[i]]]
    <3> HIDE DEF M, T
    <3> QED
      BY <1>3, <1>6 DEF Jumps
  <2>2. ASSUME NEW i \in 1 .. M
        PROVE  f[i] = IF i > Len(s) THEN <<>>
                             ELSE IF IsBlank(s[i]) THEN f[i + 1]
                             ELSE <<BlockAt(s, i)>> \o f[EndOf(s, i) + 1]
    <3>1. CASE i = M
      BY <1>1, <2>1, <3>1
    <3>2. CASE i # M
      <4>1. i \in 1 .. M - 1 /\ ~(i > Len(s))
        BY <1>1, <3>2
      <4> HIDE DEF M, T
      <4>2. f[i] = op[i][f[next[i]]] /\ f[next[i]] \in T
        BY <2>1, <4>1
      <4> QED
        BY <1>5, <4>1, <4>2
    <3> QED
      BY <3>1, <3>2
  <2> HIDE DEF M, T
  <2> QED
    BY <2>1, <2>2
<1> DEFINE g == CHOOSE g : Fits(g)
<1>8. Fits(g)
  BY <1>7
<1>9. ParsedBlocks(s) = g[1]
  BY DEF ParsedBlocks
<1> HIDE DEF g
<1>10. /\ g = [i \in 1 .. M |-> g[i]] /\ g[M] = <<>>
       /\ \A i \in 1 .. M - 1 : g[i] = IF IsBlank(s[i]) THEN g[i + 1] ELSE <<BlockAt(s, i)>> \o g[EndOf(s, i) + 1]
  <2>1. M \in 1 .. M /\ \A i \in 1 .. M - 1 : i \in 1 .. M /\ ~(i > Len(s))
    BY <1>1
  <2> HIDE DEF M
  <2> QED
    BY <1>1, <1>8, <2>1
<1>11. \A i \in 1 .. M - 1 : g[next[i]] \in T => g[i] = op[i][g[next[i]]]
  <2> HIDE DEF M, T, Fits
  <2> SUFFICES ASSUME NEW i \in 1 .. M - 1, g[next[i]] \in T PROVE g[i] = op[i][g[next[i]]]
    OBVIOUS
  <2>1. next[i] = IF IsBlank(s[i]) THEN i + 1 ELSE EndOf(s, i) + 1
    BY <1>5
  <2>2. \A o \in T : op[i][o] = IF IsBlank(s[i]) THEN o ELSE <<BlockAt(s, i)>> \o o
    BY <1>5
  <2>3. g[i] = IF IsBlank(s[i]) THEN g[i + 1] ELSE <<BlockAt(s, i)>> \o g[EndOf(s, i) + 1]
    BY <1>10
  <2> QED
    BY <2>1, <2>2, <2>3
<1>12. Jumps(g, M, T, <<>>, next, op)
  <2> HIDE DEF M, T, Fits
  <2> QED
    BY <1>1, <1>3, <1>4, <1>10, <1>11, JumpsByEquation
<1>13. ParseRun(g, s)
  <2>1. g \in [1 .. M -> T]
    BY <1>12 DEF Jumps
  <2>2. \A i \in 1 .. Len(s) : g[i] = IF IsBlank(s[i]) THEN g[i + 1] ELSE <<BlockAt(s, i)>> \o g[EndOf(s, i) + 1]
    BY <1>1, <1>10
  <2> HIDE DEF Fits
  <2> QED
    BY <1>10, <2>1, <2>2 DEF ParseRun
<1> QED
  BY <1>9, <1>13

(* What is parsed are blocks of the text.                                  *)
LEMMA Parsed ==
  ASSUME NEW s \in Seq(LineTypes)
  PROVE  ParsedBlocks(s) \in Seq(BlocksOf(s))
<1>1. PICK f : ParseRun(f, s) /\ ParsedBlocks(s) = f[1]
  BY ParseRuns
<1>2. 1 \in 1 .. Len(s) + 1
  OBVIOUS
<1> QED
  BY <1>1, <1>2 DEF ParseRun

(* Blocks                                                                  *)
LEMMA LineType ==
  ASSUME NEW l \in LineTypes
  PROVE  /\ l.n \in Nat /\ l.v \in Nat /\ l.k \in Classes
         /\ l.rows \in Nat /\ l.cells \in Nat /\ l.has \in SUBSET Traits
BY DEF LineTypes

(* Lines have a largest number of cells, and rows that add up.             *)
LEMMA ColumnsType ==
  ASSUME NEW body \in Seq(LineTypes)
  PROVE  Columns(body) \in Nat /\ \A k \in DOMAIN body : body[k].cells <= Columns(body)
<1> DEFINE G == {r \in Seq(LineTypes) : \E m \in Nat : \A k \in DOMAIN r : r[k].cells <= m}
<1>1. <<>> \in G
  OBVIOUS
<1>2. ASSUME NEW r \in Seq(LineTypes), NEW l \in LineTypes, r \in G PROVE Append(r, l) \in G
  <2>1. PICK m \in Nat : \A k \in DOMAIN r : r[k].cells <= m
    BY <1>2
  <2>2. /\ Append(r, l) \in Seq(LineTypes) /\ DOMAIN Append(r, l) = DOMAIN r \cup {Len(r) + 1}
        /\ \A k \in DOMAIN r : Append(r, l)[k] = r[k] /\ r[k] \in LineTypes
        /\ Append(r, l)[Len(r) + 1] = l
    OBVIOUS
  <2>3. l.cells \in Nat /\ \A k \in DOMAIN r : r[k].cells \in Nat
    BY <2>2, LineType
  <2>4. \A k \in DOMAIN Append(r, l) : Append(r, l)[k].cells <= m + l.cells
    <3> TAKE k \in DOMAIN Append(r, l)
    <3>1. CASE k \in DOMAIN r
      BY <2>1, <2>2, <2>3, <3>1
    <3>2. CASE k = Len(r) + 1
      BY <2>2, <2>3, <3>2
    <3> QED
      BY <2>2, <3>1, <3>2
  <2>5. m + l.cells \in Nat
    BY <2>3
  <2> QED
    BY <2>2, <2>4, <2>5
<1>3. body \in G
  <2> HIDE DEF G
  <2> QED
    BY <1>1, <1>2, SeqInduction
<1>4. PICK m \in Nat : \A k \in DOMAIN body : body[k].cells <= m
  BY <1>3
<1> DEFINE S == {0} \cup {l.cells : l \in ToSet(body)}
<1>5. \A l \in ToSet(body) : l \in LineTypes /\ l.cells <= m
  BY <1>4 DEF ToSet
<1>6. S \in SUBSET Nat /\ S # {} /\ \A y \in S : y <= m
  BY <1>5, LineType
<1>7. \A k \in DOMAIN body : body[k].cells \in S
  BY DEF ToSet
<1> HIDE DEF S
<1>8. Max(S) \in S /\ \A y \in S : y <= Max(S)
  BY <1>6, MaxOf
<1>9. Columns(body) = Max(S)
  BY DEF Columns, S
<1> QED
  BY <1>6, <1>7, <1>8, <1>9

LEMMA RowsType ==
  ASSUME NEW body \in Seq(LineTypes)
  PROVE  Rows(body) \in Nat
<1> DEFINE t == [k \in DOMAIN body |-> body[k].rows]
<1>1. \A k \in DOMAIN body : body[k].rows \in Nat
  <2> TAKE k \in DOMAIN body
  <2>1. body[k] \in LineTypes
    OBVIOUS
  <2> QED
    BY <2>1, LineType
<1>2. t \in Seq(Nat)
  BY <1>1
<1> HIDE DEF t
<1>3. Total(t) \in Nat
  BY <1>2, TotalType
<1> QED
  BY <1>3 DEF Rows, t

(* The body of a block are the lines from its start to its end.            *)
LEMMA BodyType ==
  ASSUME NEW s \in Seq(LineTypes), NEW i \in 1 .. Len(s)
  PROVE  /\ SubSeq(s, i, EndOf(s, i)) \in Seq(LineTypes)
         /\ Len(SubSeq(s, i, EndOf(s, i))) = EndOf(s, i) - i + 1
         /\ Len(SubSeq(s, i, EndOf(s, i))) > 0
         /\ SubSeq(s, i, EndOf(s, i))[1] = s[i]
         /\ \A k \in 1 .. EndOf(s, i) - i + 1 : SubSeq(s, i, EndOf(s, i))[k] = s[i + k - 1]
<1> DEFINE e == EndOf(s, i)
<1>1. e \in i .. Len(s)
  BY EndIn
<1> HIDE DEF e
<1>2. SubSeq(s, i, e) \in Seq(LineTypes) /\ Len(SubSeq(s, i, e)) = e - i + 1
  BY <1>1
<1>3. \A k \in 1 .. e - i + 1 : SubSeq(s, i, e)[k] = s[i + k - 1]
  BY <1>1
<1>4. 1 \in 1 .. e - i + 1 /\ i + 1 - 1 = i /\ e - i + 1 > 0
  BY <1>1
<1>5. SubSeq(s, i, e)[1] = s[i]
  BY <1>3, <1>4
<1> QED
  BY <1>2, <1>3, <1>4, <1>5 DEF e

(* A line starts a block of some kind.                                     *)
LEMMA KindType ==
  ASSUME NEW s, NEW i
  PROVE  KindAt(s, i) \in Kinds
BY DEF KindAt, Kinds

(* What BlockAt makes; only a table counts for more than one.              *)
LEMMA BlockType ==
  ASSUME NEW s \in Seq(LineTypes), NEW i \in 1 .. Len(s)
  PROVE  LET b == BlockAt(s, i)
         IN /\ b \in BlockTypes /\ b.kind = KindAt(s, i) /\ b.body = SubSeq(s, i, EndOf(s, i))
            /\ b.kind # "table" => b.count = 1
            /\ b.kind = "table" /\ s[i].k = "topen" => b.count = Rows(b.body) /\ b.cols = Columns(b.body)
<1> DEFINE kind == KindAt(s, i)
           body == SubSeq(s, i, EndOf(s, i))
<1>1. kind \in Kinds
  BY KindType
<1>2. body \in Seq(LineTypes) /\ Len(body) \in Nat /\ Len(body) > 0
  BY BodyType
<1>3. s[i].v \in Nat
  <2>1. s[i] \in LineTypes
    OBVIOUS
  <2> QED
    BY <2>1, LineType
<1> DEFINE media == IF s[i].k = "media" THEN 1 ELSE s[i].v
           a == Block(kind, body, 1, Len(body) - 1, 0, s[i].v)
           b == Block(kind, body, 1, Rows(body), 0, Columns(body))
           c == Block(kind, body, 1, 1, media, 0)
           d == Block(kind, body, s[i].v, 1, 0, 0)
           e == Block(kind, body, 1, 1, 0, 0)
<1>4. BlockAt(s, i) =
        CASE kind = "table" /\ s[i].k # "topen" -> a
          [] kind = "table" /\ s[i].k = "topen" -> b
          [] kind = "media" -> c
          [] kind \in {"quote", "item"} -> d
          [] OTHER -> e
  BY DEF BlockAt
<1>5. Rows(body) \in Nat /\ Columns(body) \in Nat /\ Len(body) - 1 \in Nat /\ media \in Nat
  <2> HIDE DEF body
  <2>1. Len(body) - 1 \in Nat
    BY <1>2
  <2> QED
    BY <1>2, <1>3, <2>1, ColumnsType, RowsType
<1> HIDE DEF kind, body, media
<1>6. a \in BlockTypes /\ b \in BlockTypes /\ c \in BlockTypes /\ d \in BlockTypes /\ e \in BlockTypes
  BY <1>1, <1>2, <1>3, <1>5 DEF Block, BlockTypes
<1>7. /\ a.kind = kind /\ b.kind = kind /\ c.kind = kind /\ d.kind = kind /\ e.kind = kind
      /\ a.body = body /\ b.body = body /\ c.body = body /\ d.body = body /\ e.body = body
      /\ c.count = 1 /\ d.count = 1 /\ e.count = 1 /\ b.count = Rows(body) /\ b.cols = Columns(body)
  BY DEF Block
<1> HIDE DEF a, b, c, d, e
<1>8. CASE kind = "table"
  <2>1. (s[i].k # "topen" /\ BlockAt(s, i) = a) \/ (s[i].k = "topen" /\ BlockAt(s, i) = b)
    BY <1>4, <1>8
  <2> QED
    BY <1>6, <1>7, <1>8, <2>1 DEF kind, body
<1>9. CASE kind # "table"
  <2>1. BlockAt(s, i) = c \/ BlockAt(s, i) = d \/ BlockAt(s, i) = e
    BY <1>4, <1>9
  <2> QED
    BY <1>6, <1>7, <1>9, <2>1 DEF kind, body
<1> QED
  BY <1>8, <1>9

(* The normalizer's loops.                                                 *)
LineState == [out : Seq(LineTypes), inFence : BOOLEAN, skip : BOOLEAN]
LineStart == [out |-> <<>>, inFence |-> FALSE, skip |-> FALSE]
LineRun(f, s) ==
  /\ f \in [0 .. Len(s) -> LineState] /\ f[0] = LineStart
  /\ \A i \in 1 .. Len(s) : f[i - 1] \in LineState /\ f[i] = LineStep(f[i - 1], s, i)

(* What the normalizer makes of a line is a line.                          *)
LEMMA NewLineTypes ==
  ASSUME NEW l \in LineTypes
  PROVE  NormalizeLine(l) \in LineTypes /\ AsHeading(l) \in LineTypes /\ WithLanguage(l) \in LineTypes
<1>1. NormalizeLine(l) \in LineTypes
  BY RichTextAssumption DEF NormalizeLine
<1>2. l \in [k : Classes, n : Nat, v : Nat, w : Nat, has : SUBSET Traits, rows : Nat, cells : Nat] /\ l.n + 1 \in Nat
  BY DEF LineTypes
<1>3. AsHeading(l) \in LineTypes
  <2>1. AsHeading(l) \in [k : Classes, n : Nat, v : Nat, w : Nat, has : SUBSET Traits, rows : Nat, cells : Nat]
    BY <1>2 DEF AsHeading, Classes
  <2>2. AsHeading(l).k = "head" /\ AsHeading(l).has \subseteq {"math", "shut"}
    BY <1>2 DEF AsHeading
  <2> QED
    BY <2>1, <2>2 DEF LineTypes, IsBlank
<1>4. WithLanguage(l) \in LineTypes
  <2>1. CASE l.k = "fence"
    <3>1. WithLanguage(l) = [l EXCEPT !.k = "lang", !.n = @ + 1]
      BY <2>1 DEF WithLanguage
    <3>2. WithLanguage(l) \in [k : Classes, n : Nat, v : Nat, w : Nat, has : SUBSET Traits, rows : Nat, cells : Nat]
      BY <1>2, <3>1 DEF Classes
    <3>3. WithLanguage(l).k = "lang" /\ WithLanguage(l).has = l.has
      BY <1>2, <3>1
    <3>4. l.has \subseteq {"math", "shut"}
      BY <2>1 DEF LineTypes, AtMargin
    <3> QED
      BY <3>2, <3>3, <3>4 DEF LineTypes, IsBlank
  <2>2. CASE l.k # "fence"
    BY <2>2 DEF WithLanguage
  <2> QED
    BY <2>1, <2>2
<1> QED
  BY <1>1, <1>3, <1>4

(* A step of the pass over the lines keeps its state's type.               *)
LEMMA LineStepType ==
  ASSUME NEW s \in Seq(LineTypes), NEW i \in 1 .. Len(s), NEW a \in LineState
  PROVE  LineStep(a, s, i) \in LineState
<1>1. a = [out |-> a.out, inFence |-> a.inFence, skip |-> a.skip]
      /\ a.out \in Seq(LineTypes) /\ a.inFence \in BOOLEAN /\ a.skip \in BOOLEAN
  BY DEF LineState
<1>2. s[i] \in LineTypes
  OBVIOUS
<1>3. \A l \in LineTypes : Append(a.out, l) \in Seq(LineTypes)
  BY <1>1
<1>4. NormalizeLine(s[i]) \in LineTypes /\ AsHeading(s[i]) \in LineTypes /\ WithLanguage(s[i]) \in LineTypes
  BY <1>2, NewLineTypes
<1>5. \A o \in Seq(LineTypes), p, q \in BOOLEAN : [out |-> o, inFence |-> p, skip |-> q] \in LineState
  BY DEF LineState
<1>6. (~IsFence(s[i])) \in BOOLEAN
  BY DEF IsFence
<1>7. LineStep(a, s, i) \in {[out |-> a.out, inFence |-> a.inFence, skip |-> FALSE],
        [out |-> Append(a.out, s[i]), inFence |-> ~IsFence(s[i]), skip |-> a.skip],
        [out |-> Append(a.out, AsHeading(s[i])), inFence |-> a.inFence, skip |-> TRUE],
        [out |-> Append(a.out, WithLanguage(s[i])), inFence |-> TRUE, skip |-> a.skip],
        [out |-> Append(a.out, NormalizeLine(s[i])), inFence |-> a.inFence, skip |-> a.skip]}
  BY <1>1 DEF LineStep
<1> QED
  BY <1>1, <1>2, <1>3, <1>4, <1>5, <1>6, <1>7

(* LineByLine is a run over the lines.                                     *)
LEMMA LineRuns ==
  ASSUME NEW s \in Seq(LineTypes)
  PROVE  \E f : LineRun(f, s) /\ LineByLine(s) = f[Len(s)].out
<1> DEFINE N == Len(s)
           T == LineState
           op == [i \in 1 .. N |-> [a \in T |-> LineStep(a, s, i)]]
           Fits(g) == g = [i \in 0 .. N |-> IF i = 0 THEN LineStart ELSE LineStep(g[i - 1], s, i)]
<1>1. LineStart \in T /\ N \in Nat
  BY DEF LineState, LineStart
<1>2. op \in [1 .. N -> [T -> T]]
  <2>1. \A i \in 1 .. N, a \in T : LineStep(a, s, i) \in T
    BY LineStepType
  <2> HIDE DEF N, T
  <2> QED
    BY <2>1
<1>3. \A i \in 1 .. N, o \in T : op[i][o] = LineStep(o, s, i)
  OBVIOUS
<1> HIDE DEF op
<1>4. PICK f : Run(f, N, T, LineStart, op)
  <2> HIDE DEF N, T
  <2> QED
    BY <1>1, <1>2, UpRecursion
<1>5. Fits(f)
  <2> HIDE DEF T, N
  <2>1. \A i \in 1 .. N : f[i - 1] \in T /\ f[i] = op[i][f[i - 1]]
    <3>1. N \in Nat
      BY <1>1
    <3> HIDE DEF Fits
    <3> TAKE i \in 1 .. N
    <3> QED
      BY <1>4, <3>1, RunStep
  <2>2. \A i \in 1 .. N : f[i] = LineStep(f[i - 1], s, i)
    BY <1>3, <2>1
  <2>3. f \in [0 .. N -> T] /\ f[0] = LineStart
    BY <1>4 DEF Run
  <2>4. \A i \in 0 .. N : i # 0 => i \in 1 .. N
    BY <1>1
  <2> QED
    BY <2>2, <2>3, <2>4
<1> DEFINE g == CHOOSE g : Fits(g)
<1>6. Fits(g)
  BY <1>5
<1>7. LineByLine(s) = g[N].out
  BY DEF LineByLine, LineStart
<1>8. Run(g, N, T, LineStart, op)
  <2> HIDE DEF g
  <2>1. g = [i \in 0 .. N |-> g[i]] /\ g[0] = LineStart
    BY <1>1, <1>6
  <2>2. \A i \in 1 .. N : i \in 0 .. N /\ i # 0
    OBVIOUS
  <2>3. \A i \in 1 .. N : g[i] = LineStep(g[i - 1], s, i)
    BY <1>6, <2>2
  <2>4. \A i \in 1 .. N : g[i - 1] \in T => g[i] = op[i][g[i - 1]]
    BY <1>3, <2>3
  <2> HIDE DEF Fits, N, T
  <2> QED
    BY <1>1, <1>2, <2>1, <2>4, RunByEquation
<1> HIDE DEF g
<1>9. LineRun(g, s)
  <2>1. \A i \in 1 .. N : g[i - 1] \in T /\ g[i] = op[i][g[i - 1]]
    <3>1. N \in Nat
      BY <1>1
    <3> HIDE DEF Fits, N, T
    <3> TAKE i \in 1 .. N
    <3> QED
      BY <1>8, <3>1, RunStep
  <2>2. \A i \in 1 .. N : g[i - 1] \in T /\ g[i] = LineStep(g[i - 1], s, i)
    BY <1>3, <2>1
  <2> HIDE DEF Fits
  <2> QED
    BY <1>8, <2>2 DEF LineRun, Run
<1> QED
  BY <1>7, <1>9

BlankState == [out : Seq(LineTypes), inFence : BOOLEAN, prevBlank : BOOLEAN]
BlankStart == [out |-> <<>>, inFence |-> FALSE, prevBlank |-> TRUE]
BlankRun(f, s) ==
  /\ f \in [0 .. Len(s) -> BlankState] /\ f[0] = BlankStart
  /\ \A i \in 1 .. Len(s) : f[i - 1] \in BlankState /\ f[i] = BlankStep(f[i - 1], s[i])

(* A step of the pass over the blank lines keeps its state's type.         *)
LEMMA BlankStepType ==
  ASSUME NEW l \in LineTypes, NEW a \in BlankState
  PROVE  BlankStep(a, l) \in BlankState
<1>1. a = [out |-> a.out, inFence |-> a.inFence, prevBlank |-> a.prevBlank]
      /\ a.out \in Seq(LineTypes) /\ a.inFence \in BOOLEAN /\ a.prevBlank \in BOOLEAN
  BY DEF BlankState
<1>2. Append(a.out, l) \in Seq(LineTypes)
  BY <1>1
<1>3. \A o \in Seq(LineTypes), p, q \in BOOLEAN : [out |-> o, inFence |-> p, prevBlank |-> q] \in BlankState
  BY DEF BlankState
<1>4. IsBlank(l) \in BOOLEAN /\ (~a.inFence) \in BOOLEAN
  BY DEF IsBlank
<1>5. BlankStep(a, l) \in {[out |-> Append(a.out, l), inFence |-> ~a.inFence, prevBlank |-> FALSE],
        [out |-> Append(a.out, l), inFence |-> a.inFence, prevBlank |-> a.prevBlank],
        [out |-> a.out, inFence |-> a.inFence, prevBlank |-> IsBlank(l)],
        [out |-> Append(a.out, l), inFence |-> a.inFence, prevBlank |-> IsBlank(l)]}
  BY <1>1 DEF BlankStep
<1> QED
  BY <1>1, <1>2, <1>3, <1>4, <1>5

(* Collapsed is a run over the lines, trimmed.                             *)
LEMMA BlankRuns ==
  ASSUME NEW s \in Seq(LineTypes)
  PROVE  \E f : BlankRun(f, s) /\ Collapsed(s) = Trimmed(f[Len(s)].out)
<1> DEFINE N == Len(s)
           T == BlankState
           op == [i \in 1 .. N |-> [a \in T |-> BlankStep(a, s[i])]]
           Fits(g) == g = [i \in 0 .. N |-> IF i = 0 THEN BlankStart ELSE BlankStep(g[i - 1], s[i])]
<1>1. BlankStart \in T /\ N \in Nat
  BY DEF BlankState, BlankStart
<1>2. op \in [1 .. N -> [T -> T]]
  <2>1. \A i \in 1 .. N, a \in T : BlankStep(a, s[i]) \in T
    <3> TAKE i \in 1 .. N, a \in T
    <3>1. s[i] \in LineTypes
      OBVIOUS
    <3> QED
      BY <3>1, BlankStepType
  <2> HIDE DEF N, T
  <2> QED
    BY <2>1
<1>3. \A i \in 1 .. N, o \in T : op[i][o] = BlankStep(o, s[i])
  OBVIOUS
<1> HIDE DEF op
<1>4. PICK f : Run(f, N, T, BlankStart, op)
  <2> HIDE DEF N, T
  <2> QED
    BY <1>1, <1>2, UpRecursion
<1>5. Fits(f)
  <2> HIDE DEF T, N
  <2>1. \A i \in 1 .. N : f[i - 1] \in T /\ f[i] = op[i][f[i - 1]]
    <3>1. N \in Nat
      BY <1>1
    <3> HIDE DEF Fits
    <3> TAKE i \in 1 .. N
    <3> QED
      BY <1>4, <3>1, RunStep
  <2>2. \A i \in 1 .. N : f[i] = BlankStep(f[i - 1], s[i])
    BY <1>3, <2>1
  <2>3. f \in [0 .. N -> T] /\ f[0] = BlankStart
    BY <1>4 DEF Run
  <2>4. \A i \in 0 .. N : i # 0 => i \in 1 .. N
    BY <1>1
  <2> QED
    BY <2>2, <2>3, <2>4
<1> DEFINE g == CHOOSE g : Fits(g)
<1>6. Fits(g)
  BY <1>5
<1>7. Collapsed(s) = Trimmed(g[N].out)
  BY DEF Collapsed, BlankStart
<1>8. Run(g, N, T, BlankStart, op)
  <2> HIDE DEF g
  <2>1. g = [i \in 0 .. N |-> g[i]] /\ g[0] = BlankStart
    BY <1>1, <1>6
  <2>2. \A i \in 1 .. N : i \in 0 .. N /\ i # 0
    OBVIOUS
  <2>3. \A i \in 1 .. N : g[i] = BlankStep(g[i - 1], s[i])
    BY <1>6, <2>2
  <2>4. \A i \in 1 .. N : g[i - 1] \in T => g[i] = op[i][g[i - 1]]
    BY <1>3, <2>3
  <2> HIDE DEF Fits, N, T
  <2> QED
    BY <1>1, <1>2, <2>1, <2>4, RunByEquation
<1> HIDE DEF g
<1>9. BlankRun(g, s)
  <2>1. \A i \in 1 .. N : g[i - 1] \in T /\ g[i] = op[i][g[i - 1]]
    <3>1. N \in Nat
      BY <1>1
    <3> HIDE DEF Fits, N, T
    <3> TAKE i \in 1 .. N
    <3> QED
      BY <1>8, <3>1, RunStep
  <2>2. \A i \in 1 .. N : g[i - 1] \in T /\ g[i] = BlankStep(g[i - 1], s[i])
    BY <1>3, <2>1
  <2> HIDE DEF Fits
  <2> QED
    BY <1>8, <2>2 DEF BlankRun, Run
<1> QED
  BY <1>7, <1>9

(* Trimmed                                                                 *)
LastLine(s) == Max({0} \cup {i \in DOMAIN s : ~IsBlank(s[i])})

(* The last line that is not blank.                                        *)
LEMMA LastOf ==
  ASSUME NEW s \in Seq(LineTypes)
  PROVE  /\ LastLine(s) \in 0 .. Len(s)
         /\ LastLine(s) # 0 => ~IsBlank(s[LastLine(s)])
         /\ \A j \in LastLine(s) + 1 .. Len(s) : IsBlank(s[j])
<1> DEFINE S == {0} \cup {i \in DOMAIN s : ~IsBlank(s[i])}
<1>1. S \in SUBSET Nat /\ S # {} /\ Len(s) \in Nat /\ \A y \in S : y <= Len(s)
  OBVIOUS
<1> DEFINE m == Max(S)
<1>2. m \in S /\ \A y \in S : y <= m
  <2> HIDE DEF S
  <2> QED
    BY <1>1, MaxOf
<1> HIDE DEF m
<1>3. \A j \in m + 1 .. Len(s) : IsBlank(s[j])
  <2> TAKE j \in m + 1 .. Len(s)
  <2>1. j \in DOMAIN s /\ ~(j <= m)
    BY <1>1, <1>2
  <2> QED
    BY <1>2, <2>1
<1>4. m \in 0 .. Len(s) /\ (m # 0 => ~IsBlank(s[m]))
  BY <1>1, <1>2
<1> QED
  BY <1>3, <1>4 DEF m, LastLine

(* Trimmed is the text up to there.                                        *)
LEMMA TrimmedType ==
  ASSUME NEW s \in Seq(LineTypes)
  PROVE  /\ Trimmed(s) = SubSeq(s, 1, LastLine(s)) /\ Trimmed(s) \in Seq(LineTypes)
         /\ Len(Trimmed(s)) = LastLine(s) /\ \A k \in 1 .. LastLine(s) : Trimmed(s)[k] = s[k]
<1>1. LastLine(s) \in 0 .. Len(s) /\ Trimmed(s) = SubSeq(s, 1, LastLine(s))
  BY LastOf DEF Trimmed, LastLine
<1> QED
  BY <1>1

(* A normalized text is a text.                                            *)
LEMMA NormalizedType ==
  ASSUME NEW s \in Seq(LineTypes)
  PROVE  LineByLine(s) \in Seq(LineTypes) /\ Normalized(s) \in Seq(LineTypes)
<1>1. LineByLine(s) \in Seq(LineTypes)
  <2>1. PICK f : LineRun(f, s) /\ LineByLine(s) = f[Len(s)].out
    BY LineRuns
  <2>2. Len(s) \in 0 .. Len(s)
    OBVIOUS
  <2>3. f[Len(s)] \in LineState
    BY <2>1, <2>2 DEF LineRun
  <2> QED
    BY <2>1, <2>3 DEF LineState
<1> DEFINE t == LineByLine(s)
<1> HIDE DEF t
<1>2. t \in Seq(LineTypes)
  BY <1>1 DEF t
<1>3. PICK f : BlankRun(f, t) /\ Collapsed(t) = Trimmed(f[Len(t)].out)
  BY <1>2, BlankRuns
<1>4. Len(t) \in 0 .. Len(t)
  BY <1>2
<1>5. f[Len(t)] \in BlankState
  BY <1>3, <1>4 DEF BlankRun
<1>6. f[Len(t)].out \in Seq(LineTypes)
  BY <1>5 DEF BlankState
<1>7. Collapsed(t) \in Seq(LineTypes)
  BY <1>3, <1>6, TrimmedType
<1> QED
  BY <1>1, <1>7 DEF Normalized, t

EachJoins(G, s, t) == Each(G, s \o t) = Each(G, s) \o Each(G, t)

(* A function applied to each element of two sequences, one after the      *)
(* other.                                                                  *)
LEMMA MapConcat ==
  ASSUME NEW A, NEW B, NEW G \in [A -> B], NEW s \in Seq(A), NEW t \in Seq(A)
  PROVE  EachJoins(G, s, t)
<1> DEFINE r == s \o t
<1>1. /\ Len(s) \in Nat /\ Len(t) \in Nat /\ Len(r) = Len(s) + Len(t) /\ r \in Seq(A)
      /\ (\A i \in 1 .. Len(s) : r[i] = s[i]) /\ (\A i \in Len(s) + 1 .. Len(r) : r[i] = t[i - Len(s)])
      /\ DOMAIN s = 1 .. Len(s) /\ DOMAIN t = 1 .. Len(t) /\ DOMAIN r = 1 .. Len(r)
  OBVIOUS
<1> HIDE DEF r
<1>0. ASSUME NEW u \in Seq(A)
      PROVE  /\ Each(G, u) \in Seq(B) /\ Len(Each(G, u)) = Len(u)
             /\ \A k \in DOMAIN u : Each(G, u)[k] = G[u[k]]
  <2>1. Each(G, u) \in Seq(B)
    BY MapParts
  <2>2. DOMAIN Each(G, u) = DOMAIN u /\ \A k \in DOMAIN u : Each(G, u)[k] = G[u[k]]
    BY DEF Each
  <2>3. Len(Each(G, u)) = Len(u)
    <3>1. DOMAIN u = 1 .. Len(u) /\ Len(u) \in Nat /\ \A k \in 1 .. Len(u) : u[k] \in A
      OBVIOUS
    <3> QED
      BY <3>1 DEF Each
  <2> QED
    BY <2>1, <2>2, <2>3
<1>2. /\ Each(G, s) \in Seq(B) /\ Len(Each(G, s)) = Len(s) /\ \A k \in DOMAIN s : Each(G, s)[k] = G[s[k]]
  BY <1>0
<1>3. /\ Each(G, t) \in Seq(B) /\ Len(Each(G, t)) = Len(t) /\ \A k \in DOMAIN t : Each(G, t)[k] = G[t[k]]
  BY <1>0
<1>4. /\ Each(G, r) \in Seq(B) /\ Len(Each(G, r)) = Len(r) /\ \A k \in DOMAIN r : Each(G, r)[k] = G[r[k]]
  BY <1>0, <1>1
<1> DEFINE x == Each(G, s)
           y == Each(G, t)
           z == Each(G, r)
<1> HIDE DEF x, y, z
<1>5. x \in Seq(B) /\ y \in Seq(B) /\ z \in Seq(B) /\ Len(x) = Len(s) /\ Len(y) = Len(t) /\ Len(z) = Len(s) + Len(t)
  BY <1>1, <1>2, <1>3, <1>4 DEF x, y, z
<1>6. x \o y \in Seq(B) /\ Len(x \o y) = Len(s) + Len(t)
  <2>1. x \o y \in Seq(B) /\ Len(x \o y) = Len(x) + Len(y)
    BY <1>5
  <2> QED
    BY <1>5, <2>1
<1>7. ASSUME NEW i \in 1 .. Len(s) + Len(t) PROVE z[i] = (x \o y)[i]
  <2>1. z[i] = G[r[i]]
    BY <1>1, <1>4 DEF z
  <2>2. CASE i <= Len(s)
    <3>1. i \in 1 .. Len(s) /\ (x \o y)[i] = x[i]
      BY <1>1, <1>5, <2>2
    <3>2. x[i] = G[s[i]]
      BY <1>1, <1>2, <3>1 DEF x
    <3> QED
      BY <1>1, <2>1, <3>1, <3>2
  <2>3. CASE i > Len(s)
    <3>1. i - Len(s) \in 1 .. Len(t) /\ (x \o y)[i] = y[i - Len(s)] /\ i \in Len(s) + 1 .. Len(r)
      BY <1>1, <1>5, <2>3
    <3>2. y[i - Len(s)] = G[t[i - Len(s)]]
      BY <1>1, <1>3, <3>1 DEF y
    <3> QED
      BY <1>1, <2>1, <3>1, <3>2
  <2>4. i <= Len(s) \/ i > Len(s)
    BY <1>1
  <2> QED
    BY <2>2, <2>3, <2>4
<1>8. z = x \o y
  BY <1>1, <1>5, <1>6, <1>7, SeqEqual
<1> QED
  BY <1>8 DEF x, y, z, r, EachJoins

(* Larger numbers have a larger total.                                     *)
LEMMA TotalMost ==
  ASSUME NEW ms \in Seq(Nat), NEW ns \in Seq(Nat), Len(ms) = Len(ns), \A k \in DOMAIN ms : ms[k] <= ns[k]
  PROVE  Total(ms) <= Total(ns)
<1> DEFINE N == Len(ms)
           G == {i \in 0 .. N : Sums(ms)[i] <= Sums(ns)[i]}
<1>1. N \in Nat /\ DOMAIN ms = 1 .. N
  OBVIOUS
<1>2. 0 \in G
  BY SumsRule
<1>3. ASSUME NEW i \in 1 .. N, i - 1 \in G PROVE i \in G
  <2>1. i \in 1 .. Len(ns) /\ i - 1 \in 0 .. Len(ms) /\ i - 1 \in 0 .. Len(ns) /\ i \in 0 .. N
    OBVIOUS
  <2>2. Sums(ms)[i] = Sums(ms)[i - 1] + ms[i] /\ Sums(ms)[i - 1] \in Nat
    BY <2>1, SumsRule
  <2>3. Sums(ns)[i] = Sums(ns)[i - 1] + ns[i] /\ Sums(ns)[i - 1] \in Nat
    BY <2>1, SumsRule
  <2>4. ms[i] \in Nat /\ ns[i] \in Nat /\ ms[i] <= ns[i]
    BY <1>1, <2>1
  <2>5. Sums(ms)[i - 1] <= Sums(ns)[i - 1]
    BY <1>3
  <2>6. Sums(ms)[i] <= Sums(ns)[i]
    BY <2>2, <2>3, <2>4, <2>5
  <2> QED
    BY <2>1, <2>6
<1>4. 0 .. N \subseteq G
  <2> HIDE DEF G, N
  <2> QED
    BY <1>1, <1>2, <1>3, UpInduction
<1>5. N \in G
  BY <1>1, <1>4
<1> QED
  BY <1>5 DEF Total

(* The total of one number.                                                *)
LEMMA TotalOne ==
  ASSUME NEW x \in Nat
  PROVE  Total(<<x>>) = x
<1>1. <<>> \in Seq(Nat) /\ Append(<<>>, x) = <<x>>
  OBVIOUS
<1>2. Total(Append(<<>>, x)) = Total(<<>>) + x /\ Total(<<>>) = 0
  BY <1>1, TotalAppend, TotalType
<1> QED
  BY <1>1, <1>2

(* Runes                                                                   *)
Runes == [l \in LineTypes |-> l.n]

(* The lengths of the lines.                                               *)
LEMMA RunesType == Runes \in [LineTypes -> Nat]
BY LineType DEF Runes

(* The length of lines: their runes, and a newline between two.            *)
LEMMA CharsOf ==
  ASSUME NEW s \in Seq(LineTypes)
  PROVE  /\ [k \in DOMAIN s |-> s[k].n] = Each(Runes, s)
         /\ Each(Runes, s) \in Seq(Nat) /\ Total(Each(Runes, s)) \in Nat
         /\ Chars(s) = Total(Each(Runes, s)) + (IF s = <<>> THEN 0 ELSE Len(s) - 1)
         /\ Chars(s) \in Nat
<1>1. \A k \in DOMAIN s : s[k] \in LineTypes
  OBVIOUS
<1>2. [k \in DOMAIN s |-> s[k].n] = Each(Runes, s)
  BY <1>1 DEF Each, Runes
<1>3. Each(Runes, s) \in Seq(Nat)
  BY RunesType, MapParts
<1>4. Total(Each(Runes, s)) \in Nat
  BY <1>3, TotalType
<1>5. (IF s = <<>> THEN 0 ELSE Len(s) - 1) \in Nat
  OBVIOUS
<1> QED
  BY <1>2, <1>3, <1>4, <1>5 DEF Chars

(* The rows and the cells of lines.                                        *)
RowsIn  == [l \in LineTypes |-> l.rows]
CellsIn == [l \in LineTypes |-> l.cells]

LEMMA RowsOf ==
  ASSUME NEW s \in Seq(LineTypes)
  PROVE  Rows(s) = Total(Each(RowsIn, s)) /\ Each(RowsIn, s) \in Seq(Nat) /\ Rows(s) \in Nat
<1>1. RowsIn \in [LineTypes -> Nat]
  BY LineType DEF RowsIn
<1>2. \A k \in DOMAIN s : s[k] \in LineTypes
  OBVIOUS
<1>3. [k \in DOMAIN s |-> s[k].rows] = Each(RowsIn, s)
  BY <1>2 DEF Each, RowsIn
<1>4. Each(RowsIn, s) \in Seq(Nat)
  BY <1>1, MapParts
<1> QED
  BY <1>3, <1>4, TotalType DEF Rows

LEMMA CellsOf ==
  ASSUME NEW s \in Seq(LineTypes)
  PROVE  Cells(s) = Total(Each(CellsIn, s)) /\ Each(CellsIn, s) \in Seq(Nat) /\ Cells(s) \in Nat
<1>1. CellsIn \in [LineTypes -> Nat]
  BY LineType DEF CellsIn
<1>2. \A k \in DOMAIN s : s[k] \in LineTypes
  OBVIOUS
<1>3. [k \in DOMAIN s |-> s[k].cells] = Each(CellsIn, s)
  BY <1>2 DEF Each, CellsIn
<1>4. Each(CellsIn, s) \in Seq(Nat)
  BY <1>1, MapParts
<1> QED
  BY <1>3, <1>4, TotalType DEF Cells

LEMMA RowsConcat ==
  ASSUME NEW s \in Seq(LineTypes), NEW t \in Seq(LineTypes)
  PROVE  Rows(s \o t) = Rows(s) + Rows(t)
<1>1. RowsIn \in [LineTypes -> Nat]
  BY LineType DEF RowsIn
<1>2. Each(RowsIn, s \o t) = Each(RowsIn, s) \o Each(RowsIn, t)
  <2>1. EachJoins(RowsIn, s, t)
    BY <1>1, MapConcat
  <2> QED
    BY <2>1 DEF EachJoins
<1>3. Each(RowsIn, s) \in Seq(Nat) /\ Each(RowsIn, t) \in Seq(Nat) /\ s \o t \in Seq(LineTypes)
  BY RowsOf
<1> DEFINE x == Each(RowsIn, s)
           y == Each(RowsIn, t)
<1> HIDE DEF x, y
<1>4. Total(x \o y) = Total(x) + Total(y)
  BY <1>3, TotalConcat DEF x, y
<1>5. Rows(s) = Total(x) /\ Rows(t) = Total(y) /\ Rows(s \o t) = Total(x \o y)
  <2>1. Rows(s) = Total(Each(RowsIn, s)) /\ Rows(t) = Total(Each(RowsIn, t))
    BY RowsOf
  <2>2. Rows(s \o t) = Total(Each(RowsIn, s \o t))
    BY <1>3, RowsOf
  <2> QED
    BY <1>2, <2>1, <2>2 DEF x, y
<1> QED
  BY <1>4, <1>5

(* With one row in a line at most, there are no more rows than lines.      *)
LEMMA RowsAtMost ==
  ASSUME NEW s \in Seq(LineTypes), \A k \in DOMAIN s : s[k].rows <= 1
  PROVE  Rows(s) <= Len(s)
<1> DEFINE t == [k \in DOMAIN s |-> s[k].rows]
           G == {r \in Seq(Nat) : (\A k \in DOMAIN r : r[k] <= 1) => Total(r) <= Len(r)}
<1>1. <<>> \in G
  <2>1. <<>> \in Seq(Nat) /\ Len(<<>>) = 0
    OBVIOUS
  <2>2. Total(<<>>) = 0
    BY <2>1, TotalType
  <2> QED
    BY <2>1, <2>2
<1>2. ASSUME NEW r \in Seq(Nat), NEW x \in Nat, r \in G PROVE Append(r, x) \in G
  <2>1. Append(r, x) \in Seq(Nat) /\ Len(Append(r, x)) = Len(r) + 1 /\ Len(r) \in Nat
    OBVIOUS
  <2> SUFFICES ASSUME \A k \in DOMAIN Append(r, x) : Append(r, x)[k] <= 1
               PROVE  Total(Append(r, x)) <= Len(Append(r, x))
    BY <2>1
  <2>2. (\A k \in DOMAIN r : r[k] <= 1) /\ x <= 1
    <3>1. /\ DOMAIN Append(r, x) = DOMAIN r \cup {Len(r) + 1} /\ Append(r, x)[Len(r) + 1] = x
          /\ \A k \in DOMAIN r : Append(r, x)[k] = r[k]
      OBVIOUS
    <3> QED
      BY <3>1
  <2>3. Total(r) <= Len(r) /\ Total(r) \in Nat
    BY <1>2, <2>2, TotalType
  <2>4. Total(Append(r, x)) = Total(r) + x
    BY TotalAppend
  <2> QED
    BY <2>1, <2>2, <2>3, <2>4
<1>3. \A k \in DOMAIN s : s[k].rows \in Nat
  <2> TAKE k \in DOMAIN s
  <2>1. s[k] \in LineTypes
    OBVIOUS
  <2> QED
    BY <2>1, LineType
<1>4. t \in Seq(Nat) /\ Len(t) = Len(s) /\ \A k \in DOMAIN t : t[k] <= 1
  BY <1>3
<1>5. t \in G
  <2> HIDE DEF G, t
  <2>1. Seq(Nat) \subseteq G
    BY <1>1, <1>2, SeqInduction
  <2> QED
    BY <1>4, <2>1
<1> QED
  BY <1>4, <1>5 DEF Rows

(* Lines without cells after the first add none to it.                     *)
LEMMA CellsFlat ==
  ASSUME NEW s \in Seq(LineTypes), Len(s) > 0, \A k \in 2 .. Len(s) : s[k].cells = 0
  PROVE  Cells(s) = s[1].cells
<1> DEFINE t == [k \in DOMAIN s |-> s[k].cells]
           G == {r \in Seq(Nat) : Len(r) > 0 /\ (\A k \in 2 .. Len(r) : r[k] = 0) => Total(r) = r[1]}
<1>1. <<>> \in G
  OBVIOUS
<1>2. ASSUME NEW r \in Seq(Nat), NEW x \in Nat, r \in G PROVE Append(r, x) \in G
  <2>1. Append(r, x) \in Seq(Nat) /\ Len(Append(r, x)) = Len(r) + 1 /\ Len(r) \in Nat
    OBVIOUS
  <2> SUFFICES ASSUME \A k \in 2 .. Len(Append(r, x)) : Append(r, x)[k] = 0
               PROVE  Total(Append(r, x)) = Append(r, x)[1]
    BY <2>1
  <2>2. Append(r, x)[Len(r) + 1] = x /\ \A k \in 1 .. Len(r) : Append(r, x)[k] = r[k]
    OBVIOUS
  <2>3. Total(Append(r, x)) = Total(r) + x
    BY TotalAppend
  <2>4. CASE Len(r) = 0
    <3>1. r = <<>>
      BY <2>4
    <3>2. Total(r) = 0
      BY <3>1, TotalType
    <3> QED
      BY <2>2, <2>3, <2>4, <3>2
  <2>5. CASE Len(r) > 0
    <3>1. \A k \in 2 .. Len(r) : r[k] = 0
      BY <2>1, <2>2
    <3>2. Len(r) + 1 \in 2 .. Len(Append(r, x)) /\ 1 \in 1 .. Len(r)
      BY <2>1, <2>5
    <3>3. x = 0 /\ Append(r, x)[1] = r[1] /\ r[1] \in Nat
      BY <2>2, <3>2
    <3>4. Total(r) = r[1]
      BY <1>2, <2>5, <3>1
    <3> QED
      BY <2>3, <3>3, <3>4
  <2> QED
    BY <2>1, <2>4, <2>5
<1>3. \A k \in DOMAIN s : s[k].cells \in Nat
  <2> TAKE k \in DOMAIN s
  <2>1. s[k] \in LineTypes
    OBVIOUS
  <2> QED
    BY <2>1, LineType
<1>4. t \in Seq(Nat) /\ Len(t) = Len(s) /\ Len(s) \in Nat /\ DOMAIN s = 1 .. Len(s)
  BY <1>3
<1>5. (\A k \in 2 .. Len(t) : t[k] = 0) /\ t[1] = s[1].cells
  BY <1>4
<1>6. t \in G
  <2> HIDE DEF G, t
  <2>1. Seq(Nat) \subseteq G
    BY <1>1, <1>2, SeqInduction
  <2> QED
    BY <1>4, <2>1
<1> QED
  BY <1>4, <1>5, <1>6 DEF Cells

(* The length of a piece: that of its rows, of the lines around them and   *)
(* of a newline for each of those.                                         *)
LEMMA PieceChars ==
  ASSUME NEW top \in Seq(LineTypes), NEW c \in Seq(LineTypes), NEW bottom \in Seq(LineTypes), c # <<>>
  PROVE  Chars(top \o c \o bottom)
           = Chars(c) + Total([k \in DOMAIN (top \o bottom) |-> (top \o bottom)[k].n]) + Len(top \o bottom)
<1> DEFINE N(s) == Total(Each(Runes, s))
<1>1. ASSUME NEW s \in Seq(LineTypes), NEW t \in Seq(LineTypes) PROVE N(s \o t) = N(s) + N(t)
  <2>1. Each(Runes, s \o t) = Each(Runes, s) \o Each(Runes, t)
    <3>1. EachJoins(Runes, s, t)
      BY RunesType, MapConcat
    <3> QED
      BY <3>1 DEF EachJoins
  <2>2. Each(Runes, s) \in Seq(Nat) /\ Each(Runes, t) \in Seq(Nat)
    BY CharsOf
  <2> DEFINE x == Each(Runes, s)
             y == Each(Runes, t)
  <2> HIDE DEF x, y
  <2>3. Total(x \o y) = Total(x) + Total(y)
    BY <2>2, TotalConcat DEF x, y
  <2> QED
    BY <2>1, <2>3 DEF x, y
<1>2. top \o c \in Seq(LineTypes) /\ top \o bottom \in Seq(LineTypes) /\ (top \o c) \o bottom \in Seq(LineTypes)
      /\ Len((top \o c) \o bottom) = Len(top) + Len(c) + Len(bottom) /\ Len(top \o bottom) = Len(top) + Len(bottom)
      /\ Len(c) > 0 /\ (top \o c) \o bottom # <<>> /\ Len(top) \in Nat /\ Len(c) \in Nat /\ Len(bottom) \in Nat
  OBVIOUS
<1>3. N((top \o c) \o bottom) = N(top \o c) + N(bottom) /\ N(top \o c) = N(top) + N(c) /\ N(top \o bottom) = N(top) + N(bottom)
  BY <1>1, <1>2
<1>4. N(top) \in Nat /\ N(c) \in Nat /\ N(bottom) \in Nat
  BY CharsOf
<1>5. Chars((top \o c) \o bottom) = N((top \o c) \o bottom) + Len((top \o c) \o bottom) - 1
  BY <1>2, <1>3, <1>4, CharsOf
<1>6. Chars(c) = N(c) + Len(c) - 1
  BY <1>2, <1>4, CharsOf
<1>7. Total([k \in DOMAIN (top \o bottom) |-> (top \o bottom)[k].n]) = N(top \o bottom)
  BY <1>2, CharsOf
<1> HIDE DEF N
<1> QED
  <2>1. Len(top) \in Nat /\ Len(c) \in Nat /\ Len(bottom) \in Nat /\ N(top) \in Nat /\ N(c) \in Nat /\ N(bottom) \in Nat
    BY <1>2, <1>4
  <2>2. Chars((top \o c) \o bottom) = N(top) + N(c) + N(bottom) + (Len(top) + Len(c) + Len(bottom)) - 1
    BY <1>2, <1>3, <1>5, <2>1
  <2>3. Chars(c) + N(top \o bottom) + Len(top \o bottom) = (N(c) + Len(c) - 1) + (N(top) + N(bottom)) + (Len(top) + Len(bottom))
    BY <1>2, <1>3, <1>6
  <2>4. Chars((top \o c) \o bottom) = Chars(c) + N(top \o bottom) + Len(top \o bottom)
    <3> HIDE <1>2, <1>3, <1>4, <1>5, <1>6, <1>7
    <3> QED
      BY <2>1, <2>2, <2>3
  <2> QED
    BY <1>7, <2>4

(* Frames                                                                  *)
LEMMA InnerType ==
  ASSUME NEW s \in Seq(LineTypes), NEW i \in 2 .. 3, i <= Len(s) + 1
  PROVE  SubSeq(s, 2, Len(s) - 1) \in Seq(LineTypes) /\ SubSeq(s, i, Len(s)) \in Seq(LineTypes)
<1>1. Len(s) \in Nat
  OBVIOUS
<1>2. SubSeq(s, 2, Len(s) - 1) \in Seq(LineTypes)
  <2>1. CASE Len(s) < 2
    <3>1. SubSeq(s, 2, Len(s) - 1) = <<>>
      BY <1>1, <2>1, SubSeqEmpty
    <3> QED
      BY <3>1
  <2>2. CASE Len(s) >= 2
    BY <1>1, <2>2
  <2> QED
    BY <1>1, <2>1, <2>2
<1>3. SubSeq(s, i, Len(s)) \in Seq(LineTypes)
  BY <1>1
<1> QED
  BY <1>2, <1>3

(* What a block is taken apart into.                                       *)
LEMMA FrameType ==
  ASSUME NEW b \in BlockTypes, Len(b.body) > 0
  PROVE  LET f == FrameOf(b)
         IN /\ f.top \in Seq(LineTypes) /\ f.rows \in Seq(LineTypes) /\ f.bottom \in Seq(LineTypes)
            /\ f.most \in Nat /\ f.most >= 1 /\ f.header \in Nat
            /\ b.kind = "table" => f.most + f.header <= MaxBlocks
<1> DEFINE body == b.body
<1>1. body \in Seq(LineTypes) /\ Len(body) \in Nat /\ Len(body) > 0
  BY DEF BlockTypes
<1>2. MaxBlocks \in Nat /\ MaxBlocks > 1
  BY RichTextAssumption
<1>3. SubSeq(body, 2, Len(body) - 1) \in Seq(LineTypes)
  <2>1. 2 \in 2 .. 3 /\ 2 <= Len(body) + 1
    BY <1>1
  <2> HIDE DEF body
  <2> QED
    BY <1>1, <2>1, InnerType
<1>4. Head(body) \in LineTypes /\ Last(body) \in LineTypes
  BY <1>1 DEF Last
<1>5. CASE b.kind \in {"code", "formula"}
  <2> DEFINE close == Line(IF IsFence(Head(body)) THEN "fence" ELSE "dollar", 1, Head(body).v)
  <2>1. close \in LineTypes
    <3>1. Head(body).v \in Nat
      BY <1>4, LineType
    <3>2. \A k \in {"fence", "dollar"} : k \in Classes /\ k \notin {"blank", "under", "tclose"}
      BY DEF Classes
    <3>3. \A k \in {"fence", "dollar"}, v \in Nat : Line(k, 1, v) \in LineTypes
      BY <3>2 DEF Line, LineTypes, IsBlank
    <3> QED
      BY <3>1, <3>3
  <2>2. /\ FrameOf(b).top = <<Head(body)>> /\ FrameOf(b).rows = SubSeq(body, 2, Len(body) - 1)
        /\ FrameOf(b).bottom = <<close>> /\ FrameOf(b).most = Len(body) /\ FrameOf(b).header = 1
    BY <1>5 DEF FrameOf, FencedFrame, Frame, Inner
  <2> HIDE DEF close
  <2> QED
    BY <1>1, <1>3, <1>4, <1>5, <2>1, <2>2
<1>6. CASE b.kind \notin {"code", "formula"} /\ b.kind # "table"
  <2>1. /\ FrameOf(b).top = <<>> /\ FrameOf(b).rows = body
        /\ FrameOf(b).bottom = <<>> /\ FrameOf(b).most = Len(body) /\ FrameOf(b).header = 1
    BY <1>6 DEF FrameOf, LinesFrame, Frame
  <2> QED
    BY <1>1, <1>6, <2>1
<1>7. CASE b.kind = "table" /\ Len(body) >= 2 /\ body[2].k = "divider"
  <2> DEFINE rows == SubSeq(body, 3, Len(body))
  <2>1. /\ FrameOf(b).top = SubSeq(body, 1, 2) /\ FrameOf(b).rows = Only(rows, {l \in LineTypes : ~IsBlank(l)})
        /\ FrameOf(b).bottom = <<>> /\ FrameOf(b).most = MaxBlocks - 1 /\ FrameOf(b).header = 1
    BY <1>7 DEF FrameOf, TableFrame, Frame
  <2>2. rows \in Seq(LineTypes)
    <3>1. 3 \in 2 .. 3 /\ 3 <= Len(body) + 1
      BY <1>7, <1>1
    <3> HIDE DEF body
    <3> QED
      BY <1>1, <3>1, InnerType
  <2>3. SubSeq(body, 1, 2) \in Seq(LineTypes)
    BY <1>1, <1>7
  <2> HIDE DEF rows
  <2>4. Only(rows, {l \in LineTypes : ~IsBlank(l)}) \in Seq(LineTypes)
    BY <2>2, OnlyType
  <2> QED
    BY <1>2, <1>7, <2>1, <2>3, <2>4
<1>8. CASE b.kind = "table" /\ ~(Len(body) >= 2 /\ body[2].k = "divider")
  <2> DEFINE rows == SubSeq(body, 2, Len(body) - 1)
  <2>1. /\ FrameOf(b).top = <<Head(body)>> /\ FrameOf(b).rows = Only(rows, {l \in LineTypes : ~IsBlank(l)})
        /\ FrameOf(b).bottom = <<Last(body)>> /\ FrameOf(b).most = MaxBlocks /\ FrameOf(b).header = 0
    BY <1>8 DEF FrameOf, TableFrame, Frame, Inner
  <2> HIDE DEF rows
  <2>2. Only(rows, {l \in LineTypes : ~IsBlank(l)}) \in Seq(LineTypes)
    BY <1>3, OnlyType DEF rows
  <2> QED
    BY <1>2, <1>4, <1>8, <2>1, <2>2
<1> QED
  BY <1>5, <1>6, <1>7, <1>8

(* A sequence of one element.                                              *)
LEMMA OneElement ==
  ASSUME NEW A, NEW c \in Seq(A), Len(c) = 1
  PROVE  c[1] \in A /\ c = <<c[1]>> /\ c # <<>>
<1>1. c # <<>>
  <2>1. Len(<<>>) = 0
    OBVIOUS
  <2> QED
    BY <2>1
<1>2. c[1] \in A
  <2>1. 1 \in 1 .. Len(c)
    OBVIOUS
  <2> QED
    BY <2>1
<1>3. <<c[1]>> \in Seq(A) /\ Len(<<c[1]>>) = 1 /\ <<c[1]>>[1] = c[1]
  BY <1>2
<1>4. \A i \in 1 .. 1 : c[i] = <<c[1]>>[i]
  BY <1>3
<1>5. c = <<c[1]>>
  BY <1>3, <1>4, SeqEqual
<1> QED
  BY <1>1, <1>2, <1>5

(* If every row fits alone, every chunk fits, and the chunks are all the   *)
(* rows.                                                                   *)
LEMMA ChunksFit ==
  ASSUME NEW f, f.rows \in Seq(LineTypes), Budget(f) \in Nat, f.most \in Nat, f.most >= 1,
         \A l \in ToSet(f.rows) : l.n <= Budget(f)
  PROVE  /\ Chunks(f) \in Seq(Seq(LineTypes)) /\ FlattenSeq(Chunks(f)) = f.rows
         /\ \A k \in DOMAIN Chunks(f) :
              Chunks(f)[k] # <<>> /\ Chars(Chunks(f)[k]) <= Budget(f) /\ Len(Chunks(f)[k]) <= f.most
<1> DEFINE A == {l \in LineTypes : l.n <= Budget(f)}
           S == Small(f)
           cs == Chunks(f)
<1>1. f.rows \in Seq(A)
  <2>1. \A k \in 1 .. Len(f.rows) : f.rows[k] \in A
    <3> TAKE k \in 1 .. Len(f.rows)
    <3>1. f.rows[k] \in LineTypes /\ f.rows[k] \in ToSet(f.rows)
      BY DEF ToSet
    <3> QED
      BY <3>1
  <2> HIDE DEF A
  <2> QED
    BY <2>1
<1>2. /\ cs \in Seq(Seq(A)) /\ FlattenSeq(cs) = f.rows
      /\ \A k \in DOMAIN cs : cs[k] # <<>> /\ (Len(cs[k]) = 1 \/ cs[k] \in S)
  <2> HIDE DEF A, S
  <2> QED
    BY <1>1, GatherRules DEF Chunks, S
<1> HIDE DEF cs
<1>3. Seq(A) \subseteq Seq(LineTypes)
  OBVIOUS
<1>4. cs \in Seq(Seq(LineTypes))
  <2> DEFINE P == Seq(A)
             Q == Seq(LineTypes)
  <2>1. cs \in Seq(P) /\ P \subseteq Q
    BY <1>2, <1>3
  <2> HIDE DEF P, Q
  <2>2. cs \in Seq(Q)
    BY <2>1
  <2> QED
    BY <2>2 DEF Q
<1>5. ASSUME NEW k \in DOMAIN cs PROVE Chars(cs[k]) <= Budget(f) /\ Len(cs[k]) <= f.most
  <2>1. cs[k] \in Seq(A)
    BY <1>2
  <2>2. CASE cs[k] \in S
    BY <2>2 DEF Small
  <2>3. CASE Len(cs[k]) = 1
    <3> DEFINE c == cs[k]
               x == c[1]
    <3>1. c \in Seq(A) /\ Len(c) = 1 /\ c \in Seq(LineTypes)
      BY <1>3, <2>1, <2>3
    <3> HIDE DEF c, A
    <3>2. x \in A /\ c = <<x>> /\ c # <<>>
      BY <3>1, OneElement
    <3> HIDE DEF x
    <3>3. x \in LineTypes /\ x.n \in Nat /\ x.n <= Budget(f)
      BY <3>2, LineType DEF A
    <3>4. [k2 \in DOMAIN c |-> c[k2].n] = <<x.n>>
      <4>1. DOMAIN c = 1 .. 1 /\ c[1] = x
        BY <3>2
      <4>2. \A k2 \in 1 .. 1 : k2 = 1
        OBVIOUS
      <4>3. [k2 \in DOMAIN c |-> c[k2].n] = [k2 \in 1 .. 1 |-> x.n]
        BY <4>1, <4>2
      <4> QED
        BY <4>3
    <3>5. Chars(c) = x.n + 0
      BY <3>1, <3>2, <3>3, <3>4, TotalOne DEF Chars
    <3> QED
      BY <3>1, <3>3, <3>5 DEF c
  <2> QED
    BY <1>2, <2>2, <2>3
<1> QED
  BY <1>2, <1>4, <1>5 DEF cs

(* A block that a message may carry, one of those of source or a piece.    *)
Carried(all) ==
  {b \in BlockTypes : /\ Chars(b.body) <= MaxChars /\ b.media <= MaxMedia
                      /\ b.depth <= MaxDepth /\ b.cols <= MaxCols
                      /\ b.count <= MaxBlocks \/ (b.kind = "table" /\ b \in all)
                      /\ IsHtml(b) => \A k \in DOMAIN b.body : b.body[k].cells <= MaxCols
                      /\ RealRows(b) \in Nat /\ (RealRows(b) <= b.count \/ (Crowded(b) /\ b \notin all))}
Sound(b) == ~Invalid(b) /\ ~SplitPanics(b) /\ ~SplitFails(b)
Whole == {b \in BlockTypes : /\ Len(b.body) > 0 /\ (b.kind # "table" => b.count = 1)
                             /\ IsHtml(b) => b.count = Rows(b.body) /\ b.cols = Columns(b.body)}

(* The limits are positive numbers.                                        *)
LEMMA Limits == MaxChars \in Nat /\ MaxBlocks \in Nat /\ MaxDepth \in Nat /\ MaxMedia \in Nat /\ MaxCols \in Nat
                /\ MaxBlocks > 1 /\ Texts \subseteq Seq(LineTypes)
BY RichTextAssumption

(* The pieces of a block that can be split.                                *)
LEMMA PiecesOf ==
  ASSUME NEW b \in Whole, Oversized(b), Splittable(b)
  PROVE  LET f == FrameOf(b)
         IN /\ Budget(f) \in Nat /\ Chunks(f) \in Seq(Seq(LineTypes)) /\ FlattenSeq(Chunks(f)) = f.rows
            /\ f.top \in Seq(LineTypes) /\ f.rows \in Seq(LineTypes) /\ f.bottom \in Seq(LineTypes)
            /\ f.most \in Nat /\ f.header \in Nat /\ (b.kind = "table" => f.most + f.header <= MaxBlocks)
            /\ \A k \in DOMAIN Chunks(f) :
                 Chunks(f)[k] # <<>> /\ Chars(Chunks(f)[k]) <= Budget(f) /\ Len(Chunks(f)[k]) <= f.most
<1> DEFINE f == FrameOf(b)
<1>1. /\ f.top \in Seq(LineTypes) /\ f.rows \in Seq(LineTypes) /\ f.bottom \in Seq(LineTypes)
      /\ f.most \in Nat /\ f.most >= 1 /\ f.header \in Nat
      /\ b.kind = "table" => f.most + f.header <= MaxBlocks
  BY FrameType DEF Whole
<1>2. Budget(f) > 0 /\ \A l \in ToSet(f.rows) : l.n <= Budget(f)
  BY DEF Splittable
<1> HIDE DEF f
<1>3. Budget(f) \in Nat
  <2> DEFINE around == f.top \o f.bottom
  <2>1. around \in Seq(LineTypes)
    BY <1>1
  <2> HIDE DEF around
  <2>2. Total([k \in DOMAIN around |-> around[k].n]) \in Nat /\ Len(around) \in Nat
    <3>1. [k \in DOMAIN around |-> around[k].n] = Each(Runes, around)
      BY <2>1, CharsOf
    <3>2. Total(Each(Runes, around)) \in Nat
      BY <2>1, CharsOf
    <3>3. Len(around) \in Nat
      BY <2>1
    <3> QED
      BY <3>1, <3>2, <3>3
  <2>3. Budget(f) = MaxChars - Total([k \in DOMAIN around |-> around[k].n]) - Len(around)
    BY DEF Budget, around
  <2> QED
    BY <1>2, <2>2, <2>3, Limits
<1>4. /\ Chunks(f) \in Seq(Seq(LineTypes)) /\ FlattenSeq(Chunks(f)) = f.rows
      /\ \A k \in DOMAIN Chunks(f) :
           Chunks(f)[k] # <<>> /\ Chars(Chunks(f)[k]) <= Budget(f) /\ Len(Chunks(f)[k]) <= f.most
  BY <1>1, <1>2, <1>3, ChunksFit
<1> QED
  BY <1>1, <1>3, <1>4 DEF f

LEMMA OnlyWithin ==
  ASSUME NEW A, NEW S, NEW s \in Seq(A)
  PROVE  ToSet(Only(s, S)) \subseteq ToSet(s)
BY OnlyElements DEF ToSet

(* What a sequence has, what is flattened has.                             *)
LEMMA PartWithin ==
  ASSUME NEW A, NEW s \in Seq(Seq(A)), NEW k \in DOMAIN s
  PROVE  ToSet(s[k]) \subseteq ToSet(FlattenSeq(s))
<1> DEFINE T == Seq(A)
           Held(r) == \A n \in DOMAIN r : ToSet(r[n]) \subseteq ToSet(FlattenSeq(r))
           G == {r \in Seq(T) : Held(r)}
<1>1. <<>> \in G
  <2>1. Held(<<>>) /\ <<>> \in Seq(T)
    OBVIOUS
  <2> QED
    BY <2>1
<1>2. ASSUME NEW r \in Seq(T), NEW x \in T, r \in G PROVE Append(r, x) \in G
  <2> DEFINE q == Append(r, x)
             o == FlattenSeq(r)
  <2>1. q \in Seq(T) /\ Len(r) \in Nat /\ DOMAIN q = 1 .. Len(r) + 1 /\ DOMAIN r = 1 .. Len(r)
        /\ q[Len(r) + 1] = x /\ \A n \in 1 .. Len(r) : q[n] = r[n]
    BY AppendParts
  <2>2. o \in Seq(A) /\ FlattenSeq(q) = o \o x
    BY FlattenType, FlattenAppend
  <2>3. Held(r)
    BY <1>2
  <2> HIDE DEF q, o
  <2>4. \A e \in ToSet(o) \cup ToSet(x) : e \in ToSet(o \o x)
    <3>1. \A n \in 1 .. Len(o) : n \in 1 .. Len(o \o x) /\ (o \o x)[n] = o[n]
      BY <2>2
    <3>2. \A n \in 1 .. Len(x) : Len(o) + n \in 1 .. Len(o \o x) /\ (o \o x)[Len(o) + n] = x[n]
      BY <2>2
    <3>3. DOMAIN o = 1 .. Len(o) /\ DOMAIN x = 1 .. Len(x) /\ DOMAIN (o \o x) = 1 .. Len(o \o x)
      BY <2>2
    <3> QED
      BY <3>1, <3>2, <3>3 DEF ToSet
  <2>5. ASSUME NEW n \in DOMAIN q PROVE ToSet(q[n]) \subseteq ToSet(FlattenSeq(q))
    <3>1. CASE n \in DOMAIN r
      <4>1. ToSet(q[n]) \subseteq ToSet(o)
        BY <2>1, <2>3, <3>1 DEF o
      <4> QED
        BY <2>2, <2>4, <4>1
    <3>2. CASE n \notin DOMAIN r
      <4>1. q[n] = x
        BY <2>1, <3>2
      <4> QED
        BY <2>2, <2>4, <4>1
    <3> QED
      BY <3>1, <3>2
  <2>6. Held(q)
    BY <2>5
  <2> HIDE DEF Held, T
  <2> QED
    BY <2>1, <2>6 DEF q
<1>3. s \in G
  <2> HIDE DEF G
  <2>1. s \in Seq(T)
    OBVIOUS
  <2> HIDE DEF T
  <2>2. Seq(T) \subseteq G
    BY <1>1, <1>2, SeqInduction
  <2> QED
    BY <2>1, <2>2
<1> QED
  BY <1>3

(* What frames the rows of a table are lines of it, <table> first.         *)
LEMMA TableFrames ==
  ASSUME NEW b \in Whole, b.kind = "table", Splittable(b)
  PROVE  LET f == FrameOf(b)
         IN /\ f.top # <<>> /\ f.top[1] = b.body[1]
            /\ \A l \in ToSet(f.top) \cup ToSet(f.rows) \cup ToSet(f.bottom) : l \in ToSet(b.body)
            /\ \/ Len(f.top) = 1 /\ Len(f.bottom) = 1 /\ f.header = 0
               \/ Len(f.top) = 2 /\ f.bottom = <<>> /\ f.header = 1
<1> DEFINE body == b.body
<1>1. body \in Seq(LineTypes) /\ Len(body) \in Nat /\ Len(body) > 0
  BY DEF Whole, BlockTypes
<1>2. Len(body) >= 3 \/ (Len(body) = 2 /\ body[2].k = "divider")
  BY DEF Splittable
<1>3. \A i \in 1 .. Len(body) : body[i] \in ToSet(body)
  BY <1>1 DEF ToSet
<1>4. CASE Len(body) >= 2 /\ body[2].k = "divider"
  <2> DEFINE rows == SubSeq(body, 3, Len(body))
             top == SubSeq(body, 1, 2)
  <2>1. /\ FrameOf(b).top = top /\ FrameOf(b).rows = Only(rows, {l \in LineTypes : ~IsBlank(l)})
        /\ FrameOf(b).bottom = <<>> /\ FrameOf(b).header = 1
    BY <1>4 DEF FrameOf, TableFrame, Frame
  <2>2. top \in Seq(LineTypes) /\ Len(top) = 2 /\ top # <<>> /\ top[1] = body[1] /\ top[2] = body[2]
    BY <1>1, <1>4
  <2>3. rows \in Seq(LineTypes)
    <3>1. 3 \in 2 .. 3 /\ 3 <= Len(body) + 1
      BY <1>4, <1>1
    <3> HIDE DEF body
    <3> QED
      BY <1>1, <3>1, InnerType
  <2>4. \A l \in ToSet(rows) : l \in ToSet(body)
    <3> SUFFICES ASSUME NEW j \in DOMAIN rows PROVE rows[j] \in ToSet(body)
      BY DEF ToSet
    <3>1. rows[j] = body[j + 2] /\ j + 2 \in 1 .. Len(body)
      BY <1>1, <1>4
    <3> QED
      BY <1>3, <3>1
  <2>5. ToSet(Only(rows, {l \in LineTypes : ~IsBlank(l)})) \subseteq ToSet(rows)
    <3> HIDE DEF rows
    <3> QED
      BY <2>3, OnlyWithin
  <2>6. \A l \in ToSet(top) : l \in ToSet(body)
    <3>1. \A j \in DOMAIN top : j = 1 \/ j = 2
      BY <2>2
    <3>2. 1 \in 1 .. Len(body) /\ 2 \in 1 .. Len(body)
      BY <1>1, <1>4
    <3> QED
      BY <1>3, <2>2, <3>1, <3>2 DEF ToSet
  <2>7. \A l \in ToSet(<<>>) : l \in ToSet(body)
    BY DEF ToSet
  <2> HIDE DEF rows, top
  <2> QED
    BY <2>1, <2>2, <2>4, <2>5, <2>6, <2>7
<1>5. CASE ~(Len(body) >= 2 /\ body[2].k = "divider")
  <2> DEFINE rows == SubSeq(body, 2, Len(body) - 1)
             top == <<Head(body)>>
             bottom == <<Last(body)>>
  <2>1. /\ FrameOf(b).top = top /\ FrameOf(b).rows = Only(rows, {l \in LineTypes : ~IsBlank(l)})
        /\ FrameOf(b).bottom = bottom /\ FrameOf(b).header = 0
    BY <1>5 DEF FrameOf, TableFrame, Frame, Inner
  <2>2. Head(body) = body[1] /\ Last(body) = body[Len(body)]
    BY <1>1 DEF Last
  <2>3. top # <<>> /\ top[1] = body[1] /\ Len(top) = 1 /\ Len(bottom) = 1
    BY <2>2
  <2>4. Len(body) >= 3
    BY <1>1, <1>2, <1>5
  <2>5. rows \in Seq(LineTypes)
    <3>1. 2 \in 2 .. 3 /\ 2 <= Len(body) + 1
      BY <1>1
    <3> HIDE DEF body
    <3> QED
      BY <1>1, <3>1, InnerType
  <2>6. \A l \in ToSet(rows) : l \in ToSet(body)
    <3> SUFFICES ASSUME NEW j \in DOMAIN rows PROVE rows[j] \in ToSet(body)
      BY DEF ToSet
    <3>1. rows[j] = body[j + 1] /\ j + 1 \in 1 .. Len(body)
      BY <1>1, <2>4
    <3> QED
      BY <1>3, <3>1
  <2>7. ToSet(Only(rows, {l \in LineTypes : ~IsBlank(l)})) \subseteq ToSet(rows)
    <3> HIDE DEF rows
    <3> QED
      BY <2>5, OnlyWithin
  <2>8. (\A l \in ToSet(top) : l = Head(body)) /\ \A l \in ToSet(bottom) : l = Last(body)
    BY DEF ToSet
  <2>9. Head(body) \in ToSet(body) /\ Last(body) \in ToSet(body)
    BY <1>1, <1>3, <2>2
  <2> HIDE DEF rows, top, bottom
  <2> QED
    BY <2>1, <2>3, <2>6, <2>7, <2>8, <2>9
<1> QED
  BY <1>4, <1>5

(* Three sequences, one after the other.                                   *)
Chained(s, x, y, z) ==
  /\ Len(s) > 0 /\ s[1] = x[1] /\ Last(s) = s[Len(s)] /\ Last(s) \in ToSet(s)
  /\ \A k \in 1 .. Len(x) : s[k] = x[k]
  /\ \A k \in 1 .. Len(y) : s[Len(x) + k] = y[k]
  /\ \A k \in 1 .. Len(z) : s[Len(x) + Len(y) + k] = z[k]
  /\ \A k \in 1 .. Len(s) : s[k] \in ToSet(s) /\ s[k] \in ToSet(x) \cup ToSet(y) \cup ToSet(z)

LEMMA ThreeParts ==
  ASSUME NEW A, NEW x \in Seq(A), NEW y \in Seq(A), NEW z \in Seq(A), x # <<>>
  PROVE  Chained((x \o y) \o z, x, y, z)
<1> DEFINE s == (x \o y) \o z
<1>1. /\ s \in Seq(A) /\ Len(s) = Len(x) + Len(y) + Len(z) /\ Len(x) > 0
      /\ Len(x) \in Nat /\ Len(y) \in Nat /\ Len(z) \in Nat
  OBVIOUS
<1>2. /\ \A k \in 1 .. Len(x) : s[k] = x[k]
      /\ \A k \in 1 .. Len(y) : s[Len(x) + k] = y[k]
      /\ \A k \in 1 .. Len(z) : s[Len(x) + Len(y) + k] = z[k]
  OBVIOUS
<1>3. DOMAIN x = 1 .. Len(x) /\ DOMAIN y = 1 .. Len(y) /\ DOMAIN z = 1 .. Len(z) /\ DOMAIN s = 1 .. Len(s)
  BY <1>1
<1> HIDE DEF s
<1>4. ASSUME NEW k \in 1 .. Len(s) PROVE s[k] \in ToSet(x) \cup ToSet(y) \cup ToSet(z)
  <2>1. CASE k \in 1 .. Len(x)
    BY <1>2, <1>3, <2>1 DEF ToSet
  <2>2. CASE k > Len(x) /\ k <= Len(x) + Len(y)
    <3>1. k - Len(x) \in 1 .. Len(y) /\ Len(x) + (k - Len(x)) = k
      BY <1>1, <2>2
    <3>2. s[k] = y[k - Len(x)]
      BY <1>2, <3>1
    <3> QED
      BY <1>3, <3>1, <3>2 DEF ToSet
  <2>3. CASE k > Len(x) + Len(y)
    <3>1. k - Len(x) - Len(y) \in 1 .. Len(z) /\ Len(x) + Len(y) + (k - Len(x) - Len(y)) = k
      BY <1>1, <2>3
    <3>2. s[k] = z[k - Len(x) - Len(y)]
      BY <1>2, <3>1
    <3> QED
      BY <1>3, <3>1, <3>2 DEF ToSet
  <2> QED
    BY <1>1, <2>1, <2>2, <2>3
<1>5. 1 \in 1 .. Len(x) /\ Len(s) \in 1 .. Len(s) /\ Last(s) = s[Len(s)]
  BY <1>1 DEF Last
<1>6. \A k \in 1 .. Len(s) : s[k] \in ToSet(s)
  BY <1>3 DEF ToSet
<1>7. Len(s) > 0 /\ s[1] = x[1] /\ Last(s) \in ToSet(s)
  BY <1>1, <1>2, <1>5, <1>6
<1> HIDE DEF s
<1>8. \A k \in 1 .. Len(s) : s[k] \in ToSet(s) /\ s[k] \in ToSet(x) \cup ToSet(y) \cup ToSet(z)
  BY <1>4, <1>6
<1>9. Chained(s, x, y, z)
  BY <1>2, <1>5, <1>7, <1>8 DEF Chained
<1> QED
  BY <1>9 DEF s

(* The rows of a piece are those the code counts, unless it is crowded.    *)
LEMMA PieceRows ==
  ASSUME NEW top \in Seq(LineTypes), NEW c \in Seq(LineTypes), NEW bottom \in Seq(LineTypes), NEW header \in Nat,
         c # <<>>, top # <<>>,
         \/ Len(top) = 1 /\ Len(bottom) = 1 /\ header = 0
         \/ Len(top) = 2 /\ bottom = <<>> /\ header = 1,
         LET body == top \o c \o bottom
         IN body[1].rows = 0 /\ Last(body).rows = 0 /\ \A l \in ToSet(body) : l.rows <= 1
  PROVE  Rows(top \o c \o bottom) <= Len(c) + header
<1> DEFINE body == (top \o c) \o bottom
<1>1. /\ body \in Seq(LineTypes) /\ Len(body) = Len(top) + Len(c) + Len(bottom) /\ top \o c \in Seq(LineTypes)
      /\ Len(top) \in Nat /\ Len(c) \in Nat /\ Len(bottom) \in Nat /\ Len(top) > 0 /\ Len(c) > 0
  OBVIOUS
<1>2. /\ \A k \in 1 .. Len(top) : body[k] = top[k]
      /\ \A k \in 1 .. Len(c) : body[Len(top) + k] = c[k]
      /\ \A k \in 1 .. Len(bottom) : body[Len(top) + Len(c) + k] = bottom[k]
      /\ Last(body) = body[Len(body)] /\ \A k \in 1 .. Len(body) : body[k] \in ToSet(body)
  <2>1. Chained(body, top, c, bottom)
    BY ThreeParts
  <2> HIDE DEF body
  <2> QED
    BY <2>1 DEF Chained
<1>3. body[1].rows = 0 /\ Last(body).rows = 0 /\ \A l \in ToSet(body) : l.rows <= 1
  OBVIOUS
<1>4. Rows(body) = Rows(top) + Rows(c) + Rows(bottom)
  BY <1>1, RowsConcat
<1> HIDE DEF body
<1>a. \A k \in 1 .. Len(body) : body[k].rows <= 1
  BY <1>2, <1>3
<1>5. Rows(top) \in Nat /\ Rows(c) \in Nat /\ Rows(bottom) \in Nat
  BY RowsOf
<1>6. Rows(c) <= Len(c)
  <2>1. \A k \in DOMAIN c : c[k].rows <= 1
    <3> TAKE k \in DOMAIN c
    <3>1. k \in 1 .. Len(c) /\ Len(top) + k \in 1 .. Len(body)
      BY <1>1
    <3> QED
      BY <1>2, <1>a, <3>1
  <2> QED
    BY <2>1, RowsAtMost
<1>7. \A l \in LineTypes : Rows(<<l>>) = l.rows
  <2> TAKE l \in LineTypes
  <2>1. l.rows \in Nat
    BY LineType
  <2>2. [k \in DOMAIN <<l>> |-> <<l>>[k].rows] = <<l.rows>>
    OBVIOUS
  <2> QED
    BY <2>1, <2>2, TotalOne DEF Rows
<1>8. top[1] \in LineTypes /\ top[1].rows = 0
  <2>1. 1 \in 1 .. Len(top)
    BY <1>1
  <2> QED
    BY <1>2, <1>3, <2>1
<1>9. CASE Len(top) = 1 /\ Len(bottom) = 1 /\ header = 0
  <2>1. top = <<top[1]>> /\ bottom = <<bottom[1]>> /\ bottom[1] \in LineTypes
    BY <1>9, OneElement
  <2>2. bottom[1].rows = 0
    <3>1. 1 \in 1 .. Len(bottom) /\ Len(top) + Len(c) + 1 = Len(body)
      BY <1>1, <1>9
    <3> QED
      BY <1>2, <1>3, <3>1
  <2>3. Rows(top) = 0 /\ Rows(bottom) = 0
    <3>1. Rows(<<top[1]>>) = top[1].rows /\ Rows(<<bottom[1]>>) = bottom[1].rows
      BY <1>7, <1>8, <2>1
    <3> QED
      BY <1>8, <2>1, <2>2, <3>1
  <2> QED
    BY <1>1, <1>4, <1>5, <1>6, <1>9, <2>3 DEF body
<1>10. CASE Len(top) = 2 /\ bottom = <<>> /\ header = 1
  <2> DEFINE x == top[1]
             y == top[2]
  <2>0. x \in LineTypes /\ y \in LineTypes
    BY SMTT(40), <1>10
  <2>1. top = <<x>> \o <<y>> /\ <<x>> \in Seq(LineTypes) /\ <<y>> \in Seq(LineTypes)
    <3>1. <<x>> \in Seq(LineTypes) /\ <<y>> \in Seq(LineTypes)
      BY <2>0
    <3> DEFINE t == <<x>> \o <<y>>
    <3>2. t \in Seq(LineTypes) /\ Len(t) = 2 /\ t[1] = x /\ t[2] = y
      BY <3>1
    <3> HIDE DEF t
    <3>3. \A k \in 1 .. 2 : top[k] = t[k]
      BY <3>2
    <3> QED
      BY <1>10, <3>1, <3>2, <3>3, SeqEqual DEF t
  <2>2. y.rows <= 1 /\ y.rows \in Nat
    <3>1. 2 \in 1 .. Len(top) /\ 2 \in 1 .. Len(body)
      BY <1>1, <1>10
    <3>2. y.rows <= 1
      BY <1>2, <1>a, <3>1
    <3> QED
      BY <2>0, <3>2, LineType
  <2>3. Rows(top) = Rows(<<x>>) + Rows(<<y>>)
    BY <2>1, RowsConcat
  <2>4. Rows(<<x>>) = 0 /\ Rows(<<y>>) = y.rows
    BY <1>7, <1>8, <2>0
  <2>5. Rows(bottom) = 0
    <3>1. [k \in DOMAIN bottom |-> bottom[k].rows] = <<>>
      BY <1>10
    <3>2. <<>> \in Seq(Nat)
      OBVIOUS
    <3> QED
      BY <3>1, <3>2, TotalType DEF Rows
  <2> HIDE DEF x, y
  <2>6. Rows(top) <= 1
    BY <2>2, <2>3, <2>4
  <2> QED
    BY <1>1, <1>4, <1>5, <1>6, <1>10, <2>5, <2>6 DEF body
<1> QED
  BY <1>9, <1>10

(* Splitting a sound block leaves blocks that one message can carry; the   *)
(* exception is a table that stays as it was.                              *)
LEMMA SplitCarried ==
  ASSUME NEW b \in Whole, Sound(b), NEW all \in SUBSET Whole, b \in all
  PROVE  SplitBlock(b) \in Seq(Carried(all))
<1>1. /\ b \in BlockTypes /\ b.body \in Seq(LineTypes) /\ b.kind \in Kinds /\ b.depth \in Nat /\ b.count \in Nat
      /\ b.media \in Nat /\ b.cols \in Nat /\ (b.kind # "table" => b.count = 1)
  BY DEF Whole, BlockTypes
<1>2. b.depth <= MaxDepth /\ b.cols <= MaxCols /\ b.media <= MaxMedia
  BY <1>1, Limits DEF Sound, Invalid
<1>a. IsHtml(b) => \A k \in DOMAIN b.body : b.body[k].cells <= MaxCols
  <2> SUFFICES ASSUME IsHtml(b), NEW k \in DOMAIN b.body PROVE b.body[k].cells <= MaxCols
    OBVIOUS
  <2>1. b.cols = Columns(b.body)
    BY DEF Whole
  <2>2. b.body[k].cells <= Columns(b.body) /\ b.body[k] \in LineTypes
    BY <1>1, ColumnsType
  <2>3. b.body[k].cells \in Nat
    BY <2>2, LineType
  <2> QED
    BY <1>1, <1>2, <2>1, <2>2, <2>3, Limits
<1>b. ASSUME NEW x \in all PROVE RealRows(x) \in Nat /\ RealRows(x) <= x.count
  <2>1. x \in BlockTypes /\ (IsHtml(x) => x.count = Rows(x.body))
    BY DEF Whole
  <2>2. x.count \in Nat
    BY <2>1 DEF BlockTypes
  <2> QED
    BY <2>1, <2>2 DEF RealRows
<1>3. CASE ~Oversized(b)
  <2>1. Chars(b.body) <= MaxChars
    BY <1>1, <1>3, Limits, CharsOf DEF Oversized
  <2>2. b.count <= MaxBlocks \/ b.kind = "table"
    BY <1>1, Limits
  <2>3. b \in Carried(all)
    BY <1>1, <1>2, <1>a, <1>b, <2>1, <2>2 DEF Carried
  <2> QED
    BY <1>3, <2>3 DEF SplitBlock
<1>4. CASE Oversized(b)
  <2> DEFINE f == FrameOf(b)
             cs == Chunks(f)
             piece(c) == Block(b.kind, f.top \o c \o f.bottom, b.depth,
                               IF b.kind = "table" THEN Len(c) + f.header ELSE 1, 0, b.cols)
  <2>0. Splittable(b)
    BY <1>4 DEF Sound, SplitFails
  <2>1. /\ Budget(f) \in Nat /\ cs \in Seq(Seq(LineTypes))
        /\ f.top \in Seq(LineTypes) /\ f.rows \in Seq(LineTypes) /\ f.bottom \in Seq(LineTypes)
        /\ f.most \in Nat /\ f.header \in Nat /\ (b.kind = "table" => f.most + f.header <= MaxBlocks)
    BY <1>4, <2>0, PiecesOf
  <2>2. \A k \in DOMAIN cs : cs[k] # <<>> /\ Chars(cs[k]) <= Budget(f) /\ Len(cs[k]) <= f.most
    BY <1>4, <2>0, PiecesOf
  <2>3. SplitBlock(b) = [k \in DOMAIN cs |-> piece(cs[k])]
    BY <1>4 DEF SplitBlock, Pieces
  <2> HIDE DEF f, cs
  <2>4. ASSUME NEW k \in DOMAIN cs PROVE piece(cs[k]) \in Carried(all)
    <3> DEFINE c == cs[k]
               body == f.top \o c \o f.bottom
               count == IF b.kind = "table" THEN Len(c) + f.header ELSE 1
    <3>1. c \in Seq(LineTypes) /\ c # <<>> /\ Chars(c) <= Budget(f) /\ Len(c) <= f.most /\ Len(c) \in Nat
      <4>1. c \in Seq(LineTypes)
        BY <2>1
      <4> QED
        BY <2>2, <4>1
    <3> HIDE DEF c
    <3>2. body \in Seq(LineTypes)
      BY <2>1, <3>1
    <3>3. Chars(body) <= MaxChars
      <4> DEFINE around == f.top \o f.bottom
                 total == Total([j \in DOMAIN around |-> around[j].n])
      <4>1. around \in Seq(LineTypes)
        BY <2>1
      <4>2. Chars(body) = Chars(c) + total + Len(around)
        BY <2>1, <3>1, PieceChars
      <4>3. Budget(f) = MaxChars - total - Len(around)
        BY DEF Budget
      <4> HIDE DEF around
      <4>4. total \in Nat /\ Len(around) \in Nat
        <5>1. [j \in DOMAIN around |-> around[j].n] = Each(Runes, around)
          BY <4>1, CharsOf
        <5>2. Total(Each(Runes, around)) \in Nat
          BY <4>1, CharsOf
        <5>3. Len(around) \in Nat
          BY <4>1
        <5> QED
          BY <5>1, <5>2, <5>3
      <4>5. Chars(c) \in Nat
        BY <3>1, CharsOf
      <4> HIDE DEF total, body
      <4> QED
        BY <3>1, <4>2, <4>3, <4>4, <4>5, Limits
    <3>4. count \in Nat /\ count <= MaxBlocks
      <4>1. b.kind = "table" => Len(c) + f.header \in Nat /\ Len(c) + f.header <= MaxBlocks
        BY <2>1, <3>1, Limits
      <4>2. 1 <= MaxBlocks
        BY Limits
      <4> QED
        BY <4>1, <4>2
    <3>5. piece(c) = [kind |-> b.kind, body |-> body, depth |-> b.depth, count |-> count, media |-> 0, cols |-> b.cols]
      BY DEF Block
    <3>6. 0 <= MaxMedia
      BY Limits
    <3>9. b.kind = "table" =>
            /\ f.top # <<>> /\ f.top[1] = b.body[1]
            /\ \A l \in ToSet(f.top) \cup ToSet(f.rows) \cup ToSet(f.bottom) : l \in ToSet(b.body)
            /\ \/ Len(f.top) = 1 /\ Len(f.bottom) = 1 /\ f.header = 0
               \/ Len(f.top) = 2 /\ f.bottom = <<>> /\ f.header = 1
      BY <2>0, TableFrames DEF f
    <3>20. b.kind = "table" =>
             /\ body[1] = f.top[1] /\ body[1] \in ToSet(body) /\ Last(body) \in ToSet(body)
             /\ \A j \in 1 .. Len(body) : body[j] \in ToSet(f.top) \cup ToSet(c) \cup ToSet(f.bottom)
      <4> SUFFICES ASSUME b.kind = "table"
                   PROVE  /\ body[1] = f.top[1] /\ body[1] \in ToSet(body) /\ Last(body) \in ToSet(body)
                          /\ \A j \in 1 .. Len(body) : body[j] \in ToSet(f.top) \cup ToSet(c) \cup ToSet(f.bottom)
        OBVIOUS
      <4>1. /\ body[1] = f.top[1] /\ Last(body) \in ToSet(body) /\ Len(body) > 0
            /\ \A k2 \in 1 .. Len(body) :
                 body[k2] \in ToSet(body) /\ body[k2] \in ToSet(f.top) \cup ToSet(c) \cup ToSet(f.bottom)
        <5>1. Chained((f.top \o c) \o f.bottom, f.top, c, f.bottom)
          BY <2>1, <3>1, <3>9, ThreeParts
        <5>2. Chained(body, f.top, c, f.bottom)
          BY <5>1
        <5> HIDE DEF body
        <5> QED
          BY <5>2 DEF Chained
      <4> HIDE DEF body
      <4>2. 1 \in 1 .. Len(body)
        BY <3>2, <4>1
      <4> QED
        BY <4>1, <4>2
    <3>10. ASSUME b.kind = "table" PROVE body[1] = b.body[1] /\ \A j \in DOMAIN body : body[j] \in ToSet(b.body)
      <4>3. \A x \in ToSet(c) : x \in ToSet(f.rows)
        <5>1. FlattenSeq(cs) = f.rows
          BY <1>4, <2>0, PiecesOf DEF cs, f
        <5> HIDE DEF cs
        <5>2. ToSet(cs[k]) \subseteq ToSet(FlattenSeq(cs))
          BY <2>1, PartWithin
        <5> QED
          BY <5>1, <5>2 DEF c
      <4>4. DOMAIN body = 1 .. Len(body)
        BY <3>2
      <4> HIDE DEF body
      <4> QED
        BY <3>9, <3>10, <3>20, <4>3, <4>4
    <3>11. ASSUME b.kind = "table", b.body[1].k = "topen" PROVE \A j \in DOMAIN body : body[j].cells <= MaxCols
      <4>1. IsHtml(b)
        BY <3>11 DEF IsHtml
      <4> HIDE DEF body
      <4> QED
        BY <1>a, <3>10, <3>11, <4>1 DEF ToSet
    <3>12. ASSUME b.kind = "table", body[1].rows = 0, Last(body).rows = 0, \A l \in ToSet(body) : l.rows <= 1
           PROVE  Rows(body) <= Len(c) + f.header
      BY <2>1, <3>1, <3>9, <3>12, PieceRows
    <3>13. Rows(body) \in Nat /\ \A l \in ToSet(body) : l.rows \in Nat
      <4> HIDE DEF body
      <4>1. \A l \in ToSet(body) : l \in LineTypes
        BY <3>2 DEF ToSet
      <4> QED
        BY <3>2, <4>1, RowsOf, LineType
    <3> HIDE DEF body
    <3>15. piece(c).kind = b.kind /\ piece(c).body = body /\ piece(c).count = count /\ piece(c).cols = b.cols
      BY <3>5
    <3>16. IsHtml(piece(c)) => b.kind = "table" /\ b.body[1].k = "topen"
      BY <3>10, <3>15 DEF IsHtml
    <3> HIDE DEF piece
    <3>17. RealRows(piece(c)) \in Nat
      BY <3>4, <3>13, <3>15 DEF RealRows
    <3>18. RealRows(piece(c)) <= count \/ (Crowded(piece(c)) /\ piece(c) \notin all)
      <4>1. CASE piece(c) \in all
        BY <1>b, <3>15, <4>1
      <4>2. CASE ~IsHtml(piece(c))
        BY <3>4, <3>15, <4>2 DEF RealRows
      <4>3. CASE IsHtml(piece(c)) /\ Crowded(piece(c)) /\ piece(c) \notin all
        BY <4>3
      <4>4. CASE IsHtml(piece(c)) /\ ~Crowded(piece(c))
        <5>1. ~(body[1].rows > 0 \/ Last(body).rows > 0 \/ \E l \in ToSet(body) : l.rows > 1)
          BY <3>15, <4>4 DEF Crowded
        <5>2. body[1].rows = 0 /\ Last(body).rows = 0 /\ \A l \in ToSet(body) : l.rows <= 1
          BY <3>13, <3>16, <3>20, <4>4, <5>1
        <5>3. Rows(body) <= Len(c) + f.header
          BY <3>12, <3>16, <4>4, <5>2
        <5>4. count = Len(c) + f.header /\ RealRows(piece(c)) = Rows(body)
          BY <3>15, <3>16, <4>4 DEF RealRows, count
        <5> QED
          BY <5>3, <5>4
      <4> QED
        BY <4>1, <4>2, <4>3, <4>4
    <3> HIDE DEF count
    <3>19. IsHtml(piece(c)) => \A j \in DOMAIN piece(c).body : piece(c).body[j].cells <= MaxCols
      BY <3>11, <3>15, <3>16
    <3>7. piece(c) \in BlockTypes
      BY <1>1, <3>2, <3>4, <3>5 DEF BlockTypes
    <3>8. piece(c) \in Carried(all)
      BY <1>2, <3>3, <3>4, <3>5, <3>6, <3>7, <3>17, <3>18, <3>19 DEF Carried
    <3> QED
      BY <3>8 DEF c
  <2>5. DOMAIN cs = 1 .. Len(cs) /\ Len(cs) \in Nat
    BY <2>1
  <2> HIDE DEF piece
  <2>6. [k \in DOMAIN cs |-> piece(cs[k])] \in Seq(Carried(all))
    <3> DEFINE Q == Carried(all)
    <3>1. \A k \in 1 .. Len(cs) : piece(cs[k]) \in Q
      BY <2>4, <2>5
    <3> HIDE DEF Q
    <3>2. [k \in 1 .. Len(cs) |-> piece(cs[k])] \in Seq(Q)
      BY <2>5, <3>1
    <3> QED
      BY <2>5, <3>2 DEF Q
  <2> QED
    BY <2>3, <2>6
<1> QED
  BY <1>3, <1>4

(* What is parsed has a body and, but for tables, counts one.              *)
LEMMA ParsedWhole ==
  ASSUME NEW s \in Seq(LineTypes)
  PROVE  ParsedBlocks(s) \in Seq(Whole)
<1>1. BlocksOf(s) \subseteq Whole
  <2> SUFFICES ASSUME NEW i \in 1 .. Len(s) PROVE BlockAt(s, i) \in Whole
    BY DEF BlocksOf, Starts
  <2> DEFINE b == BlockAt(s, i)
  <2>1. /\ b \in BlockTypes /\ b.body = SubSeq(s, i, EndOf(s, i)) /\ (b.kind # "table" => b.count = 1)
        /\ b.kind = "table" /\ s[i].k = "topen" => b.count = Rows(b.body) /\ b.cols = Columns(b.body)
    BY BlockType
  <2>2. Len(SubSeq(s, i, EndOf(s, i))) > 0 /\ SubSeq(s, i, EndOf(s, i))[1] = s[i]
    BY BodyType
  <2> HIDE DEF b
  <2>3. b \in Whole
    BY <2>1, <2>2 DEF Whole, IsHtml
  <2> QED
    BY <2>3 DEF b
<1>2. ParsedBlocks(s) \in Seq(BlocksOf(s))
  BY Parsed
<1> DEFINE P == BlocksOf(s)
           Q == Whole
<1> HIDE DEF P, Q
<1>3. P \subseteq Q /\ ParsedBlocks(s) \in Seq(P)
  BY <1>1, <1>2 DEF P, Q
<1>4. ParsedBlocks(s) \in Seq(Q)
  BY <1>3
<1> QED
  BY <1>4 DEF Q

(* The stages                                                              *)
RichStages == {"raw", "normalized", "parsed", "split", "sent", "unsendable", "panic"}
RichShape ==
  IF part = "rich"
  THEN /\ richStage \in RichStages /\ source \in Texts
       /\ richStage # "raw" => lines = Normalized(source)
       /\ richStage \in {"parsed", "split", "sent"} => blocks = ParsedBlocks(lines)
       /\ richStage \in {"split", "sent"} =>
            /\ \A k \in DOMAIN blocks : Sound(blocks[k])
            /\ parts = [k \in DOMAIN blocks |-> SplitBlock(blocks[k])]
       /\ richStage = "sent" => msgs = Packed(FlattenSeq(parts))
  ELSE richStage = "idle"

(* What the stages keep of the text: each variable is what its stage made  *)
(* of the one before (richRouter.send).                                    *)
LEMMA ShapeKept == Spec => []RichShape
<1>1. Init => RichShape
  BY DEF Init, RichInit, RichShape, RichStages
<1>2. RichShape /\ [Next]_textVars => RichShape'
  <2> SUFFICES ASSUME RichShape, [Next]_textVars PROVE RichShape'
    OBVIOUS
  <2>1. CASE part = "rich" /\ NormalizeRichMarkdown /\ part' = part
    BY <2>1 DEF RichShape, NormalizeRichMarkdown, RichStages
  <2>2. CASE part = "rich" /\ ParseRichBlocks /\ part' = part
    BY <2>2 DEF RichShape, ParseRichBlocks, RichStages
  <2>3. CASE part = "rich" /\ SplitBlocks /\ part' = part
    <3>1. /\ richStage = "parsed" /\ source' = source /\ lines' = lines /\ blocks' = blocks /\ msgs' = msgs
          /\ \/ richStage' \in {"unsendable", "panic"}
             \/ /\ richStage' = "split" /\ parts' = [k \in DOMAIN blocks |-> SplitBlock(blocks[k])]
                /\ ~(\E b \in ToSet(blocks) : Invalid(b))
                /\ {k \in DOMAIN blocks : SplitPanics(blocks[k]) \/ SplitFails(blocks[k])} = {}
      BY <2>3 DEF SplitBlocks
    <3>2. CASE richStage' \in {"unsendable", "panic"}
      BY <2>3, <3>1, <3>2 DEF RichShape, RichStages
    <3>3. CASE richStage' = "split"
      <4>1. \A k \in DOMAIN blocks : Sound(blocks[k])
        BY <3>1, <3>3 DEF Sound, ToSet
      <4> QED
        BY <2>3, <3>1, <3>3, <4>1 DEF RichShape, RichStages
    <3> QED
      BY <3>1, <3>2, <3>3
  <2>4. CASE part = "rich" /\ PackMessages /\ part' = part
    BY <2>4 DEF RichShape, PackMessages, RichStages
  <2>5. CASE UNCHANGED <<part, richVars>>
    BY <2>5 DEF RichShape, richVars
  <2> QED
    BY <2>1, <2>2, <2>3, <2>4, <2>5 DEF Next, RichNext, textVars
<1> QED
  BY <1>1, <1>2, PTL DEF Spec

(* What is sent                                                            *)
LEMMA SentRich ==
  ASSUME RichShape, richStage = "sent"
  PROVE  /\ blocks \in Seq(Whole) /\ (\A k \in DOMAIN blocks : Sound(blocks[k]))
         /\ parts = [k \in DOMAIN blocks |-> SplitBlock(blocks[k])]
         /\ parts \in Seq(Seq(Carried(ToSet(blocks)))) /\ FlattenSeq(parts) \in Seq(Carried(ToSet(blocks)))
         /\ msgs = Gathered(FlattenSeq(parts), Fitting)
<1>1. /\ source \in Texts /\ lines = Normalized(source) /\ blocks = ParsedBlocks(lines)
      /\ \A k \in DOMAIN blocks : Sound(blocks[k])
      /\ parts = [k \in DOMAIN blocks |-> SplitBlock(blocks[k])] /\ msgs = Packed(FlattenSeq(parts))
  BY DEF RichShape
<1>2. source \in Seq(LineTypes)
  BY <1>1, Limits
<1>3. lines \in Seq(LineTypes)
  BY <1>1, <1>2, NormalizedType
<1>4. blocks \in Seq(Whole)
  BY <1>1, <1>3, ParsedWhole
<1> DEFINE Q == Carried(ToSet(blocks))
           T == Seq(Q)
<1>5. \A k \in DOMAIN blocks : SplitBlock(blocks[k]) \in T
  <2> TAKE k \in DOMAIN blocks
  <2>1. blocks[k] \in Whole /\ Sound(blocks[k]) /\ blocks[k] \in ToSet(blocks) /\ ToSet(blocks) \in SUBSET Whole
    BY <1>1, <1>4 DEF ToSet
  <2> QED
    BY <2>1, SplitCarried
<1>6. parts \in Seq(T)
  <2>1. DOMAIN blocks = 1 .. Len(blocks) /\ Len(blocks) \in Nat
    BY <1>4
  <2>2. \A k \in 1 .. Len(blocks) : SplitBlock(blocks[k]) \in T
    BY <1>5, <2>1
  <2> HIDE DEF T
  <2>3. [k \in 1 .. Len(blocks) |-> SplitBlock(blocks[k])] \in Seq(T)
    BY <2>1, <2>2
  <2> QED
    BY <1>1, <2>1, <2>3
<1>7. FlattenSeq(parts) \in Seq(Q)
  <2> HIDE DEF Q
  <2> QED
    BY <1>6, FlattenType
<1> QED
  BY <1>1, <1>4, <1>6, <1>7 DEF Packed

(* The messages carry the parts in order, and each fits or has one block   *)
(* only.                                                                   *)
LEMMA SentGroups ==
  ASSUME RichShape, richStage = "sent"
  PROVE  /\ msgs \in Seq(Seq(Carried(ToSet(blocks)))) /\ FlattenSeq(msgs) = FlattenSeq(parts)
         /\ \A k \in DOMAIN msgs : msgs[k] # <<>> /\ (Len(msgs[k]) = 1 \/ msgs[k] \in Fitting)
<1> DEFINE Q == Carried(ToSet(blocks))
           queue == FlattenSeq(parts)
<1>1. queue \in Seq(Q) /\ msgs = Gathered(queue, Fitting)
  BY SentRich
<1> HIDE DEF Q, queue
<1>2. /\ Gathered(queue, Fitting) \in Seq(Seq(Q)) /\ FlattenSeq(Gathered(queue, Fitting)) = queue
      /\ \A k \in DOMAIN Gathered(queue, Fitting) :
           Gathered(queue, Fitting)[k] # <<>> /\ (Len(Gathered(queue, Fitting)[k]) = 1 \/ Gathered(queue, Fitting)[k] \in Fitting)
  BY <1>1, GatherRules
<1> QED
  BY <1>1, <1>2 DEF Q, queue

(* A message of one block.                                                 *)
LEMMA MessageSums ==
  ASSUME NEW b \in BlockTypes
  PROVE  /\ MsgChars(<<b>>) = Chars(b.body) /\ MsgBlocks(<<b>>) = b.count /\ MsgMedia(<<b>>) = b.media
         /\ RealRows(b) \in Nat => RowsSent(<<b>>) = RealRows(b)
<1>1. b.count \in Nat /\ b.media \in Nat /\ b.body \in Seq(LineTypes)
  BY DEF BlockTypes
<1>2. Chars(b.body) \in Nat
  BY <1>1, CharsOf
<1> DEFINE m == <<b>>
<1>3. DOMAIN m = 1 .. 1 /\ m[1] = b /\ (\A k \in 1 .. 1 : k = 1) /\ Len(m) = 1 /\ m # <<>>
  OBVIOUS
<1> HIDE DEF m
<1>4. /\ [k \in DOMAIN m |-> Chars(m[k].body)] = [k \in 1 .. 1 |-> Chars(b.body)]
      /\ [k \in DOMAIN m |-> m[k].count] = [k \in 1 .. 1 |-> b.count]
      /\ [k \in DOMAIN m |-> m[k].media] = [k \in 1 .. 1 |-> b.media]
      /\ [k \in DOMAIN m |-> RealRows(m[k])] = [k \in 1 .. 1 |-> RealRows(b)]
  BY <1>3
<1>5. \A x \in Nat : [k \in 1 .. 1 |-> x] = <<x>> /\ Total([k \in 1 .. 1 |-> x]) = x
  <2> TAKE x \in Nat
  <2>1. [k \in 1 .. 1 |-> x] = <<x>>
    OBVIOUS
  <2>2. Total(<<x>>) = x
    BY TotalOne
  <2> QED
    BY <2>1, <2>2
<1>6. MsgBlocks(m) = b.count /\ MsgMedia(m) = b.media
  BY <1>1, <1>4, <1>5 DEF MsgBlocks, MsgMedia
<1>7. Total([k \in DOMAIN m |-> Chars(m[k].body)]) = Chars(b.body)
  BY <1>2, <1>4, <1>5
<1>8. MsgChars(m) = Chars(b.body)
  BY <1>2, <1>3, <1>7 DEF MsgChars
<1>9. RealRows(b) \in Nat => RowsSent(m) = RealRows(b)
  BY <1>4, <1>5 DEF RowsSent
<1> QED
  BY <1>6, <1>8, <1>9 DEF m

(* A table whose lines keep the limit, each row on a line, keeps it.       *)
LEMMA OnOneLine ==
  ASSUME NEW b, b.body \in Seq(LineTypes), \A k \in DOMAIN b.body : b.body[k].cells <= MaxCols, ~Spread(b)
  PROVE  NarrowRows(b)
<1> DEFINE body == b.body
<1>1. body \in Seq(LineTypes) /\ Len(body) \in Nat /\ DOMAIN body = 1 .. Len(body)
  OBVIOUS
<1>2. \A k \in DOMAIN body : body[k] \in LineTypes /\ (body[k].rows = 0 => body[k].cells = 0)
  <2> TAKE k \in DOMAIN body
  <2>1. body[k] \in LineTypes /\ body[k] \in ToSet(body)
    BY <1>1 DEF ToSet
  <2>2. body[k].cells \in Nat
    BY <2>1, LineType
  <2> QED
    BY <2>1, <2>2 DEF Spread
<1> SUFFICES ASSUME NEW i \in DOMAIN body, NEW j \in DOMAIN body, i <= j, \A k \in i + 1 .. j : body[k].rows = 0
             PROVE  Cells(SubSeq(body, i, j)) <= MaxCols
  BY DEF NarrowRows
<1> DEFINE t == SubSeq(body, i, j)
<1>3. t \in Seq(LineTypes) /\ Len(t) = j - i + 1 /\ \A k \in 1 .. Len(t) : t[k] = body[i + k - 1]
  BY <1>1
<1>4. \A k \in 2 .. Len(t) : t[k].cells = 0
  <2> TAKE k \in 2 .. Len(t)
  <2>1. k \in 1 .. Len(t) /\ i + k - 1 \in i + 1 .. j /\ i + k - 1 \in DOMAIN body
    BY <1>1, <1>3
  <2>2. body[i + k - 1].rows = 0
    BY <2>1
  <2> QED
    BY <1>2, <1>3, <2>1, <2>2
<1>5. Len(t) > 0 /\ t[1] = body[i]
  <2>1. 1 \in 1 .. Len(t) /\ i + 1 - 1 = i
    BY <1>1, <1>3
  <2> QED
    BY <1>3, <2>1
<1> HIDE DEF t
<1>6. Cells(t) = t[1].cells
  BY <1>3, <1>4, <1>5, CellsFlat
<1> QED
  BY <1>5, <1>6 DEF t

LEMMA RowsNat ==
  ASSUME NEW m \in Seq(BlockTypes), \A b \in ToSet(m) : RealRows(b) \in Nat
  PROVE  RowsSent(m) \in Nat /\ MsgBlocks(m) \in Nat
<1> DEFINE rows == [k \in DOMAIN m |-> RealRows(m[k])]
           counts == [k \in DOMAIN m |-> m[k].count]
<1>1. \A k \in DOMAIN m : RealRows(m[k]) \in Nat /\ m[k].count \in Nat
  <2> TAKE k \in DOMAIN m
  <2>1. m[k] \in BlockTypes /\ m[k] \in ToSet(m)
    BY DEF ToSet
  <2>2. m[k].count \in Nat
    BY <2>1 DEF BlockTypes
  <2> QED
    BY <2>1, <2>2
<1>2. Len(m) \in Nat /\ DOMAIN m = 1 .. Len(m)
  OBVIOUS
<1>3. rows \in Seq(Nat) /\ counts \in Seq(Nat)
  BY <1>1, <1>2
<1> HIDE DEF rows, counts
<1> QED
  BY <1>3, TotalType DEF RowsSent, MsgBlocks, rows, counts

(* Messages without crowded pieces have the rows that are counted.         *)
LEMMA RowsCounted ==
  ASSUME NEW m \in Seq(BlockTypes), \A b \in ToSet(m) : RealRows(b) \in Nat /\ RealRows(b) <= b.count
  PROVE  RowsSent(m) <= MsgBlocks(m)
<1> DEFINE rows == [k \in DOMAIN m |-> RealRows(m[k])]
           counts == [k \in DOMAIN m |-> m[k].count]
<1>1. \A k \in DOMAIN m : m[k] \in ToSet(m) /\ m[k].count \in Nat
  <2> TAKE k \in DOMAIN m
  <2>1. m[k] \in BlockTypes /\ m[k] \in ToSet(m)
    BY DEF ToSet
  <2>2. m[k].count \in Nat
    BY <2>1 DEF BlockTypes
  <2> QED
    BY <2>1, <2>2
<1>2. Len(m) \in Nat /\ DOMAIN m = 1 .. Len(m)
  OBVIOUS
<1>3. /\ \A k \in 1 .. Len(m) : RealRows(m[k]) \in Nat /\ m[k].count \in Nat /\ RealRows(m[k]) <= m[k].count
  BY <1>1, <1>2
<1>4. rows \in Seq(Nat) /\ counts \in Seq(Nat) /\ Len(rows) = Len(counts) /\ \A k \in DOMAIN rows : rows[k] <= counts[k]
  BY <1>2, <1>3
<1> HIDE DEF rows, counts
<1>5. Total(rows) <= Total(counts)
  BY <1>4, TotalMost
<1> QED
  BY <1>5 DEF RowsSent, MsgBlocks, rows, counts

(* Every message that is sent keeps the limits of the protocol             *)
(* (rich_split.go:10-27), but for a table that is too long only by its     *)
(* rows, the pieces of a crowded table (rich_split.go:256) and rows over   *)
(* several lines (rich_blocks.go:267).  For all texts, rewritings, limits. *)
THEOREM WithinLimitsHolds == Spec => []WithinLimits
<1>1. RichShape => WithinLimits
  <2> SUFFICES ASSUME RichShape, richStage = "sent", NEW m \in ToSet(msgs)
               PROVE  /\ MsgChars(m) <= MaxChars /\ MsgMedia(m) <= MaxMedia
                      /\ \A b \in ToSet(m) : /\ b.depth <= MaxDepth /\ b.cols <= MaxCols
                                             /\ IsHtml(b) => Spread(b) \/ NarrowRows(b)
                      /\ \/ RowsSent(m) <= MaxBlocks
                         \/ Len(m) = 1 /\ m[1].kind = "table" /\ m[1] \in ToSet(blocks)
                         \/ \E b \in ToSet(m) : Crowded(b) /\ b \notin ToSet(blocks)
    BY DEF WithinLimits
  <2> DEFINE Q == Carried(ToSet(blocks))
  <2>1. m \in Seq(Q) /\ m # <<>> /\ (Len(m) = 1 \/ m \in Fitting)
    <3>1. /\ msgs \in Seq(Seq(Q))
          /\ \A k \in DOMAIN msgs : msgs[k] # <<>> /\ (Len(msgs[k]) = 1 \/ msgs[k] \in Fitting)
      BY SentGroups
    <3>2. PICK k \in DOMAIN msgs : m = msgs[k]
      BY DEF ToSet
    <3> HIDE DEF Q
    <3> QED
      BY <3>1, <3>2
  <2>2. \A b \in Q : /\ b \in BlockTypes /\ Chars(b.body) <= MaxChars /\ b.media <= MaxMedia
                     /\ b.depth <= MaxDepth /\ b.cols <= MaxCols
                     /\ b.count <= MaxBlocks \/ (b.kind = "table" /\ b \in ToSet(blocks))
                     /\ IsHtml(b) => \A k \in DOMAIN b.body : b.body[k].cells <= MaxCols
                     /\ RealRows(b) \in Nat /\ (RealRows(b) <= b.count \/ (Crowded(b) /\ b \notin ToSet(blocks)))
    BY DEF Carried
  <2>3. \A b \in ToSet(m) : b \in Q
    <3> HIDE DEF Q
    <3> QED
      BY <2>1 DEF ToSet
  <2> HIDE DEF Q
  <2>4. \A b \in Q : IsHtml(b) => Spread(b) \/ NarrowRows(b)
    <3> SUFFICES ASSUME NEW b \in Q, IsHtml(b), ~Spread(b) PROVE NarrowRows(b)
      OBVIOUS
    <3>1. b.body \in Seq(LineTypes)
      BY <2>2 DEF BlockTypes
    <3> QED
      BY <2>2, <3>1, OnOneLine
  <2>5. \A b \in ToSet(m) : /\ b.depth <= MaxDepth /\ b.cols <= MaxCols
                            /\ IsHtml(b) => Spread(b) \/ NarrowRows(b)
    BY <2>2, <2>3, <2>4
  <2>6. CASE \E b \in ToSet(m) : Crowded(b) /\ b \notin ToSet(blocks)
    <3>1. MsgChars(m) <= MaxChars /\ MsgMedia(m) <= MaxMedia
      <4>1. CASE m \in Fitting
        BY <4>1 DEF Fitting
      <4>2. CASE Len(m) = 1
        <5>1. m[1] \in Q /\ m = <<m[1]>>
          BY <2>1, <4>2, OneElement
        <5> DEFINE b == m[1]
        <5> HIDE DEF b
        <5>2. b \in Q /\ m = <<b>> /\ b \in BlockTypes
          BY <2>2, <5>1 DEF b
        <5>3. MsgChars(<<b>>) = Chars(b.body) /\ MsgMedia(<<b>>) = b.media
          BY <5>2, MessageSums
        <5> QED
          BY <2>2, <5>2, <5>3
      <4> QED
        BY <2>1, <4>1, <4>2
    <3> QED
      BY <2>5, <2>6, <3>1
  <2>7. CASE ~ \E b \in ToSet(m) : Crowded(b) /\ b \notin ToSet(blocks)
    <3>1. \A b \in ToSet(m) : RealRows(b) \in Nat /\ RealRows(b) <= b.count
      BY <2>2, <2>3, <2>7
    <3>2. CASE m \in Fitting
      <4>1. m \in Seq(BlockTypes) /\ MsgChars(m) <= MaxChars /\ MsgBlocks(m) <= MaxBlocks /\ MsgMedia(m) <= MaxMedia
        BY <3>2 DEF Fitting
      <4>2. RowsSent(m) <= MsgBlocks(m)
        BY <3>1, <4>1, RowsCounted
      <4>3. RowsSent(m) \in Nat /\ MsgBlocks(m) \in Nat
        BY <3>1, <4>1, RowsNat
      <4> QED
        BY <2>5, <4>1, <4>2, <4>3, Limits
    <3>3. CASE Len(m) = 1
      <4>1. m[1] \in Q /\ m = <<m[1]>> /\ m[1] \in ToSet(m)
        <5>1. m[1] \in Q /\ m = <<m[1]>>
          BY <2>1, <3>3, OneElement
        <5>2. 1 \in DOMAIN m
          BY <2>1, <3>3
        <5> QED
          BY <5>1, <5>2 DEF ToSet
      <4> DEFINE b == m[1]
      <4> HIDE DEF b
      <4>2. b \in Q /\ m = <<b>> /\ b \in BlockTypes /\ RealRows(b) \in Nat /\ RealRows(b) <= b.count
        BY <2>2, <3>1, <4>1 DEF b
      <4>3. /\ MsgChars(<<b>>) = Chars(b.body) /\ MsgMedia(<<b>>) = b.media /\ RowsSent(<<b>>) = RealRows(b)
        BY <4>2, MessageSums
      <4>4. b.count \in Nat
        BY <4>2 DEF BlockTypes
      <4>5. RowsSent(m) <= MaxBlocks \/ (b.kind = "table" /\ b \in ToSet(blocks))
        BY <2>2, <4>2, <4>3, <4>4, Limits
      <4>6. MsgChars(m) <= MaxChars /\ MsgMedia(m) <= MaxMedia
        BY <2>2, <4>2, <4>3
      <4> QED
        BY <2>5, <3>3, <4>5, <4>6 DEF b
    <3> QED
      BY <2>1, <3>2, <3>3
  <2> QED
    BY <2>6, <2>7
<1> QED
  BY <1>1, ShapeKept, PTL

(* The middle of three sequences, and their end.                           *)
LEMMA Middle ==
  ASSUME NEW A, NEW t \in Seq(A), NEW c \in Seq(A), NEW u \in Seq(A)
  PROVE  /\ SubSeq(t \o c \o u, Len(t) + 1, Len(t) + Len(c)) = c
         /\ SubSeq(t \o c \o u, Len(t) + 1, Len(t \o c \o u)) = c \o u
<1> DEFINE w == t \o c \o u
           p == Len(t)
           n == Len(c)
           q == Len(u)
<1>1. /\ p \in Nat /\ n \in Nat /\ q \in Nat /\ w \in Seq(A) /\ Len(w) = p + n + q
      /\ \A i \in 1 .. n : w[p + i] = c[i]
      /\ \A i \in n + 1 .. n + q : w[p + i] = u[i - n]
  OBVIOUS
<1> HIDE DEF w
<1>2. SubSeq(w, p + 1, p + n) = c
  <2>1. CASE n = 0
    <3>1. SubSeq(w, p + 1, p + n) = <<>> /\ c = <<>>
      BY <1>1, <2>1, SubSeqEmpty
    <3> QED
      BY <3>1
  <2>2. CASE n > 0
    <3> DEFINE x == SubSeq(w, p + 1, p + n)
    <3>1. x \in Seq(A) /\ Len(x) = n /\ \A i \in 1 .. n : x[i] = w[p + i]
      <4>1. p + 1 \in 1 .. Len(w) + 1 /\ p + n \in (p + 1) - 1 .. Len(w)
        BY <1>1, <2>2
      <4> HIDE DEF p, n
      <4>2. x \in Seq(A) /\ Len(x) = (p + n) - (p + 1) + 1 /\ \A i \in 1 .. (p + n) - (p + 1) + 1 : x[i] = w[(p + 1) + i - 1]
        BY <1>1, <4>1, SubSeqProperties
      <4>3. (p + n) - (p + 1) + 1 = n /\ \A i \in 1 .. n : (p + 1) + i - 1 = p + i
        BY <1>1
      <4> QED
        BY <4>2, <4>3
    <3> HIDE DEF x
    <3>2. \A i \in 1 .. n : x[i] = c[i]
      BY <1>1, <3>1
    <3>3. x = c
      BY <3>1, <3>2, SeqEqual
    <3> QED
      BY <3>3 DEF x
  <2> QED
    BY <1>1, <2>1, <2>2
<1>3. SubSeq(w, p + 1, Len(w)) = c \o u
  <2> DEFINE x == SubSeq(w, p + 1, Len(w))
             y == c \o u
  <2>1. x \in Seq(A) /\ Len(x) = n + q /\ \A i \in 1 .. n + q : x[i] = w[p + i]
    <3>1. p + 1 \in 1 .. Len(w) + 1 /\ Len(w) \in (p + 1) - 1 .. Len(w)
      BY <1>1
    <3> HIDE DEF p, n, q
    <3>2. x \in Seq(A) /\ Len(x) = Len(w) - (p + 1) + 1 /\ \A i \in 1 .. Len(w) - (p + 1) + 1 : x[i] = w[(p + 1) + i - 1]
      <4>1. w \in Seq(A) /\ x = SubSeq(w, p + 1, Len(w))
        BY <1>1
      <4> HIDE DEF x, y
      <4> QED
        BY <3>1, <4>1, SubSeqProperties
    <3>3. Len(w) - (p + 1) + 1 = n + q /\ \A i \in 1 .. n + q : (p + 1) + i - 1 = p + i
      BY <1>1
    <3> QED
      BY <3>2, <3>3
  <2>2. y \in Seq(A) /\ Len(y) = n + q /\ (\A i \in 1 .. n : y[i] = c[i]) /\ \A i \in n + 1 .. n + q : y[i] = u[i - n]
    OBVIOUS
  <2> HIDE DEF x, y
  <2>3. ASSUME NEW i \in 1 .. n + q PROVE x[i] = y[i]
    <3>1. CASE i \in 1 .. n
      BY <1>1, <2>1, <2>2, <3>1
    <3>2. CASE i \in n + 1 .. n + q
      BY <1>1, <2>1, <2>2, <3>2
    <3>3. i \in 1 .. n \/ i \in n + 1 .. n + q
      BY <1>1
    <3> QED
      BY <3>1, <3>2, <3>3
  <2>4. x = y
    BY <2>1, <2>2, <2>3, SeqEqual
  <2> QED
    BY <2>4 DEF x, y
<1> QED
  BY <1>2, <1>3 DEF w

(* To keep some, and some of those, is to keep those.                      *)
LEMMA OnlyTwice ==
  ASSUME NEW A, NEW R, NEW S, NEW s \in Seq(A), \A x \in A : x \in S => x \in R
  PROVE  Only(Only(s, R), S) = Only(s, S)
<1> DEFINE G == {r \in Seq(A) : Only(Only(r, R), S) = Only(r, S)}
<1>1. <<>> \in G
  <2>1. Only(<<>>, R) = <<>> /\ Only(<<>>, S) = <<>> /\ <<>> \in Seq(A)
    BY OnlyEmpty
  <2> QED
    BY <2>1
<1>2. ASSUME NEW r \in Seq(A), NEW x \in A, r \in G PROVE Append(r, x) \in G
  <2>1. Only(r, R) \in Seq(A)
    BY OnlyType
  <2>2. Only(Only(r, R), S) = Only(r, S)
    BY <1>2
  <2>3. /\ x \in R => Only(Append(r, x), R) = Append(Only(r, R), x)
        /\ x \notin R => Only(Append(r, x), R) = Only(r, R)
    BY OnlyAppend
  <2>4. /\ x \in S => Only(Append(r, x), S) = Append(Only(r, S), x)
        /\ x \notin S => Only(Append(r, x), S) = Only(r, S)
    BY OnlyAppend
  <2>5. /\ x \in S => Only(Append(Only(r, R), x), S) = Append(Only(Only(r, R), S), x)
        /\ x \notin S => Only(Append(Only(r, R), x), S) = Only(Only(r, R), S)
    <3> DEFINE o == Only(r, R)
    <3>1. o \in Seq(A)
      BY <2>1
    <3> HIDE DEF o
    <3>2. /\ x \in S => Only(Append(o, x), S) = Append(Only(o, S), x)
          /\ x \notin S => Only(Append(o, x), S) = Only(o, S)
      BY <3>1, OnlyAppend
    <3> QED
      BY <3>2 DEF o
  <2>6. x \in S => x \in R
    OBVIOUS
  <2>7. Only(Only(Append(r, x), R), S) = Only(Append(r, x), S)
    BY <2>2, <2>3, <2>4, <2>5, <2>6
  <2> QED
    BY <2>7
<1>3. s \in G
  <2> HIDE DEF G
  <2> QED
    BY <1>1, <1>2, SeqInduction
<1> QED
  BY <1>3

(* What a block begins with.                                               *)
Formed ==
  {b \in Whole : /\ b.kind = "code" => IsFence(b.body[1])
                 /\ b.kind = "table" => b.body[1].k = "topen" \/ (Len(b.body) >= 2 /\ b.body[2].k = "divider" /\ b.body[1].k # "topen")}

(* A code block starts with a fence, a table with its tag or with a header *)
(* and a divider.                                                          *)
LEMMA BlockFormed ==
  ASSUME NEW s \in Seq(LineTypes), NEW i \in 1 .. Len(s)
  PROVE  BlockAt(s, i) \in Formed
<1> DEFINE b == BlockAt(s, i)
           kind == KindAt(s, i)
           l == s[i]
           e == EndOf(s, i)
<1>1. /\ b \in BlockTypes /\ b.kind = kind /\ b.body = SubSeq(s, i, e) /\ (b.kind # "table" => b.count = 1)
      /\ b.kind = "table" /\ l.k = "topen" => b.count = Rows(b.body) /\ b.cols = Columns(b.body)
  BY BlockType
<1>2. Len(SubSeq(s, i, e)) > 0 /\ SubSeq(s, i, e)[1] = l /\ Len(SubSeq(s, i, e)) = e - i + 1
      /\ \A k \in 1 .. e - i + 1 : SubSeq(s, i, e)[k] = s[i + k - 1]
  BY BodyType
<1>3. e \in i .. Len(s)
  BY EndIn
<1>4. kind = "code" => IsFence(l)
  BY DEF KindAt
<1>5. kind = "table" => l.k = "topen" \/ (l.k # "topen" /\ i < Len(s) /\ s[i + 1].k = "divider")
  BY DEF KindAt
<1>6. ASSUME kind = "table", l.k # "topen" PROVE e >= i + 1
  <2> DEFINE S == {j \in i + 1 .. Len(s) : j > i + 1 /\ s[j].k \notin {"row", "divider"}}
  <2>1. e = Without(s, S)
    BY <1>6 DEF EndOf
  <2>2. S \in SUBSET (i + 1 .. Len(s)) /\ \A j \in S : j > i + 1
    OBVIOUS
  <2> HIDE DEF S, e
  <2>3. Without(s, S) < Len(s) => Without(s, S) + 1 \in S
    BY <2>2, WithIn
  <2>4. i < Len(s)
    BY <1>5, <1>6
  <2> QED
    BY <1>3, <2>1, <2>2, <2>3, <2>4
<1> HIDE DEF b, kind, e
<1>7. b \in Whole
  BY <1>1, <1>2 DEF Whole, IsHtml
<1>8. b.kind = "code" => IsFence(b.body[1])
  BY <1>1, <1>2, <1>4
<1>9. b.kind = "table" => b.body[1].k = "topen" \/ (Len(b.body) >= 2 /\ b.body[2].k = "divider" /\ b.body[1].k # "topen")
  <2>0. b.body[1] = l /\ b.kind = kind
    BY <1>1, <1>2
  <2> HIDE DEF l
  <2> SUFFICES ASSUME kind = "table", l.k # "topen" PROVE Len(b.body) >= 2 /\ b.body[2].k = "divider"
    BY <2>0
  <2>1. e >= i + 1 /\ s[i + 1].k = "divider"
    BY <1>5, <1>6
  <2>2. 2 \in 1 .. e - i + 1 /\ i + 2 - 1 = i + 1 /\ e - i + 1 >= 2
    BY <1>3, <2>1
  <2>3. SubSeq(s, i, e)[2] = s[i + 1]
    BY <1>2, <2>2
  <2> QED
    BY <1>1, <1>2, <2>1, <2>2, <2>3
<1> QED
  BY <1>7, <1>8, <1>9 DEF Formed, b

(* So do the blocks that are parsed.                                       *)
LEMMA ParsedFormed ==
  ASSUME NEW s \in Seq(LineTypes)
  PROVE  ParsedBlocks(s) \in Seq(Formed)
<1> DEFINE P == BlocksOf(s)
           Q == Formed
<1>1. P \subseteq Q
  BY BlockFormed DEF BlocksOf, Starts
<1>2. ParsedBlocks(s) \in Seq(P)
  BY Parsed
<1> HIDE DEF P, Q
<1>3. ParsedBlocks(s) \in Seq(Q)
  BY <1>1, <1>2
<1> QED
  BY <1>3 DEF Q

(* What a reader sees are lines.                                           *)
LEMMA SeenType ==
  ASSUME NEW b \in Formed
  PROVE  Seen(b) \in Seq(LineTypes)
<1> DEFINE body == b.body
           i == Header(b) + 1
<1>1. body \in Seq(LineTypes) /\ Len(body) > 0 /\ (b.kind = "table" => i <= Len(body) + 1) /\ i \in 1 .. 3
  <2>1. body \in Seq(LineTypes) /\ Len(body) > 0
    BY DEF Formed, Whole, BlockTypes
  <2>2. b.kind = "table" => body[1].k = "topen" \/ Len(body) >= 2
    BY DEF Formed
  <2>3. i \in 1 .. 3 /\ (i = 3 => body[1].k # "topen")
    BY DEF Header
  <2>4. Len(body) \in Nat
    BY <2>1
  <2> HIDE DEF body, i
  <2> QED
    BY <2>1, <2>2, <2>3, <2>4 DEF body
<1>2. 2 \in 2 .. 3 /\ 2 <= Len(body) + 1
  BY <1>1
<1> HIDE DEF body, i
<1>3. SubSeq(body, 2, Len(body) - 1) \in Seq(LineTypes)
  BY <1>1, <1>2, InnerType
<1>4. b.kind = "table" => SubSeq(body, i, Len(body)) \in Seq(LineTypes)
  <2>1. CASE i = 1
    <3>1. SubSeq(body, 1, Len(body)) \in Seq(LineTypes)
      BY <1>1
    <3> QED
      BY <2>1, <3>1
  <2>2. CASE i \in 2 .. 3
    BY <1>1, <2>2, InnerType
  <2> QED
    BY <1>1, <2>1, <2>2
<1>5. CASE b.kind = "table"
  <2> DEFINE r == SubSeq(body, i, Len(body))
             S == {l \in LineTypes : l.k \notin {"blank", "tclose"}}
  <2>1. r \in Seq(LineTypes)
    BY <1>4, <1>5
  <2>2. Seen(b) = Only(r, S)
    BY <1>5 DEF Seen, body, i
  <2> HIDE DEF r, S
  <2> QED
    BY <2>1, <2>2, OnlyType
<1>6. CASE b.kind # "table"
  BY <1>1, <1>3, <1>6 DEF Seen, Inner, body
<1> QED
  BY <1>5, <1>6

AfterTop(t, c) == SubSeq(t \o c \o <<>>, Len(t) + 1, Len(t \o c \o <<>>)) = c

(* What follows a first part.                                              *)
LEMMA EndsWith ==
  ASSUME NEW A, NEW t \in Seq(A), NEW c \in Seq(A)
  PROVE  AfterTop(t, c)
<1> DEFINE e == <<>>
<1>1. e \in Seq(A) /\ c \o e = c
  OBVIOUS
<1> HIDE DEF e
<1>2. SubSeq(t \o c \o e, Len(t) + 1, Len(t \o c \o e)) = c \o e
  BY <1>1, Middle
<1> QED
  BY <1>1, <1>2 DEF e, AfterTop

Bare == {l \in LineTypes : l.k \notin {"blank", "tclose"}}

(* The pieces of a block that is not ragged show what the block showed.    *)
LEMMA PiecesSeen ==
  ASSUME NEW b \in Formed, Oversized(b), Splittable(b), ~Ragged(b)
  PROVE  FlattenSeq([j \in DOMAIN Pieces(b) |-> Seen(Pieces(b)[j])]) = Seen(b)
<1> DEFINE f == FrameOf(b)
           cs == Chunks(f)
           body == b.body
           pbody(c) == f.top \o c \o f.bottom
           piece(c) == Block(b.kind, pbody(c), b.depth,
                             IF b.kind = "table" THEN Len(c) + f.header ELSE 1, 0, b.cols)
<1>0. b \in Whole
  BY DEF Formed
<1>1. /\ cs \in Seq(Seq(LineTypes)) /\ FlattenSeq(cs) = f.rows
      /\ f.top \in Seq(LineTypes) /\ f.rows \in Seq(LineTypes) /\ f.bottom \in Seq(LineTypes)
  BY <1>0, PiecesOf
<1>2. \A k \in DOMAIN cs : cs[k] # <<>>
  BY <1>0, PiecesOf
<1>3. Pieces(b) = [k \in DOMAIN cs |-> piece(cs[k])]
  BY DEF Pieces
<1>4. body \in Seq(LineTypes) /\ Len(body) > 0 /\ Len(body) \in Nat
  <2>1. body \in Seq(LineTypes) /\ Len(body) > 0
    BY <1>0 DEF Whole, BlockTypes
  <2> QED
    BY <2>1
<1>5. Head(body) = body[1] /\ Last(body) = body[Len(body)] /\ body[1] \in LineTypes /\ body[Len(body)] \in LineTypes
  BY <1>4 DEF Last
<1>6. \A c : piece(c).kind = b.kind /\ piece(c).body = pbody(c)
  BY DEF Block
<1>7. DOMAIN Pieces(b) = DOMAIN cs /\ \A k \in DOMAIN cs : Pieces(b)[k] = piece(cs[k])
  BY <1>3
<1> HIDE DEF piece
<1>8. CASE b.kind = "code"
  <2>1. IsFence(body[1]) /\ Closed(b)
    BY <1>8 DEF Formed, Ragged
  <2> DEFINE close == Line("fence", 1, body[1].v)
  <2>2. f.top = <<body[1]>> /\ f.rows = Inner(b) /\ f.bottom = <<close>>
    BY <1>5, <1>8, <2>1 DEF FrameOf, FencedFrame, Frame
  <2>3. IsFence(close) /\ close.v = body[1].v
    BY DEF Line, IsFence
  <2> HIDE DEF close
  <2>4. close \in LineTypes
    <3>1. f.bottom[1] = close /\ Len(f.bottom) = 1
      BY <2>2
    <3> HIDE DEF f
    <3> QED
      BY <1>1, <3>1
  <2> HIDE DEF f, cs, body
  <2>5. ASSUME NEW c \in Seq(LineTypes) PROVE Seen(piece(c)) = c
    <3> DEFINE w == <<body[1]>> \o c \o <<close>>
    <3>1. piece(c).body = w /\ piece(c).kind = "code"
      BY <1>6, <1>8, <2>2
    <3>2. /\ Len(w) = Len(c) + 2 /\ Len(c) \in Nat /\ w[Len(c) + 2] = close /\ w[1] = body[1]
          /\ <<body[1]>> \in Seq(LineTypes) /\ <<close>> \in Seq(LineTypes) /\ Len(<<body[1]>>) = 1
      BY <1>5, <2>4
    <3>3. SubSeq(w, 1 + 1, 1 + Len(c)) = c
      BY <3>2, Middle
    <3> HIDE DEF w
    <3>4. Last(w) = close
      BY <3>2 DEF Last
    <3>5. Closed(piece(c))
      BY <2>3, <3>1, <3>2, <3>4 DEF Closed
    <3>6. Inner(piece(c)) = c
      <4>1. Inner(piece(c)) = SubSeq(w, 2, Len(w) - 1)
        BY <3>1 DEF Inner
      <4>2. Len(w) - 1 = 1 + Len(c) /\ 1 + 1 = 2
        BY <3>2
      <4> QED
        BY <3>3, <4>1, <4>2
    <3> QED
      BY <3>1, <3>5, <3>6 DEF Seen
  <2>6. [j \in DOMAIN Pieces(b) |-> Seen(Pieces(b)[j])] = cs
    <3>1. \A k \in DOMAIN cs : Seen(Pieces(b)[k]) = cs[k]
      <4> TAKE k \in DOMAIN cs
      <4>1. cs[k] \in Seq(LineTypes)
        BY <1>1
      <4> QED
        BY <1>7, <2>5, <4>1
    <3>2. [j \in DOMAIN cs |-> cs[j]] = cs
      BY <1>1
    <3> QED
      BY <1>7, <3>1, <3>2
  <2>7. Seen(b) = Inner(b)
    BY <1>8, <2>1 DEF Seen
  <2> QED
    BY <1>1, <2>2, <2>6, <2>7
<1>9. CASE b.kind \notin {"code", "table"}
  <2>1. b.kind # "formula"
    BY DEF Ragged
  <2>2. f.top = <<>> /\ f.rows = body /\ f.bottom = <<>>
    BY <1>9, <2>1 DEF FrameOf, LinesFrame, Frame
  <2> HIDE DEF f, cs, body
  <2>3. ASSUME NEW c \in Seq(LineTypes) PROVE Seen(piece(c)) = c
    <3>1. piece(c).body = <<>> \o c \o <<>> /\ piece(c).kind \notin {"code", "table"}
      BY <1>6, <1>9, <2>2
    <3>2. <<>> \o c \o <<>> = c
      OBVIOUS
    <3> QED
      BY <3>1, <3>2 DEF Seen
  <2>4. [j \in DOMAIN Pieces(b) |-> Seen(Pieces(b)[j])] = cs
    <3>1. \A k \in DOMAIN cs : Seen(Pieces(b)[k]) = cs[k]
      <4> TAKE k \in DOMAIN cs
      <4>1. cs[k] \in Seq(LineTypes)
        BY <1>1
      <4> QED
        BY <1>7, <2>3, <4>1
    <3>2. [j \in DOMAIN cs |-> cs[j]] = cs
      BY <1>1
    <3> QED
      BY <1>7, <3>1, <3>2
  <2>5. Seen(b) = body
    BY <1>9 DEF Seen, body
  <2> QED
    BY <1>1, <2>2, <2>4, <2>5
<1>10. CASE b.kind = "table"
  <2> DEFINE S == Bare
             filled == {l \in LineTypes : ~IsBlank(l)}
  <2>1. \A l \in LineTypes : l \in S => l \in filled
    BY DEF Bare, IsBlank
  <2>2. ASSUME \A c \in Seq(LineTypes) : Seen(piece(c)) = Only(c, S), NEW rows \in Seq(LineTypes),
               f.rows = Only(rows, filled), Seen(b) = Only(rows, S)
        PROVE  FlattenSeq([j \in DOMAIN Pieces(b) |-> Seen(Pieces(b)[j])]) = Seen(b)
    <3> HIDE DEF f, cs, S, filled
    <3>1. [j \in DOMAIN Pieces(b) |-> Seen(Pieces(b)[j])] = [j \in DOMAIN cs |-> Only(cs[j], S)]
      <4>1. \A k \in DOMAIN cs : Seen(Pieces(b)[k]) = Only(cs[k], S)
        <5> TAKE k \in DOMAIN cs
        <5>1. cs[k] \in Seq(LineTypes)
          BY <1>1
        <5> QED
          BY <1>7, <2>2, <5>1
      <4> QED
        BY <1>7, <4>1
    <3>2. FlattenSeq([j \in DOMAIN cs |-> Only(cs[j], S)]) = Only(FlattenSeq(cs), S)
      BY <1>1, FlattenOnly
    <3>3. Only(Only(rows, filled), S) = Only(rows, S)
      BY <2>1, OnlyTwice
    <3> QED
      BY <1>1, <2>2, <3>1, <3>2, <3>3
  <2>3. CASE body[1].k = "topen"
    <3>1. Last(body).k = "tclose" /\ body[2].k # "divider" /\ body[1].v = 0
      BY <1>10, <2>3 DEF Ragged, IsHtml
    <3>2. Len(body) >= 3
      BY <1>10, <3>1 DEF Splittable
    <3> DEFINE open == body[1]
               close == body[Len(body)]
               rows == Inner(b)
    <3>3. f.top = <<open>> /\ f.rows = Only(rows, filled) /\ f.bottom = <<close>>
      BY <1>5, <1>10, <3>1 DEF FrameOf, TableFrame, Frame
    <3>4. open \in LineTypes /\ close \in LineTypes /\ close.k = "tclose" /\ open.k = "topen" /\ open.v = 0
      BY <1>5, <2>3, <3>1
    <3>5. /\ rows = SubSeq(body, 2, Len(body) - 1) /\ rows \in Seq(LineTypes)
          /\ SubSeq(body, 2, Len(body)) = Append(rows, close)
      BY <1>4, <3>2 DEF Inner
    <3>6. Seen(b) = Only(SubSeq(body, 2, Len(body)), S)
      <4>1. Header(b) + 1 = 2
        BY <2>3, <3>1 DEF Header
      <4> QED
        BY <1>10, <4>1 DEF Seen, Bare
    <3>7. close \notin S
      BY <3>4 DEF Bare
    <3> HIDE DEF f, cs, body, rows, S, filled, open, close
    <3>8. Only(Append(rows, close), S) = Only(rows, S)
      <4>1. rows \in Seq(LineTypes)
        BY <3>5
      <4>2. close \in LineTypes
        BY <3>4
      <4> QED
        BY <3>7, <4>1, <4>2, OnlyAppend
    <3>9. ASSUME NEW c \in Seq(LineTypes) PROVE Seen(piece(c)) = Only(c, S)
      <4> DEFINE w == <<open>> \o c \o <<close>>
      <4>1. piece(c).body = w /\ piece(c).kind = "table"
        BY <1>6, <1>10, <3>3
      <4>2. /\ w[1] = open /\ <<open>> \in Seq(LineTypes) /\ <<close>> \in Seq(LineTypes) /\ Len(<<open>>) = 1
        BY <3>4
      <4>3. SubSeq(w, 1 + 1, Len(w)) = c \o <<close>>
        BY <4>2, Middle
      <4>4. c \o <<close>> = Append(c, close)
        BY <3>4
      <4>5. Only(Append(c, close), S) = Only(c, S)
        BY <3>4, <3>7, OnlyAppend
      <4> HIDE DEF w
      <4>6. Seen(piece(c)) = Only(SubSeq(w, 2, Len(w)), S)
        <5>1. Header(piece(c)) + 1 = 2
          BY <3>4, <4>1, <4>2 DEF Header
        <5> QED
          BY <4>1, <5>1 DEF Seen, S, Bare
      <4>7. SubSeq(w, 2, Len(w)) = Append(c, close)
        BY <4>3, <4>4
      <4> QED
        BY <4>5, <4>6, <4>7
    <3> QED
      BY <2>2, <3>3, <3>5, <3>6, <3>8, <3>9
  <2>4. CASE body[1].k # "topen"
    <3>1. Len(body) >= 2 /\ body[2].k = "divider"
      BY <1>10, <2>4 DEF Formed
    <3> DEFINE top == SubSeq(body, 1, 2)
               rows == SubSeq(body, 3, Len(body))
    <3>2. f.top = top /\ f.rows = Only(rows, filled) /\ f.bottom = <<>>
      BY <1>10, <3>1 DEF FrameOf, TableFrame, Frame
    <3>3. top \in Seq(LineTypes) /\ Len(top) = 2 /\ top[1] = body[1]
      BY <1>4, <3>1
    <3>4. rows \in Seq(LineTypes)
      <4>1. 3 \in 2 .. 3 /\ 3 <= Len(body) + 1
        BY <1>4, <3>1
      <4> HIDE DEF body
      <4> QED
        BY <1>4, <4>1, InnerType
    <3>5. Seen(b) = Only(rows, S)
      <4>1. Header(b) + 1 = 3
        BY <2>4 DEF Header
      <4> QED
        BY <1>10, <4>1 DEF Seen, Bare
    <3> HIDE DEF f, cs, body, rows, top, S, filled
    <3>6. ASSUME NEW c \in Seq(LineTypes) PROVE Seen(piece(c)) = Only(c, S)
      <4> DEFINE w == top \o c \o <<>>
      <4>1. piece(c).body = w /\ piece(c).kind = "table"
        BY <1>6, <1>10, <3>2
      <4>2. w[1] = body[1] /\ <<>> \in Seq(LineTypes) /\ c \o <<>> = c
        BY <3>3
      <4>3. SubSeq(w, Len(top) + 1, Len(w)) = c \o <<>>
        <5>1. top \in Seq(LineTypes)
          BY <3>3
        <5>2. AfterTop(top, c)
          BY <5>1, EndsWith
        <5> QED
          BY <4>2, <5>2 DEF AfterTop
      <4>4. Len(top) + 1 = 3
        BY <3>3
      <4> HIDE DEF w
      <4>5. Seen(piece(c)) = Only(SubSeq(w, 3, Len(w)), S)
        <5>1. Header(piece(c)) + 1 = 3
          BY <2>4, <4>1, <4>2 DEF Header
        <5> QED
          BY <4>1, <5>1 DEF Seen, S, Bare
      <4> QED
        BY <4>2, <4>3, <4>4, <4>5
    <3> QED
      BY <2>2, <3>2, <3>4, <3>5, <3>6
  <2> QED
    BY <2>3, <2>4
<1> QED
  BY <1>8, <1>9, <1>10

(* Splitting loses and repeats nothing that a reader sees, and the         *)
(* messages carry the blocks in order (rich_split.go:61-77, 131-282), but  *)
(* for the ragged blocks.  For all texts and limits.                       *)
THEOREM NothingLostHolds == Spec => []NothingLost
<1>1. RichShape => NothingLost
  <2> SUFFICES ASSUME RichShape, richStage = "sent"
               PROVE  /\ FlattenSeq(msgs) = FlattenSeq(parts)
                      /\ \A k \in DOMAIN blocks :
                           ~(Oversized(blocks[k]) /\ Ragged(blocks[k])) =>
                             FlattenSeq([j \in DOMAIN parts[k] |-> Seen(parts[k][j])]) = Seen(blocks[k])
    BY DEF NothingLost
  <2>1. FlattenSeq(msgs) = FlattenSeq(parts)
    BY SentGroups
  <2>2. ASSUME NEW k \in DOMAIN blocks, ~(Oversized(blocks[k]) /\ Ragged(blocks[k]))
        PROVE  FlattenSeq([j \in DOMAIN parts[k] |-> Seen(parts[k][j])]) = Seen(blocks[k])
    <3> DEFINE b == blocks[k]
    <3>1. /\ source \in Texts /\ lines = Normalized(source) /\ blocks = ParsedBlocks(lines)
          /\ Sound(b) /\ parts[k] = SplitBlock(b)
      BY DEF RichShape
    <3>2. lines \in Seq(LineTypes)
      <4>1. source \in Seq(LineTypes)
        BY <3>1, Limits
      <4> QED
        BY <3>1, <4>1, NormalizedType
    <3>3. b \in Formed
      <4>1. blocks \in Seq(Formed)
        BY <3>1, <3>2, ParsedFormed
      <4> QED
        BY <4>1
    <3> HIDE DEF b
    <3>4. CASE ~Oversized(b)
      <4>1. parts[k] = <<b>>
        BY <3>1, <3>4 DEF SplitBlock
      <4>2. [j \in DOMAIN parts[k] |-> Seen(parts[k][j])] = <<Seen(b)>>
        <5>1. DOMAIN parts[k] = 1 .. 1 /\ \A j \in 1 .. 1 : parts[k][j] = b
          BY <4>1
        <5>2. [j \in DOMAIN parts[k] |-> Seen(parts[k][j])] = [j \in 1 .. 1 |-> Seen(b)]
          BY <5>1
        <5> QED
          BY <5>2
      <4>3. Seen(b) \in Seq(LineTypes)
        BY <3>3, SeenType
      <4>4. FlattenSeq(<<Seen(b)>>) = Seen(b)
        BY <4>3, FlattenOne
      <4> QED
        BY <4>2, <4>4 DEF b
    <3>5. CASE Oversized(b)
      <4>1. ~Ragged(b) /\ Splittable(b)
        BY <2>2, <3>1, <3>5 DEF Sound, SplitFails, b
      <4>2. parts[k] = Pieces(b)
        BY <3>1, <3>5 DEF SplitBlock
      <4>3. FlattenSeq([j \in DOMAIN Pieces(b) |-> Seen(Pieces(b)[j])]) = Seen(b)
        BY <3>3, <3>5, <4>1, PiecesSeen
      <4> QED
        BY <4>2, <4>3 DEF b
    <3> QED
      BY <3>4, <3>5
  <2> QED
    BY <2>1, <2>2
<1> QED
  BY <1>1, ShapeKept, PTL

-----------------------------------------------------------------------------
(* The normalizer: reading a text line after line shows that normalizing   *)
(* keeps its code, and that a normalized text is left as it is.            *)

(* A text as the normalizer means it, line after line: the lines inside    *)
(* fences, those of them up to the last line that is not blank, the marks  *)
(* of the fences, what the last line is to the next, and whether every     *)
(* line so far is as a normalization leaves it.                            *)
ReadState ==
  {a \in [code : Seq(LineTypes), kept : Seq(LineTypes), signs : SUBSET Nat,
          last : {"start", "blank", "plain", "other", "code"}, settled : {"yes", "no"}, spaced : {"yes", "no"}] :
     a.last # "code" => a.kept = a.code}
ReadStart == [code |-> <<>>, kept |-> <<>>, signs |-> {}, last |-> "start", settled |-> "yes", spaced |-> "yes"]

LineFault(a, l) ==
  /\ a.last # "code"
  /\ (~IsFence(l) /\ NormalizeLine(l) # l) \/ l.k = "fence" \/ (a.last = "plain" /\ l.k = "under")
BlankFault(a, l) == IsBlank(l) /\ a.last \in {"start", "blank"}

CodeAfter(a, l) == IF a.last = "code" /\ ~IsFence(l) THEN Append(a.code, l) ELSE a.code
LastAfter(a, l) ==
  IF a.last = "code" THEN (IF IsFence(l) THEN "other" ELSE "code")
  ELSE IF IsFence(l) THEN "code" ELSE IF IsBlank(l) THEN "blank" ELSE IF IsPlainText(l) THEN "plain" ELSE "other"
ReadStep(a, l) ==
  [code    |-> CodeAfter(a, l),
   kept    |-> IF IsBlank(l) THEN a.kept ELSE CodeAfter(a, l),
   signs   |-> IF IsFence(l) THEN a.signs \cup {l.v} ELSE a.signs,
   last    |-> LastAfter(a, l),
   settled |-> IF LineFault(a, l) THEN "no" ELSE a.settled,
   spaced  |-> IF BlankFault(a, l) THEN "no" ELSE a.spaced]

ReadSteps == [l \in LineTypes |-> [a \in ReadState |-> ReadStep(a, l)]]
Reading ==
  [s \in Seq(LineTypes) |-> (CHOOSE f : Run(f, Len(s), ReadState, ReadStart, Steps(s, ReadSteps)))[Len(s)]]

(* A step of reading keeps the type of what is known.                      *)
LEMMA ReadStepType ==
  ASSUME NEW a \in ReadState, NEW l \in LineTypes
  PROVE  ReadStep(a, l) \in ReadState
<1>1. a.code \in Seq(LineTypes) /\ a.signs \in SUBSET Nat /\ a.kept \in Seq(LineTypes) /\ a.settled \in {"yes", "no"} /\ a.spaced \in {"yes", "no"}
  BY DEF ReadState
<1>2. CodeAfter(a, l) \in Seq(LineTypes)
  <2>1. Append(a.code, l) \in Seq(LineTypes)
    BY <1>1
  <2> QED
    BY <1>1, <2>1 DEF CodeAfter
<1>3. LastAfter(a, l) \in {"start", "blank", "plain", "other", "code"}
  BY DEF LastAfter
<1> DEFINE kept_ == IF IsBlank(l) THEN a.kept ELSE CodeAfter(a, l)
           signs_ == IF IsFence(l) THEN a.signs \cup {l.v} ELSE a.signs
           settled_ == IF LineFault(a, l) THEN "no" ELSE a.settled
           spaced_ == IF BlankFault(a, l) THEN "no" ELSE a.spaced
<1>a. signs_ \in SUBSET Nat
  BY <1>1, LineType
<1>4. kept_ \in Seq(LineTypes) /\ settled_ \in {"yes", "no"} /\ spaced_ \in {"yes", "no"}
  BY <1>1, <1>2
<1>5. ReadStep(a, l) = [code |-> CodeAfter(a, l), kept |-> kept_, signs |-> signs_, last |-> LastAfter(a, l),
                        settled |-> settled_, spaced |-> spaced_]
  BY DEF ReadStep
<1>6. LastAfter(a, l) # "code" => kept_ = CodeAfter(a, l)
  <2>1. CASE IsBlank(l)
    <3>1. ~IsFence(l)
      BY <2>1 DEF IsFence, IsBlank
    <3>2. LastAfter(a, l) # "code" => a.last # "code" /\ CodeAfter(a, l) = a.code
      BY <3>1 DEF LastAfter, CodeAfter
    <3> QED
      BY <2>1, <3>2 DEF ReadState
  <2>2. CASE ~IsBlank(l)
    BY <2>2
  <2> QED
    BY <2>1, <2>2
<1> HIDE DEF kept_, signs_, settled_, spaced_
<1> QED
  BY <1>2, <1>3, <1>4, <1>5, <1>6, <1>a DEF ReadState

(* Reading, of nothing and of one line more.                               *)
LEMMA ReadingRules ==
  /\ Reading[<<>>] = ReadStart
  /\ \A s \in Seq(LineTypes) : Reading[s] \in ReadState
  /\ \A s \in Seq(LineTypes), l \in LineTypes : Reading[Append(s, l)] = ReadStep(Reading[s], l)
<1> DEFINE T == ReadState
           L == LineTypes
<1>1. ReadStart \in T
  BY DEF ReadState, ReadStart
<1>2. ReadSteps \in [L -> [T -> T]]
  <2>1. \A l \in L, a \in T : ReadStep(a, l) \in T
    BY ReadStepType
  <2> HIDE DEF T, L
  <2>2. [l \in L |-> [a \in T |-> ReadStep(a, l)]] \in [L -> [T -> T]]
    BY <2>1
  <2> QED
    BY <2>2 DEF ReadSteps, T, L
<1>3. \A s \in Seq(L) : \E f : Run(f, Len(s), T, ReadStart, Steps(s, ReadSteps)) /\ Reading[s] = f[Len(s)]
  <2> TAKE s \in Seq(L)
  <2> DEFINE g == CHOOSE f : Run(f, Len(s), T, ReadStart, Steps(s, ReadSteps))
  <2>1. Len(s) \in Nat /\ Steps(s, ReadSteps) \in [1 .. Len(s) -> [T -> T]]
    <3> HIDE DEF T, L
    <3> QED
      BY <1>2, StepsType
  <2>2. \E f : Run(f, Len(s), T, ReadStart, Steps(s, ReadSteps))
    <3> HIDE DEF T, L
    <3> QED
      BY <1>1, <2>1, UpRecursion
  <2>3. Run(g, Len(s), T, ReadStart, Steps(s, ReadSteps))
    <3> HIDE DEF T, L
    <3> QED
      BY <2>2
  <2>4. Reading[s] = g[Len(s)]
    BY DEF Reading
  <2> HIDE DEF g, T
  <2> QED
    BY <2>3, <2>4
<1>4. /\ Reading[<<>>] = ReadStart
      /\ \A s \in Seq(L) : Reading[s] \in T /\ \A x \in L : Reading[Append(s, x)] = ReadSteps[x][Reading[s]]
  <2> HIDE DEF T, L
  <2> QED
    BY <1>1, <1>2, <1>3, FoldRules
<1>5. \A x \in L, a \in T : ReadSteps[x][a] = ReadStep(a, x)
  BY DEF ReadSteps
<1> HIDE DEF T
<1>6. \A s \in Seq(L) : Reading[s] \in T
  BY <1>4
<1>7. \A s \in Seq(L), x \in L : Reading[Append(s, x)] = ReadStep(Reading[s], x)
  BY <1>4, <1>5
<1> QED
  BY <1>4, <1>6, <1>7 DEF T

(* The text up to a line                                                   *)
Upto(s, i) == SubSeq(s, 1, i)

(* Reading a text up to one line after the other.                          *)
LEMMA UptoRules ==
  ASSUME NEW s \in Seq(LineTypes)
  PROVE  /\ Upto(s, 0) = <<>> /\ Upto(s, Len(s)) = s
         /\ \A i \in 0 .. Len(s) : Upto(s, i) \in Seq(LineTypes) /\ Reading[Upto(s, i)] \in ReadState
         /\ \A i \in 1 .. Len(s) :
              /\ s[i] \in LineTypes /\ i - 1 \in 0 .. Len(s) /\ i \in 0 .. Len(s)
              /\ Upto(s, i) = Append(Upto(s, i - 1), s[i])
              /\ Reading[Upto(s, i)] = ReadStep(Reading[Upto(s, i - 1)], s[i])
<1>1. Upto(s, 0) = <<>>
  BY SubSeqEmpty DEF Upto
<1>2. Upto(s, Len(s)) = s
  BY DEF Upto
<1>3. \A i \in 0 .. Len(s) : Upto(s, i) \in Seq(LineTypes)
  BY DEF Upto
<1>4. ASSUME NEW i \in 1 .. Len(s)
      PROVE  /\ s[i] \in LineTypes /\ i - 1 \in 0 .. Len(s) /\ i \in 0 .. Len(s)
             /\ Upto(s, i) = Append(Upto(s, i - 1), s[i])
             /\ Reading[Upto(s, i)] = ReadStep(Reading[Upto(s, i - 1)], s[i])
  <2>1. s[i] \in LineTypes /\ i - 1 \in 0 .. Len(s) /\ i \in 0 .. Len(s)
    OBVIOUS
  <2>2. Upto(s, i) = Append(Upto(s, i - 1), s[i])
    BY DEF Upto
  <2>3. Upto(s, i - 1) \in Seq(LineTypes)
    BY <1>3, <2>1
  <2>4. Reading[Append(Upto(s, i - 1), s[i])] = ReadStep(Reading[Upto(s, i - 1)], s[i])
    BY <2>1, <2>3, ReadingRules
  <2> QED
    BY <2>1, <2>2, <2>4
<1>5. \A i \in 0 .. Len(s) : Reading[Upto(s, i)] \in ReadState
  BY <1>3, ReadingRules
<1> QED
  BY <1>1, <1>2, <1>3, <1>4, <1>5

(* What a step of reading makes of each field.                             *)
LEMMA ReadFields ==
  ASSUME NEW a, NEW l
  PROVE  /\ ReadStep(a, l).code = CodeAfter(a, l)
         /\ IsBlank(l) => ReadStep(a, l).kept = a.kept
         /\ ~IsBlank(l) => ReadStep(a, l).kept = CodeAfter(a, l)
         /\ IsFence(l) => ReadStep(a, l).signs = a.signs \cup {l.v}
         /\ ~IsFence(l) => ReadStep(a, l).signs = a.signs
         /\ ReadStep(a, l).last = LastAfter(a, l)
         /\ ~LineFault(a, l) => ReadStep(a, l).settled = a.settled
         /\ LineFault(a, l) => ReadStep(a, l).settled = "no"
         /\ ~BlankFault(a, l) => ReadStep(a, l).spaced = a.spaced
         /\ BlankFault(a, l) => ReadStep(a, l).spaced = "no"
BY DEF ReadStep

(* What a line is to the next one.                                         *)
LEMMA LastIs ==
  ASSUME NEW a, NEW l
  PROVE  /\ a.last = "code" /\ IsFence(l) => LastAfter(a, l) = "other"
         /\ a.last = "code" /\ ~IsFence(l) => LastAfter(a, l) = "code"
         /\ a.last # "code" /\ IsFence(l) => LastAfter(a, l) = "code"
         /\ a.last # "code" /\ ~IsFence(l) /\ IsBlank(l) => LastAfter(a, l) = "blank"
         /\ a.last # "code" /\ ~IsFence(l) /\ ~IsBlank(l) /\ IsPlainText(l) => LastAfter(a, l) = "plain"
         /\ a.last # "code" /\ ~IsFence(l) /\ ~IsBlank(l) /\ ~IsPlainText(l) => LastAfter(a, l) = "other"
BY DEF LastAfter

(* Two readings that agree go on to agree.                                 *)
Alike(a, b) == a.code = b.code /\ a.kept = b.kept /\ a.signs = b.signs /\ (a.last = "code" <=> b.last = "code")

(* Two readings that are alike stay so over lines that are alike: outside  *)
(* fences only what is a fence matters.                                    *)
LEMMA ReadAlike ==
  ASSUME NEW a \in ReadState, NEW b \in ReadState, NEW l \in LineTypes, NEW m \in LineTypes, Alike(a, b),
         IsFence(l) <=> IsFence(m), IsFence(l) => l.v = m.v, a.last = "code" /\ ~IsFence(l) => l = m
  PROVE  Alike(ReadStep(a, l), ReadStep(b, m))
<1>1. CodeAfter(a, l) = CodeAfter(b, m)
  BY DEF Alike, CodeAfter
<1>2. LastAfter(a, l) = "code" <=> LastAfter(b, m) = "code"
  BY LastIs DEF Alike
<1>3. ReadStep(a, l).code = CodeAfter(a, l) /\ ReadStep(b, m).code = CodeAfter(b, m)
      /\ ReadStep(a, l).last = LastAfter(a, l) /\ ReadStep(b, m).last = LastAfter(b, m)
  BY ReadFields
<1>4. ReadStep(a, l).kept = ReadStep(b, m).kept
  <2>1. CASE LastAfter(a, l) # "code"
    <3>1. ReadStep(a, l).last # "code" /\ ReadStep(b, m).last # "code"
      BY <1>2, <1>3, <2>1
    <3>2. ReadStep(a, l) \in ReadState /\ ReadStep(b, m) \in ReadState
      BY ReadStepType
    <3>3. ReadStep(a, l).kept = ReadStep(a, l).code /\ ReadStep(b, m).kept = ReadStep(b, m).code
      BY <3>1, <3>2 DEF ReadState
    <3> QED
      BY <1>1, <1>3, <3>3
  <2>2. CASE LastAfter(a, l) = "code" /\ IsFence(l)
    <3>1. ~IsBlank(l) /\ ~IsBlank(m)
      BY <2>2 DEF IsFence, IsBlank
    <3>2. ReadStep(a, l).kept = CodeAfter(a, l) /\ ReadStep(b, m).kept = CodeAfter(b, m)
      BY <3>1, ReadFields
    <3> QED
      BY <1>1, <3>2
  <2>3. CASE LastAfter(a, l) = "code" /\ ~IsFence(l)
    <3>1. a.last = "code"
      BY <2>3, LastIs
    <3>2. l = m
      BY <2>3, <3>1
    <3>3. CASE IsBlank(l)
      <4>1. ReadStep(a, l).kept = a.kept /\ ReadStep(b, m).kept = b.kept
        BY <3>2, <3>3, ReadFields
      <4> QED
        BY <4>1 DEF Alike
    <3>4. CASE ~IsBlank(l)
      <4>1. ReadStep(a, l).kept = CodeAfter(a, l) /\ ReadStep(b, m).kept = CodeAfter(b, m)
        BY <3>2, <3>4, ReadFields
      <4> QED
        BY <1>1, <4>1
    <3> QED
      BY <3>3, <3>4
  <2> QED
    BY <2>1, <2>2, <2>3
<1>5. ReadStep(a, l).signs = ReadStep(b, m).signs
  <2>1. CASE IsFence(l)
    <3>1. ReadStep(a, l).signs = a.signs \cup {l.v} /\ ReadStep(b, m).signs = b.signs \cup {m.v}
      BY <2>1, ReadFields
    <3> QED
      BY <2>1, <3>1 DEF Alike
  <2>2. CASE ~IsFence(l)
    <3>1. ReadStep(a, l).signs = a.signs /\ ReadStep(b, m).signs = b.signs
      BY <2>2, ReadFields
    <3> QED
      BY <3>1 DEF Alike
  <2> QED
    BY <2>1, <2>2
<1> QED
  BY <1>1, <1>2, <1>3, <1>4, <1>5 DEF Alike

(* What a fence and a Setext heading become.                               *)
LEMMA NewLines ==
  ASSUME NEW l \in LineTypes
  PROVE  AsHeading(l).k = "head" /\ (IsFence(l) => WithLanguage(l).k = "lang" /\ WithLanguage(l).v = l.v)
<1>1. AsHeading(l).k = "head"
  BY DEF AsHeading, LineTypes
<1>2. IsFence(l) => WithLanguage(l).k = "lang" /\ WithLanguage(l).v = l.v
  BY DEF WithLanguage, IsFence, LineTypes
<1> QED
  BY <1>1, <1>2

(* Which classes exclude each other.                                       *)
LEMMA ClassesOf ==
  ASSUME NEW l \in LineTypes
  PROVE  /\ IsFence(l) <=> l.k = "fence" \/ l.k = "lang"
         /\ IsFence(l) => ~IsBlank(l) /\ ~IsPlainText(l) /\ l.k # "under" /\ l.k # "head" /\ l.k # "quote"
         /\ IsFence(l) => "indented" \notin l.has /\ "quoted" \notin l.has
         /\ IsBlank(l) => ~IsFence(l) /\ ~IsPlainText(l) /\ l.k # "under"
         /\ IsPlainText(l) => ~IsFence(l) /\ ~IsBlank(l)
         /\ l.k = "head" => ~IsFence(l) /\ ~IsBlank(l) /\ ~IsPlainText(l)
         /\ l.k = "under" => ~IsFence(l) /\ ~IsBlank(l) /\ IsPlainText(l)
         /\ l.k = "lang" => IsFence(l)
BY DEF IsFence, IsBlank, IsPlainText, LineTypes, AtMargin

(* LineByLine keeps the code, and leaves the lines of a settling text      *)
(* settled.                                                                *)
LineKept(a, s, i) ==
  LET R == Reading[a.out]
  IN /\ Alike(R, Reading[Upto(s, i)]) /\ (a.inFence <=> R.last = "code")
     /\ a.skip => i < Len(s) /\ s[i + 1].k = "under" /\ R.last \notin {"code", "plain"}
     /\ Settling(s) =>
          R.settled = "yes" /\ (R.last = "plain" => ~(i < Len(s) /\ NormalizeLine(s[i + 1]).k = "under"))

(* What is asked of a settling text, of a line and of two.                 *)
LEMMA SettlingLines ==
  ASSUME NEW s \in Seq(LineTypes), Settling(s), NEW i \in 1 .. Len(s)
  PROVE  /\ NormalizeLine(NormalizeLine(s[i])) = NormalizeLine(s[i])
         /\ IsFence(NormalizeLine(s[i])) => IsFence(s[i])
         /\ i < Len(s) /\ IsPlainText(NormalizeLine(s[i])) /\ NormalizeLine(s[i + 1]).k = "under" =>
              IsPlainText(s[i]) /\ s[i + 1].k = "under"
         /\ i < Len(s) /\ IsPlainText(s[i]) /\ s[i + 1].k = "under" => NormalizeLine(AsHeading(s[i])) = AsHeading(s[i])
<1>1. s[i] \in ToSet(s)
  BY DEF ToSet
<1>2. Steady(s[i])
  BY <1>1 DEF Settling
<1>3. i < Len(s) => i \in 1 .. Len(s) - 1
  OBVIOUS
<1>4. i < Len(s) =>
        /\ IsPlainText(NormalizeLine(s[i])) /\ NormalizeLine(s[i + 1]).k = "under" =>
             IsPlainText(s[i]) /\ s[i + 1].k = "under"
        /\ IsPlainText(s[i]) /\ s[i + 1].k = "under" => NormalizeLine(AsHeading(s[i])) = AsHeading(s[i])
  BY <1>3 DEF Settling
<1> QED
  BY <1>2, <1>4 DEF Steady

(* Rewriting makes no fence of another line of a settling text.            *)
LEMMA SettlingSurfaces ==
  ASSUME NEW s \in Seq(LineTypes), Settling(s)
  PROVE  ~Surfaces(s)
BY DEF Settling, Steady, Surfaces

(* A step of LineByLine keeps the code, and leaves settled lines.          *)
LEMMA LineStepKeeps ==
  ASSUME NEW s \in Seq(LineTypes), ~Surfaces(s),
         NEW i \in 1 .. Len(s), NEW a \in LineState, LineKept(a, s, i - 1)
  PROVE  LineKept(LineStep(a, s, i), s, i)
<1> DEFINE R == Reading[a.out]
           W == Reading[Upto(s, i - 1)]
           x == s[i]
           b == LineStep(a, s, i)
           underNext == i < Len(s) /\ NormalizeLine(s[i + 1]).k = "under"
<1>1. /\ a.out \in Seq(LineTypes) /\ a.inFence \in BOOLEAN /\ a.skip \in BOOLEAN
      /\ a = [out |-> a.out, inFence |-> a.inFence, skip |-> a.skip]
  BY DEF LineState
<1>2. x \in LineTypes /\ Reading[Upto(s, i)] = ReadStep(W, x) /\ W \in ReadState
  BY UptoRules
<1>3. R \in ReadState /\ \A y \in LineTypes : Reading[Append(a.out, y)] = ReadStep(R, y)
  BY <1>1, ReadingRules
<1>4. (i - 1) + 1 = i /\ i - 1 < Len(s)
  OBVIOUS
<1>5. /\ Alike(R, W) /\ (a.inFence <=> R.last = "code")
      /\ a.skip => x.k = "under" /\ R.last \notin {"code", "plain"}
      /\ Settling(s) => R.settled = "yes" /\ (R.last = "plain" => NormalizeLine(x).k # "under")
  BY <1>4 DEF LineKept
<1>6. NormalizeLine(x) \in LineTypes /\ AsHeading(x) \in LineTypes /\ WithLanguage(x) \in LineTypes
  BY <1>2, NewLineTypes
<1>a. ~IsFence(x) => ~IsFence(NormalizeLine(x))
  BY DEF Surfaces, ToSet
<1>b. Settling(s) =>
        /\ NormalizeLine(NormalizeLine(x)) = NormalizeLine(x)
        /\ IsPlainText(NormalizeLine(x)) /\ underNext => IsPlainText(x) /\ s[i + 1].k = "under"
        /\ i < Len(s) /\ IsPlainText(x) /\ s[i + 1].k = "under" => NormalizeLine(AsHeading(x)) = AsHeading(x)
  BY SettlingLines
<1> HIDE DEF R, W, x, b, underNext
<1> SUFFICES /\ Alike(Reading[b.out], ReadStep(W, x)) /\ (b.inFence <=> Reading[b.out].last = "code")
             /\ b.skip => i < Len(s) /\ s[i + 1].k = "under" /\ Reading[b.out].last \notin {"code", "plain"}
             /\ Settling(s) => Reading[b.out].settled = "yes" /\ (Reading[b.out].last = "plain" => ~underNext)
  BY <1>2 DEF LineKept, b, underNext
<1>7. CASE a.skip
  <2>1. b.out = a.out /\ b.inFence = a.inFence /\ b.skip = FALSE
    BY <1>1, <1>7 DEF LineStep, b
  <2>2. Reading[b.out] = R
    BY <2>1 DEF R
  <2>3. x.k = "under" /\ R.last # "code" /\ R.last # "plain" /\ R.kept = R.code
    BY <1>3, <1>5, <1>7 DEF ReadState
  <2>4. ~IsFence(x) /\ ~IsBlank(x)
    BY <1>2, <2>3, ClassesOf
  <2>5. W.last # "code" /\ W.code = R.code /\ W.signs = R.signs
    BY <1>5, <2>3 DEF Alike
  <2>6. CodeAfter(W, x) = W.code
    BY <2>5 DEF CodeAfter
  <2>7. ReadStep(W, x).code = W.code /\ ReadStep(W, x).kept = W.code /\ ReadStep(W, x).signs = W.signs
    BY <2>4, <2>6, ReadFields
  <2>8. ReadStep(W, x).last # "code"
    BY <2>4, <2>5, LastIs, ReadFields
  <2>9. Alike(R, ReadStep(W, x))
    BY <2>3, <2>5, <2>7, <2>8 DEF Alike
  <2> QED
    BY <1>5, <2>1, <2>2, <2>3, <2>9
<1>8. CASE ~a.skip /\ a.inFence
  <2>1. b.out = Append(a.out, x) /\ b.inFence = (~IsFence(x)) /\ b.skip = FALSE
    <3> HIDE DEF x
    <3>1. b = [a EXCEPT !.out = Append(@, x), !.inFence = ~IsFence(x)]
      BY <1>8 DEF LineStep, b, x
    <3> QED
      BY <1>1, <1>8, <3>1
  <2>2. Reading[b.out] = ReadStep(R, x) /\ R.last = "code"
    BY <1>2, <1>3, <1>5, <1>8, <2>1
  <2>3. Alike(ReadStep(R, x), ReadStep(W, x))
    BY <1>2, <1>3, <1>5, ReadAlike
  <2>4. ~LineFault(R, x)
    BY <2>2 DEF LineFault
  <2>5. ReadStep(R, x).settled = R.settled
    BY <2>4, ReadFields
  <2>6. ReadStep(R, x).last = LastAfter(R, x)
    BY ReadFields
  <2>7. /\ IsFence(x) => LastAfter(R, x) = "other"
        /\ ~IsFence(x) => LastAfter(R, x) = "code"
    BY <2>2, LastIs
  <2> QED
    BY <1>5, <2>1, <2>2, <2>3, <2>5, <2>6, <2>7
<1>9. CASE ~a.skip /\ ~a.inFence
  <2>1. R.last # "code"
    BY <1>5, <1>9
  <2> DEFINE setext == i < Len(s) /\ IsPlainText(x) /\ s[i + 1].k = "under"
  <2>2. CASE setext
    <3> DEFINE y == AsHeading(x)
    <3>1. b.out = Append(a.out, y) /\ b.inFence = a.inFence /\ b.skip = TRUE
      <4> HIDE DEF y
      <4>1. b = [a EXCEPT !.out = Append(@, y), !.skip = TRUE]
        BY <1>9, <2>2 DEF LineStep, b, x, y
      <4> QED
        BY <1>1, <1>9, <4>1
    <3>2. y.k = "head" /\ y \in LineTypes /\ (Settling(s) => NormalizeLine(y) = y)
      BY <1>2, <1>6, <1>b, <2>2, NewLines
    <3> HIDE DEF y
    <3>3. Reading[b.out] = ReadStep(R, y)
      BY <1>3, <3>1, <3>2
    <3>4. ~IsFence(y) /\ ~IsBlank(y) /\ ~IsPlainText(y) /\ ~IsFence(x)
      BY <1>2, <2>2, <3>2, ClassesOf
    <3>5. Alike(ReadStep(R, y), ReadStep(W, x))
      BY <1>2, <1>3, <1>5, <2>1, <3>2, <3>4, ReadAlike
    <3>6. Settling(s) => ~LineFault(R, y)
      BY <3>2 DEF LineFault
    <3>7. (Settling(s) => ReadStep(R, y).settled = "yes") /\ ReadStep(R, y).last = "other"
      BY <1>5, <2>1, <3>4, <3>6, ReadFields, LastIs
    <3> QED
      BY <1>9, <2>2, <3>1, <3>3, <3>5, <3>7
  <2>3. CASE ~setext /\ IsFence(x)
    <3> DEFINE y == WithLanguage(x)
    <3>1. b.out = Append(a.out, y) /\ b.inFence = TRUE /\ b.skip = a.skip
      <4> HIDE DEF y
      <4>1. b = [a EXCEPT !.out = Append(@, y), !.inFence = TRUE]
        BY <1>9, <2>3 DEF LineStep, b, x, y
      <4> QED
        BY <1>1, <1>9, <4>1
    <3>2. y.k = "lang" /\ y \in LineTypes /\ y.v = x.v
      BY <1>2, <1>6, <2>3, NewLines
    <3> HIDE DEF y
    <3>3. Reading[b.out] = ReadStep(R, y)
      BY <1>3, <3>1, <3>2
    <3>4. IsFence(y)
      BY <3>2, ClassesOf
    <3>5. Alike(ReadStep(R, y), ReadStep(W, x))
      BY <1>2, <1>3, <1>5, <2>1, <2>3, <3>2, <3>4, ReadAlike
    <3>6. ~LineFault(R, y)
      BY <3>2, <3>4 DEF LineFault
    <3>7. ReadStep(R, y).settled = R.settled /\ ReadStep(R, y).last = "code"
      BY <2>1, <3>4, <3>6, ReadFields, LastIs
    <3> QED
      BY <1>5, <1>9, <3>1, <3>3, <3>5, <3>7
  <2>4. CASE ~setext /\ ~IsFence(x)
    <3> DEFINE y == NormalizeLine(x)
    <3>1. b.out = Append(a.out, y) /\ b.inFence = a.inFence /\ b.skip = a.skip
      <4> HIDE DEF y
      <4>1. b = [a EXCEPT !.out = Append(@, y)]
        BY <1>9, <2>4 DEF LineStep, b, x, y
      <4> QED
        BY <1>1, <1>9, <4>1
    <3>2. y \in LineTypes /\ ~IsFence(y)
      BY <1>6, <1>a, <2>4
    <3>3. Settling(s) => /\ NormalizeLine(y) = y /\ ~(IsPlainText(y) /\ underNext)
                         /\ R.last = "plain" => y.k # "under"
      BY <1>5, <1>b, <2>4 DEF underNext
    <3> HIDE DEF y
    <3>4. Reading[b.out] = ReadStep(R, y)
      BY <1>3, <3>1, <3>2
    <3>5. Alike(ReadStep(R, y), ReadStep(W, x))
      BY <1>2, <1>3, <1>5, <2>1, <2>4, <3>2, ReadAlike
    <3>6. Settling(s) => ~LineFault(R, y)
      BY <3>2, <3>3, ClassesOf DEF LineFault
    <3>7. (Settling(s) => ReadStep(R, y).settled = "yes") /\ ReadStep(R, y).last = LastAfter(R, y)
      BY <1>5, <3>6, ReadFields
    <3>8. LastAfter(R, y) # "code" /\ (LastAfter(R, y) = "plain" => IsPlainText(y))
      BY <2>1, <3>2, LastIs
    <3> QED
      BY <1>9, <3>1, <3>3, <3>4, <3>5, <3>7, <3>8
  <2> QED
    BY <2>2, <2>3, <2>4
<1> QED
  BY <1>1, <1>7, <1>8, <1>9

(* So LineByLine keeps the code, and settles the lines of a settling text. *)
LEMMA LinesKept ==
  ASSUME NEW s \in Seq(LineTypes), ~Surfaces(s)
  PROVE  /\ LineByLine(s) \in Seq(LineTypes) /\ Alike(Reading[LineByLine(s)], Reading[s])
         /\ Settling(s) => Reading[LineByLine(s)].settled = "yes"
<1> DEFINE N == Len(s)
<1>1. PICK f : LineRun(f, s) /\ LineByLine(s) = f[N].out
  BY LineRuns
<1> DEFINE G == {i \in 0 .. N : LineKept(f[i], s, i)}
<1>2. N \in Nat /\ f \in [0 .. N -> LineState] /\ f[0] = LineStart
  BY <1>1 DEF LineRun
<1>3. 0 \in G
  <2>1. f[0].out = <<>> /\ f[0].inFence = FALSE /\ f[0].skip = FALSE
    BY <1>2 DEF LineStart
  <2>2. Reading[<<>>] = ReadStart /\ Upto(s, 0) = <<>>
    BY ReadingRules, UptoRules
  <2>3. Reading[<<>>].settled = "yes" /\ Reading[<<>>].last = "start"
    BY <2>2 DEF ReadStart
  <2>4. LineKept(f[0], s, 0)
    BY <2>1, <2>2, <2>3 DEF LineKept, Alike
  <2> QED
    BY <1>2, <2>4
<1>4. ASSUME NEW i \in 1 .. N, i - 1 \in G PROVE i \in G
  <2>1. f[i - 1] \in LineState /\ f[i] = LineStep(f[i - 1], s, i) /\ LineKept(f[i - 1], s, i - 1)
    BY <1>1, <1>4 DEF LineRun
  <2>2. LineKept(f[i], s, i)
    BY <2>1, LineStepKeeps
  <2> QED
    BY <1>2, <2>2
<1>5. N \in G
  <2>1. 0 .. N \subseteq G
    <3> HIDE DEF G, N
    <3> QED
      BY <1>2, <1>3, <1>4, UpInduction
  <2>2. N \in 0 .. N
    BY <1>2
  <2> QED
    BY <2>1, <2>2
<1>6. f[N] \in LineState /\ Upto(s, N) = s
  <2>1. N \in 0 .. N
    BY <1>2
  <2> QED
    BY <1>2, <2>1, UptoRules
<1> QED
  BY <1>1, <1>5, <1>6 DEF LineKept, LineState

(* A settled text is settled up to each of its lines, and so is a spaced one. *)
LEMMA SettledUpto ==
  ASSUME NEW t \in Seq(LineTypes)
  PROVE  /\ Reading[t].settled = "yes" => \A i \in 0 .. Len(t) : Reading[Upto(t, i)].settled = "yes"
         /\ Reading[t].spaced = "yes" => \A i \in 0 .. Len(t) : Reading[Upto(t, i)].spaced = "yes"
<1> DEFINE N == Len(t)
           R(i) == Reading[Upto(t, i)]
           G == {i \in 0 .. N : R(i).settled = "yes"}
           H == {i \in 0 .. N : R(i).spaced = "yes"}
<1>1. N \in Nat /\ Upto(t, N) = t /\ \A i \in 1 .. N : R(i) = ReadStep(R(i - 1), t[i]) /\ R(i - 1) \in ReadState
  BY UptoRules
<1> HIDE DEF R
<1>2. \A i \in 1 .. N : R(i).settled = "yes" => R(i - 1).settled = "yes"
  BY <1>1 DEF ReadStep
<1>3. \A i \in 1 .. N : R(i).spaced = "yes" => R(i - 1).spaced = "yes"
  BY <1>1 DEF ReadStep
<1>4. \A i \in 0 .. N - 1 : i + 1 \in 1 .. N /\ (i + 1) - 1 = i /\ i \in 0 .. N /\ i + 1 \in i + 1 .. N
  BY <1>1
<1>5. ASSUME Reading[t].settled = "yes" PROVE 0 .. N \subseteq G
  <2>1. N \in G
    BY <1>1, <1>5 DEF R
  <2>2. ASSUME NEW i \in 0 .. N - 1, \A j \in i + 1 .. N : j \in G PROVE i \in G
    <3>1. i + 1 \in G
      BY <1>4, <2>2
    <3>2. R(i).settled = "yes"
      BY <1>2, <1>4, <3>1
    <3> QED
      BY <1>4, <3>2
  <2> HIDE DEF G, N
  <2> QED
    BY <1>1, <2>1, <2>2, DownInduction
<1>6. ASSUME Reading[t].spaced = "yes" PROVE 0 .. N \subseteq H
  <2>1. N \in H
    BY <1>1, <1>6 DEF R
  <2>2. ASSUME NEW i \in 0 .. N - 1, \A j \in i + 1 .. N : j \in H PROVE i \in H
    <3>1. i + 1 \in H
      BY <1>4, <2>2
    <3>2. R(i).spaced = "yes"
      BY <1>3, <1>4, <3>1
    <3> QED
      BY <1>4, <3>2
  <2> HIDE DEF H, N
  <2> QED
    BY <1>1, <2>1, <2>2, DownInduction
<1> QED
  BY <1>5, <1>6 DEF R

(* A settled text has no line that would be changed, a spaced one no blank *)
(* line too many.                                                          *)
LEMMA FaultFree ==
  ASSUME NEW t \in Seq(LineTypes), NEW i \in 1 .. Len(t)
  PROVE  /\ Reading[t].settled = "yes" => ~LineFault(Reading[Upto(t, i - 1)], t[i])
         /\ Reading[t].spaced = "yes" => ~BlankFault(Reading[Upto(t, i - 1)], t[i])
<1> DEFINE R == Reading[Upto(t, i - 1)]
<1>1. Reading[Upto(t, i)] = ReadStep(R, t[i]) /\ i \in 0 .. Len(t)
  BY UptoRules
<1> HIDE DEF R
<1>2. ASSUME Reading[t].settled = "yes" PROVE ~LineFault(R, t[i])
  <2>1. Reading[Upto(t, i)].settled = "yes"
    BY <1>1, <1>2, SettledUpto
  <2> QED
    BY <1>1, <2>1, ReadFields
<1>3. ASSUME Reading[t].spaced = "yes" PROVE ~BlankFault(R, t[i])
  <2>1. Reading[Upto(t, i)].spaced = "yes"
    BY <1>1, <1>3, SettledUpto
  <2> QED
    BY <1>1, <2>1, ReadFields
<1> QED
  BY <1>2, <1>3 DEF R

(* Collapsing keeps the code and settled lines, and spaces the lines.      *)
BlankKept(a, t, i) ==
  LET R == Reading[a.out]
      W == Reading[Upto(t, i)]
  IN /\ Reading[t].settled = "yes" => R.settled = "yes"
     /\ R.spaced = "yes" /\ Alike(R, W) /\ (a.inFence <=> R.last = "code")
     /\ a.prevBlank <=> R.last \in {"start", "blank"}
     /\ R.last = "plain" => W.last = "plain"

(* A step of collapsing keeps settled lines so and makes them spaced.      *)
LEMMA BlankStepKeeps ==
  ASSUME NEW t \in Seq(LineTypes),
         NEW i \in 1 .. Len(t), NEW a \in BlankState, BlankKept(a, t, i - 1)
  PROVE  BlankKept(BlankStep(a, t[i]), t, i)
<1> DEFINE R == Reading[a.out]
           W == Reading[Upto(t, i - 1)]
           x == t[i]
           b == BlankStep(a, x)
           well == Reading[t].settled = "yes"
<1>1. /\ a.out \in Seq(LineTypes) /\ a.inFence \in BOOLEAN /\ a.prevBlank \in BOOLEAN
      /\ a = [out |-> a.out, inFence |-> a.inFence, prevBlank |-> a.prevBlank]
  BY DEF BlankState
<1>2. x \in LineTypes /\ Reading[Upto(t, i)] = ReadStep(W, x) /\ W \in ReadState
  BY UptoRules
<1>3. Reading[Append(a.out, x)] = ReadStep(R, x) /\ R \in ReadState
  BY <1>1, <1>2, ReadingRules
<1>4. /\ well => R.settled = "yes"
      /\ R.spaced = "yes" /\ Alike(R, W) /\ (a.inFence <=> R.last = "code")
      /\ a.prevBlank <=> R.last \in {"start", "blank"}
      /\ R.last = "plain" => W.last = "plain"
  BY DEF BlankKept
<1>5. well => ~LineFault(W, x)
  BY FaultFree
<1> HIDE DEF R, W, x, b, well
<1> SUFFICES /\ well => Reading[b.out].settled = "yes"
             /\ Reading[b.out].spaced = "yes"
             /\ Alike(Reading[b.out], ReadStep(W, x)) /\ (b.inFence <=> Reading[b.out].last = "code")
             /\ b.prevBlank <=> Reading[b.out].last \in {"start", "blank"}
             /\ Reading[b.out].last = "plain" => ReadStep(W, x).last = "plain"
  BY <1>2 DEF BlankKept, b, x, well
<1>6. well => ~LineFault(R, x)
  BY <1>4, <1>5 DEF LineFault, Alike
<1>7. Alike(ReadStep(R, x), ReadStep(W, x))
  BY <1>2, <1>3, <1>4, ReadAlike
<1>8. /\ well => ReadStep(R, x).settled = "yes"
      /\ ReadStep(R, x).last = LastAfter(R, x) /\ ReadStep(W, x).last = LastAfter(W, x)
      /\ ~BlankFault(R, x) => ReadStep(R, x).spaced = "yes"
  BY <1>4, <1>6, ReadFields
<1>9. CASE IsFence(x)
  <2>1. b.out = Append(a.out, x) /\ b.inFence = (~a.inFence) /\ b.prevBlank = FALSE
    BY <1>9 DEF BlankStep, b
  <2>2. ~BlankFault(R, x)
    BY <1>2, <1>9, ClassesOf DEF BlankFault
  <2>3. LastAfter(R, x) = IF R.last = "code" THEN "other" ELSE "code"
    BY <1>9, LastIs
  <2>4. Reading[b.out] = ReadStep(R, x)
    BY <1>3, <2>1
  <2> QED
    BY <1>4, <1>7, <1>8, <2>1, <2>2, <2>3, <2>4
<1>10. CASE ~IsFence(x) /\ a.inFence
  <2>1. b.out = Append(a.out, x) /\ b.inFence = a.inFence /\ b.prevBlank = a.prevBlank
    <3>1. b = [a EXCEPT !.out = Append(@, x)]
      BY <1>10 DEF BlankStep, b
    <3> QED
      BY <1>1, <3>1
  <2>2. R.last = "code" /\ ~BlankFault(R, x)
    BY <1>4, <1>10 DEF BlankFault
  <2>3. LastAfter(R, x) = "code"
    BY <1>10, <2>2, LastIs
  <2>4. Reading[b.out] = ReadStep(R, x)
    BY <1>3, <2>1
  <2> QED
    BY <1>4, <1>7, <1>8, <1>10, <2>1, <2>2, <2>3, <2>4
<1>11. CASE ~IsFence(x) /\ ~a.inFence /\ IsBlank(x) /\ a.prevBlank
  <2>1. b.out = a.out /\ b.inFence = a.inFence /\ b.prevBlank = TRUE
    <3>1. b = [a EXCEPT !.out = @, !.prevBlank = IsBlank(x)]
      BY <1>11 DEF BlankStep, b
    <3> QED
      BY <1>1, <1>11, <3>1
  <2>2. Reading[b.out] = R
    BY <2>1 DEF R
  <2>3. W.last # "code" /\ R.last # "code" /\ R.last # "plain"
    BY <1>4, <1>11 DEF Alike
  <2>4. LastAfter(W, x) = "blank" /\ CodeAfter(W, x) = W.code
    BY <1>11, <2>3, LastIs DEF CodeAfter
  <2>5. ReadStep(W, x).code = W.code /\ ReadStep(W, x).kept = W.kept /\ ReadStep(W, x).signs = W.signs
    BY <1>11, <2>4, ReadFields
  <2>6. Alike(R, ReadStep(W, x))
    BY <1>4, <1>8, <2>3, <2>4, <2>5 DEF Alike
  <2> QED
    BY <1>4, <1>11, <2>1, <2>2, <2>3, <2>6
<1>12. CASE ~IsFence(x) /\ ~a.inFence /\ ~(IsBlank(x) /\ a.prevBlank)
  <2>1. b.out = Append(a.out, x) /\ b.inFence = a.inFence /\ b.prevBlank = IsBlank(x)
    <3>1. b = [a EXCEPT !.out = Append(@, x), !.prevBlank = IsBlank(x)]
      BY <1>12 DEF BlankStep, b
    <3> QED
      BY <1>1, <1>12, <3>1
  <2>2. ~BlankFault(R, x)
    BY <1>4, <1>12 DEF BlankFault
  <2>3. R.last # "code" /\ W.last # "code"
    BY <1>4, <1>12 DEF Alike
  <2>4. /\ IsBlank(x) => LastAfter(R, x) = "blank"
        /\ ~IsBlank(x) /\ IsPlainText(x) => LastAfter(R, x) = "plain" /\ LastAfter(W, x) = "plain"
        /\ ~IsBlank(x) /\ ~IsPlainText(x) => LastAfter(R, x) = "other"
    BY <1>12, <2>3, LastIs
  <2>5. Reading[b.out] = ReadStep(R, x)
    BY <1>3, <2>1
  <2> QED
    BY <1>4, <1>7, <1>8, <1>12, <2>1, <2>2, <2>3, <2>4, <2>5
<1> QED
  BY <1>1, <1>9, <1>10, <1>11, <1>12

(* Without its blank end a text has the code it keeps.                     *)
LEMMA TrimmedCode ==
  ASSUME NEW t \in Seq(LineTypes)
  PROVE  /\ Reading[Trimmed(t)].code = Reading[t].kept /\ Reading[Trimmed(t)].signs = Reading[t].signs
         /\ Reading[t].settled = "yes" => Reading[Trimmed(t)].settled = "yes"
         /\ Reading[t].spaced = "yes" => Reading[Trimmed(t)].spaced = "yes"
<1> DEFINE N == Len(t)
           m == LastLine(t)
           R(i) == Reading[Upto(t, i)]
           G == {j \in 0 .. N : j >= m => R(j).kept = R(m).code /\ R(j).signs = R(m).signs}
<1>1. N \in Nat /\ Upto(t, N) = t /\ \A i \in 1 .. N : R(i) = ReadStep(R(i - 1), t[i])
  <2>1. N \in Nat
    OBVIOUS
  <2>2. Upto(t, N) = t
    BY UptoRules
  <2>3. \A i \in 1 .. N : Reading[Upto(t, i)] = ReadStep(Reading[Upto(t, i - 1)], t[i])
    BY UptoRules
  <2> QED
    BY <2>1, <2>2, <2>3
<1>2. m \in 0 .. N /\ (m # 0 => ~IsBlank(t[m])) /\ \A j \in m + 1 .. N : IsBlank(t[j])
  BY LastOf
<1>3. Trimmed(t) = Upto(t, m)
  BY TrimmedType DEF Upto
<1>4. R(0).kept = <<>> /\ R(0).code = <<>>
  BY UptoRules, ReadingRules DEF ReadStart
<1> HIDE DEF R, m, N
<1>5. R(m).kept = R(m).code
  <2>1. CASE m = 0
    BY <1>4, <2>1
  <2>2. CASE m # 0
    <3>1. m \in 1 .. N /\ ~IsBlank(t[m])
      BY <1>1, <1>2, <2>2
    <3>2. R(m) = ReadStep(R(m - 1), t[m])
      BY <1>1, <3>1
    <3> QED
      BY <3>1, <3>2, ReadFields
  <2> QED
    BY <2>1, <2>2
<1>6. 0 \in G
  BY <1>1, <1>2, <1>5
<1>7. ASSUME NEW j \in 1 .. N, j - 1 \in G PROVE j \in G
  <2>1. CASE j < m
    BY <1>1, <1>2, <2>1
  <2>2. CASE j = m
    BY <1>1, <1>5, <2>2
  <2>3. CASE j > m
    <3>1. j - 1 >= m /\ j \in m + 1 .. N
      BY <1>1, <1>2, <2>3
    <3>2. R(j) = ReadStep(R(j - 1), t[j]) /\ IsBlank(t[j])
      BY <1>1, <1>2, <3>1
    <3>3. R(j).kept = R(j - 1).kept /\ R(j).signs = R(j - 1).signs
      <4>1. t[j] \in LineTypes
        BY DEF N
      <4>2. ~IsFence(t[j])
        BY <3>2, <4>1, ClassesOf
      <4> QED
        BY <3>2, <4>2, ReadFields
    <3>4. R(j - 1).kept = R(m).code /\ R(j - 1).signs = R(m).signs
      BY <1>7, <3>1
    <3> QED
      BY <1>1, <3>3, <3>4
  <2> QED
    BY <1>1, <1>2, <2>1, <2>2, <2>3
<1>8. 0 .. N \subseteq G
  <2> HIDE DEF G
  <2> QED
    BY <1>1, <1>6, <1>7, UpInduction
<1>9. R(N).kept = R(m).code /\ R(N).signs = R(m).signs
  <2>1. N \in 0 .. N /\ N >= m
    BY <1>1, <1>2
  <2> QED
    BY <1>8, <2>1
<1>10. /\ Reading[t].settled = "yes" => R(m).settled = "yes"
       /\ Reading[t].spaced = "yes" => R(m).spaced = "yes"
  BY <1>2, SettledUpto DEF R, N
<1> QED
  BY <1>1, <1>3, <1>9, <1>10 DEF R

(* So collapsing keeps settled lines so, makes them spaced, and keeps the  *)
(* code up to the last line that is not blank.                             *)
LEMMA BlanksKept ==
  ASSUME NEW t \in Seq(LineTypes)
  PROVE  LET u == Collapsed(t)
         IN /\ u \in Seq(LineTypes) /\ Reading[u].spaced = "yes"
            /\ Reading[t].settled = "yes" => Reading[u].settled = "yes"
            /\ Reading[u].code = Reading[t].kept /\ Reading[u].signs = Reading[t].signs
            /\ u # <<>> => ~IsBlank(u[Len(u)])
<1> DEFINE N == Len(t)
<1>1. PICK f : BlankRun(f, t) /\ Collapsed(t) = Trimmed(f[N].out)
  BY BlankRuns
<1> DEFINE G == {i \in 0 .. N : BlankKept(f[i], t, i)}
<1>2. N \in Nat /\ f \in [0 .. N -> BlankState] /\ f[0] = BlankStart
  BY <1>1 DEF BlankRun
<1>3. 0 \in G
  <2>1. f[0].out = <<>> /\ f[0].inFence = FALSE /\ f[0].prevBlank = TRUE
    BY <1>2 DEF BlankStart
  <2>2. Reading[<<>>] = ReadStart /\ Upto(t, 0) = <<>>
    BY ReadingRules, UptoRules
  <2>3. Reading[<<>>].settled = "yes" /\ Reading[<<>>].spaced = "yes" /\ Reading[<<>>].last = "start"
    BY <2>2 DEF ReadStart
  <2>4. BlankKept(f[0], t, 0)
    BY <2>1, <2>2, <2>3 DEF BlankKept, Alike
  <2> QED
    BY <1>2, <2>4
<1>4. ASSUME NEW i \in 1 .. N, i - 1 \in G PROVE i \in G
  <2>1. f[i - 1] \in BlankState /\ f[i] = BlankStep(f[i - 1], t[i]) /\ BlankKept(f[i - 1], t, i - 1)
    BY <1>1, <1>4 DEF BlankRun
  <2>2. BlankKept(f[i], t, i)
    BY <2>1, BlankStepKeeps
  <2> QED
    BY <1>2, <2>2
<1>5. N \in G
  <2>1. 0 .. N \subseteq G
    <3> HIDE DEF G, N
    <3> QED
      BY <1>2, <1>3, <1>4, UpInduction
  <2>2. N \in 0 .. N
    BY <1>2
  <2> QED
    BY <2>1, <2>2
<1>6. f[N] \in BlankState /\ Upto(t, N) = t
  <2>1. N \in 0 .. N
    BY <1>2
  <2> QED
    BY <1>2, <2>1, UptoRules
<1> DEFINE o == f[N].out
<1>7. /\ o \in Seq(LineTypes) /\ Reading[o].spaced = "yes" /\ Reading[o].kept = Reading[t].kept
      /\ Reading[o].signs = Reading[t].signs /\ (Reading[t].settled = "yes" => Reading[o].settled = "yes")
  BY <1>5, <1>6 DEF BlankKept, BlankState, Alike
<1>8. Collapsed(t) = Trimmed(o)
  BY <1>1
<1> HIDE DEF o
<1>9. /\ Reading[Trimmed(o)].code = Reading[o].kept /\ Reading[Trimmed(o)].signs = Reading[o].signs
      /\ Reading[Trimmed(o)].spaced = "yes"
      /\ Reading[t].settled = "yes" => Reading[Trimmed(o)].settled = "yes"
  BY <1>7, TrimmedCode
<1>10. /\ Trimmed(o) \in Seq(LineTypes) /\ Len(Trimmed(o)) = LastLine(o)
       /\ \A k \in 1 .. LastLine(o) : Trimmed(o)[k] = o[k]
  BY <1>7, TrimmedType
<1>11. LastLine(o) \in Nat /\ (LastLine(o) # 0 => ~IsBlank(o[LastLine(o)]))
  BY <1>7, LastOf
<1>12. ASSUME Trimmed(o) # <<>> PROVE ~IsBlank(Trimmed(o)[Len(Trimmed(o))])
  <2>1. Len(Trimmed(o)) # 0
    BY <1>10, <1>12
  <2>2. LastLine(o) # 0 /\ LastLine(o) \in 1 .. LastLine(o)
    BY <1>10, <1>11, <2>1
  <2> QED
    BY <1>10, <1>11, <2>2
<1> QED
  BY <1>7, <1>8, <1>9, <1>10, <1>12

(* A settled text is what LineByLine makes of it.                          *)
LineStays(a, t, i) ==
  a.out = Upto(t, i) /\ a.skip = FALSE /\ (a.inFence <=> Reading[Upto(t, i)].last = "code")

(* A step of LineByLine over a settled text changes nothing.               *)
LEMMA LineStepStays ==
  ASSUME NEW t \in Seq(LineTypes), Reading[t].settled = "yes",
         NEW i \in 1 .. Len(t), NEW a \in LineState, LineStays(a, t, i - 1)
  PROVE  LineStays(LineStep(a, t, i), t, i)
<1> DEFINE W == Reading[Upto(t, i - 1)]
           x == t[i]
           b == LineStep(a, t, i)
<1>1. /\ a.out \in Seq(LineTypes) /\ a.inFence \in BOOLEAN
      /\ a = [out |-> a.out, inFence |-> a.inFence, skip |-> FALSE]
  BY DEF LineState, LineStays
<1>2. x \in LineTypes /\ Reading[Upto(t, i)] = ReadStep(W, x) /\ Upto(t, i) = Append(Upto(t, i - 1), x)
  BY UptoRules
<1>3. a.out = Upto(t, i - 1) /\ a.skip = FALSE /\ (a.inFence <=> W.last = "code")
  BY DEF LineStays
<1>4. ~LineFault(W, x)
  BY FaultFree
<1>6. i < Len(t) => ~LineFault(ReadStep(W, x), t[i + 1])
  <2> SUFFICES ASSUME i < Len(t) PROVE ~LineFault(ReadStep(W, x), t[i + 1])
    OBVIOUS
  <2>1. i + 1 \in 1 .. Len(t) /\ (i + 1) - 1 = i
    OBVIOUS
  <2>2. ~LineFault(Reading[Upto(t, (i + 1) - 1)], t[i + 1])
    BY <2>1, FaultFree
  <2> QED
    BY <1>2, <2>1, <2>2
<1>7. ReadStep(W, x).last = LastAfter(W, x)
  BY ReadFields
<1> HIDE DEF W, x, b
<1> SUFFICES b.out = Append(a.out, x) /\ b.skip = FALSE /\ (b.inFence <=> LastAfter(W, x) = "code")
  BY <1>2, <1>3, <1>7 DEF LineStays, b
<1>8. CASE a.inFence
  <2>1. b = [a EXCEPT !.out = Append(@, x), !.inFence = ~IsFence(x)]
    BY <1>3, <1>8 DEF LineStep, b, x
  <2>2. b.out = Append(a.out, x) /\ b.skip = FALSE /\ b.inFence = (~IsFence(x))
    BY <1>1, <2>1
  <2>3. W.last = "code"
    BY <1>3, <1>8
  <2>4. /\ IsFence(x) => LastAfter(W, x) = "other"
        /\ ~IsFence(x) => LastAfter(W, x) = "code"
    BY <2>3, LastIs
  <2> QED
    BY <2>2, <2>4
<1>9. CASE ~a.inFence
  <2>1. W.last # "code"
    BY <1>3, <1>9
  <2>2. ~(i < Len(t) /\ IsPlainText(x) /\ t[i + 1].k = "under")
    <3> SUFFICES ASSUME i < Len(t), IsPlainText(x), t[i + 1].k = "under" PROVE FALSE
      OBVIOUS
    <3>0. i < Len(t) /\ IsPlainText(x) /\ t[i + 1].k = "under"
      OBVIOUS
    <3>1. LastAfter(W, x) = "plain"
      BY <1>2, <2>1, <3>0, ClassesOf, LastIs
    <3> QED
      BY <1>6, <1>7, <3>0, <3>1 DEF LineFault
  <2>3. (~IsFence(x) => NormalizeLine(x) = x) /\ x.k # "fence"
    BY <1>4, <2>1 DEF LineFault
  <2>4. CASE IsFence(x)
    <3>1. WithLanguage(x) = x
      BY <2>3 DEF WithLanguage
    <3>2. b = [a EXCEPT !.out = Append(@, WithLanguage(x)), !.inFence = TRUE]
      BY <1>3, <1>9, <2>2, <2>4 DEF LineStep, b, x
    <3>3. b.out = Append(a.out, x) /\ b.skip = FALSE /\ b.inFence = TRUE
      BY <1>1, <3>1, <3>2
    <3> QED
      BY <2>1, <2>4, <3>3, LastIs
  <2>5. CASE ~IsFence(x)
    <3>1. NormalizeLine(x) = x
      BY <2>3, <2>5
    <3>2. b = [a EXCEPT !.out = Append(@, NormalizeLine(x))]
      BY <1>3, <1>9, <2>2, <2>5 DEF LineStep, b, x
    <3>3. b.out = Append(a.out, x) /\ b.skip = FALSE /\ b.inFence = a.inFence
      BY <1>1, <3>1, <3>2
    <3>4. LastAfter(W, x) # "code"
      BY <2>1, <2>5, LastIs
    <3> QED
      BY <1>9, <3>3, <3>4
  <2> QED
    BY <2>4, <2>5
<1> QED
  BY <1>1, <1>8, <1>9

(* So LineByLine leaves a settled text as it is.                           *)
LEMMA LinesStay ==
  ASSUME NEW t \in Seq(LineTypes), Reading[t].settled = "yes"
  PROVE  LineByLine(t) = t
<1> DEFINE N == Len(t)
<1>1. PICK f : LineRun(f, t) /\ LineByLine(t) = f[N].out
  BY LineRuns
<1> DEFINE G == {i \in 0 .. N : LineStays(f[i], t, i)}
<1>2. N \in Nat /\ f \in [0 .. N -> LineState] /\ f[0] = LineStart
  BY <1>1 DEF LineRun
<1>3. 0 \in G
  <2>1. f[0].out = <<>> /\ f[0].inFence = FALSE /\ f[0].skip = FALSE
    BY <1>2 DEF LineStart
  <2>2. Reading[<<>>] = ReadStart /\ Upto(t, 0) = <<>>
    BY ReadingRules, UptoRules
  <2>3. Reading[<<>>].last = "start"
    BY <2>2 DEF ReadStart
  <2>4. LineStays(f[0], t, 0)
    BY <2>1, <2>2, <2>3 DEF LineStays
  <2> QED
    BY <1>2, <2>4
<1>4. ASSUME NEW i \in 1 .. N, i - 1 \in G PROVE i \in G
  <2>1. f[i - 1] \in LineState /\ f[i] = LineStep(f[i - 1], t, i) /\ LineStays(f[i - 1], t, i - 1)
    BY <1>1, <1>4 DEF LineRun
  <2>2. LineStays(f[i], t, i)
    BY <2>1, LineStepStays
  <2> QED
    BY <1>2, <2>2
<1>5. N \in G
  <2>1. 0 .. N \subseteq G
    <3> HIDE DEF G, N
    <3> QED
      BY <1>2, <1>3, <1>4, UpInduction
  <2>2. N \in 0 .. N
    BY <1>2
  <2> QED
    BY <2>1, <2>2
<1>6. Upto(t, N) = t
  BY UptoRules
<1> QED
  BY <1>1, <1>5, <1>6 DEF LineStays

(* A spaced text is what collapsing makes of it.                           *)
BlankStays(a, t, i) ==
  LET W == Reading[Upto(t, i)]
  IN a.out = Upto(t, i) /\ (a.inFence <=> W.last = "code") /\ (a.prevBlank <=> W.last \in {"start", "blank"})

(* A step of collapsing over a spaced text changes nothing.                *)
LEMMA BlankStepStays ==
  ASSUME NEW t \in Seq(LineTypes), Reading[t].spaced = "yes",
         NEW i \in 1 .. Len(t), NEW a \in BlankState, BlankStays(a, t, i - 1)
  PROVE  BlankStays(BlankStep(a, t[i]), t, i)
<1> DEFINE W == Reading[Upto(t, i - 1)]
           x == t[i]
           b == BlankStep(a, x)
<1>1. /\ a.out \in Seq(LineTypes) /\ a.inFence \in BOOLEAN /\ a.prevBlank \in BOOLEAN
      /\ a = [out |-> a.out, inFence |-> a.inFence, prevBlank |-> a.prevBlank]
  BY DEF BlankState
<1>2. Reading[Upto(t, i)] = ReadStep(W, x) /\ Upto(t, i) = Append(Upto(t, i - 1), x)
  BY UptoRules
<1>3. a.out = Upto(t, i - 1) /\ (a.inFence <=> W.last = "code") /\ (a.prevBlank <=> W.last \in {"start", "blank"})
  BY DEF BlankStays
<1>4. ~BlankFault(W, x)
  BY FaultFree
<1>5. ReadStep(W, x).last = LastAfter(W, x)
  BY ReadFields
<1> HIDE DEF W, x, b
<1> SUFFICES /\ b.out = Append(a.out, x) /\ (b.inFence <=> LastAfter(W, x) = "code")
             /\ b.prevBlank <=> LastAfter(W, x) \in {"start", "blank"}
  BY <1>2, <1>3, <1>5 DEF BlankStays, b, x
<1>6. CASE IsFence(x)
  <2>1. b.out = Append(a.out, x) /\ b.inFence = (~a.inFence) /\ b.prevBlank = FALSE
    BY <1>6 DEF BlankStep, b
  <2>2. LastAfter(W, x) = IF W.last = "code" THEN "other" ELSE "code"
    BY <1>6, LastIs
  <2> QED
    BY <1>3, <2>1, <2>2
<1>7. CASE ~IsFence(x) /\ a.inFence
  <2>1. b = [a EXCEPT !.out = Append(@, x)]
    BY <1>7 DEF BlankStep, b
  <2>2. b.out = Append(a.out, x) /\ b.inFence = a.inFence /\ b.prevBlank = a.prevBlank
    BY <1>1, <2>1
  <2>3. W.last = "code" /\ LastAfter(W, x) = "code"
    BY <1>3, <1>7, LastIs
  <2> QED
    BY <1>3, <1>7, <2>2, <2>3
<1>8. CASE ~IsFence(x) /\ ~a.inFence
  <2>1. ~(IsBlank(x) /\ a.prevBlank)
    BY <1>3, <1>4 DEF BlankFault
  <2>2. b = [a EXCEPT !.out = Append(@, x), !.prevBlank = IsBlank(x)]
    BY <1>8, <2>1 DEF BlankStep, b
  <2>3. b.out = Append(a.out, x) /\ b.inFence = a.inFence /\ b.prevBlank = IsBlank(x)
    BY <1>1, <2>2
  <2>4. W.last # "code"
    BY <1>3, <1>8
  <2>5. /\ IsBlank(x) => LastAfter(W, x) = "blank"
        /\ ~IsBlank(x) => LastAfter(W, x) \in {"plain", "other"}
    BY <1>8, <2>4, LastIs
  <2> QED
    BY <1>8, <2>3, <2>5
<1> QED
  BY <1>1, <1>6, <1>7, <1>8

(* So collapsing leaves a spaced text that does not end blank as it is.    *)
LEMMA BlanksStay ==
  ASSUME NEW t \in Seq(LineTypes), Reading[t].spaced = "yes", t # <<>> => ~IsBlank(t[Len(t)])
  PROVE  Collapsed(t) = t
<1> DEFINE N == Len(t)
<1>1. PICK f : BlankRun(f, t) /\ Collapsed(t) = Trimmed(f[N].out)
  BY BlankRuns
<1> DEFINE G == {i \in 0 .. N : BlankStays(f[i], t, i)}
<1>2. N \in Nat /\ f \in [0 .. N -> BlankState] /\ f[0] = BlankStart
  BY <1>1 DEF BlankRun
<1>3. 0 \in G
  <2>1. f[0].out = <<>> /\ f[0].inFence = FALSE /\ f[0].prevBlank = TRUE
    BY <1>2 DEF BlankStart
  <2>2. Reading[<<>>] = ReadStart /\ Upto(t, 0) = <<>>
    BY ReadingRules, UptoRules
  <2>3. Reading[<<>>].last = "start"
    BY <2>2 DEF ReadStart
  <2>4. BlankStays(f[0], t, 0)
    BY <2>1, <2>2, <2>3 DEF BlankStays
  <2> QED
    BY <1>2, <2>4
<1>4. ASSUME NEW i \in 1 .. N, i - 1 \in G PROVE i \in G
  <2>1. f[i - 1] \in BlankState /\ f[i] = BlankStep(f[i - 1], t[i]) /\ BlankStays(f[i - 1], t, i - 1)
    BY <1>1, <1>4 DEF BlankRun
  <2>2. BlankStays(f[i], t, i)
    BY <2>1, BlankStepStays
  <2> QED
    BY <1>2, <2>2
<1>5. N \in G
  <2>1. 0 .. N \subseteq G
    <3> HIDE DEF G, N
    <3> QED
      BY <1>2, <1>3, <1>4, UpInduction
  <2>2. N \in 0 .. N
    BY <1>2
  <2> QED
    BY <2>1, <2>2
<1>6. Upto(t, N) = t
  BY UptoRules
<1>7. Collapsed(t) = Trimmed(t)
  BY <1>1, <1>5, <1>6 DEF BlankStays
<1>8. LastLine(t) = N
  <2>1. LastLine(t) \in 0 .. N /\ \A j \in LastLine(t) + 1 .. N : IsBlank(t[j])
    BY LastOf
  <2>2. CASE N = 0
    BY <2>1, <2>2
  <2>3. CASE N # 0
    <3>1. t # <<>> /\ ~IsBlank(t[N])
      BY <2>3
    <3>2. ~(N \in LastLine(t) + 1 .. N)
      BY <2>1, <3>1
    <3> QED
      BY <1>2, <2>1, <3>2
  <2> QED
    BY <2>2, <2>3
<1>9. Trimmed(t) = SubSeq(t, 1, N)
  BY <1>8, TrimmedType
<1> QED
  BY <1>6, <1>7, <1>9 DEF Upto

(* A normalized text is spaced, and settled if the text was settling; it   *)
(* keeps the code.                                                         *)
LEMMA NormalizedReads ==
  ASSUME NEW s \in Seq(LineTypes), ~Surfaces(s)
  PROVE  LET u == Normalized(s)
         IN /\ u \in Seq(LineTypes) /\ Reading[u].spaced = "yes" /\ (Settling(s) => Reading[u].settled = "yes")
            /\ u # <<>> => ~IsBlank(u[Len(u)])
            /\ Reading[u].code = Reading[Trimmed(s)].code /\ Reading[u].signs = Reading[s].signs
            /\ Reading[Trimmed(s)].signs = Reading[s].signs
<1> DEFINE t == LineByLine(s)
<1>1. t \in Seq(LineTypes) /\ Alike(Reading[t], Reading[s]) /\ (Settling(s) => Reading[t].settled = "yes")
  BY LinesKept
<1>2. Normalized(s) = Collapsed(t)
  BY DEF Normalized
<1> HIDE DEF t
<1>3. LET u == Collapsed(t)
      IN /\ u \in Seq(LineTypes) /\ Reading[u].spaced = "yes"
         /\ Reading[t].settled = "yes" => Reading[u].settled = "yes"
         /\ Reading[u].code = Reading[t].kept /\ Reading[u].signs = Reading[t].signs
         /\ u # <<>> => ~IsBlank(u[Len(u)])
  BY <1>1, BlanksKept
<1>4. Reading[Trimmed(s)].code = Reading[s].kept /\ Reading[Trimmed(s)].signs = Reading[s].signs
  BY TrimmedCode
<1> QED
  BY <1>1, <1>2, <1>3, <1>4 DEF Alike

(* A second normalization changes nothing (rich.go:53) where rewriting the *)
(* lines one by one leaves nothing to do: no step of it, neither of the    *)
(* headings nor of the blank lines, makes work for the next normalization. *)
LEMMA NormalizedTwice ==
  ASSUME NEW s \in Seq(LineTypes), Settling(s)
  PROVE  Normalized(Normalized(s)) = Normalized(s)
<1> DEFINE u == Normalized(s)
<1>1. /\ u \in Seq(LineTypes) /\ Reading[u].settled = "yes" /\ Reading[u].spaced = "yes"
      /\ u # <<>> => ~IsBlank(u[Len(u)])
  BY NormalizedReads, SettlingSurfaces
<1> HIDE DEF u
<1>2. LineByLine(u) = u
  BY <1>1, LinesStay
<1>3. Collapsed(u) = u
  BY <1>1, BlanksStay
<1> QED
  BY <1>2, <1>3 DEF Normalized, u

(* The marks of the fences are those that were read.                       *)
SignsIn(t) == {t[j].v : j \in {k \in DOMAIN t : IsFence(t[k])}}

(* The marks that were read are those of the fences.                       *)
LEMMA SignsRead ==
  ASSUME NEW s \in Seq(LineTypes)
  PROVE  Reading[s].signs = SignsIn(s)
<1> DEFINE G == {t \in Seq(LineTypes) : Reading[t].signs = SignsIn(t)}
<1>1. <<>> \in G
  <2>1. Reading[<<>>] = ReadStart
    BY ReadingRules
  <2>2. Reading[<<>>].signs = {}
    BY <2>1 DEF ReadStart
  <2>3. SignsIn(<<>>) = {}
    BY DEF SignsIn
  <2>4. Reading[<<>>].signs = SignsIn(<<>>)
    BY <2>2, <2>3
  <2>5. <<>> \in Seq(LineTypes)
    OBVIOUS
  <2> QED
    BY <2>4, <2>5
<1>2. ASSUME NEW t \in Seq(LineTypes), NEW l \in LineTypes, t \in G
      PROVE  Append(t, l) \in G
  <2> DEFINE r == Append(t, l)
  <2>1. Reading[t].signs = SignsIn(t)
    BY <1>2
  <2>2. Reading[r] = ReadStep(Reading[t], l)
    BY ReadingRules
  <2>3. /\ IsFence(l) => Reading[r].signs = SignsIn(t) \cup {l.v}
        /\ ~IsFence(l) => Reading[r].signs = SignsIn(t)
    BY <2>1, <2>2, ReadFields
  <2>4. /\ r \in Seq(LineTypes) /\ Len(t) \in Nat /\ DOMAIN r = 1 .. Len(t) + 1 /\ DOMAIN t = 1 .. Len(t)
        /\ r[Len(t) + 1] = l /\ \A i \in 1 .. Len(t) : r[i] = t[i]
    <3>1. r \in Seq(LineTypes) /\ Len(t) \in Nat /\ Len(r) = Len(t) + 1
      BY AppendParts
    <3>2. r[Len(t) + 1] = l /\ \A i \in 1 .. Len(t) : r[i] = t[i]
      BY AppendParts
    <3> QED
      BY <3>1, <3>2
  <2> HIDE DEF r
  <2>5. SignsIn(r) = SignsIn(t) \cup (IF IsFence(l) THEN {l.v} ELSE {})
    BY <2>4 DEF SignsIn
  <2>6. Reading[r].signs = SignsIn(r)
    BY <2>3, <2>5
  <2> QED
    BY <2>4, <2>6 DEF r
<1>3. Seq(LineTypes) \subseteq G
  <2> DEFINE L == LineTypes
  <2>1. \A t \in Seq(L), l \in L : t \in G => Append(t, l) \in G
    BY <1>2
  <2> HIDE DEF G, L
  <2>2. Seq(L) \subseteq G
    BY <1>1, <2>1, SeqInduction
  <2> QED
    BY <2>2 DEF L
<1> QED
  BY <1>3

(* So a text is mixed if two marks were read.                              *)
LEMMA MixedSigns ==
  ASSUME NEW s \in Seq(LineTypes)
  PROVE  Mixed(s) <=> \E v, w \in Reading[s].signs : v # w
<1>1. Mixed(s) <=> \E v, w \in SignsIn(s) : v # w
  BY DEF Mixed, SignsIn, ToSet
<1> QED
  BY <1>1, SignsRead

(* Two sequences of sequences, flattened.                                  *)
LEMMA FlattenConcat ==
  ASSUME NEW A, NEW a \in Seq(Seq(A)), NEW s \in Seq(Seq(A))
  PROVE  FlattenSeq(a \o s) = FlattenSeq(a) \o FlattenSeq(s)
<1> DEFINE T == Seq(A)
           F(x) == FlattenSeq(x)
           G == {b \in Seq(T) : F(a \o b) = F(a) \o F(b)}
<1>1. F(a) \in Seq(A)
  BY FlattenType
<1>2. <<>> \in G
  <2>1. a \o <<>> = a /\ F(a) \o <<>> = F(a)
    BY <1>1
  <2>2. F(<<>>) = <<>>
    BY FlattenEmpty
  <2> HIDE DEF F, T
  <2>3. F(a \o <<>>) = F(a) \o F(<<>>)
    BY <2>1, <2>2
  <2> QED
    BY <2>3
<1>3. ASSUME NEW b \in Seq(T), NEW x \in T, b \in G
      PROVE  Append(b, x) \in G
  <2>1. F(a \o b) = F(a) \o F(b)
    BY <1>3
  <2>2. F(Append(b, x)) = F(b) \o x
    BY FlattenAppend
  <2>3. a \o b \in Seq(T) /\ Append(b, x) \in Seq(T) /\ a \o Append(b, x) = Append(a \o b, x)
    <3> HIDE DEF T
    <3> QED
      BY DEF T
  <2>4. F(Append(a \o b, x)) = F(a \o b) \o x
    BY <2>3, FlattenAppend
  <2>5. F(b) \in Seq(A)
    BY FlattenType
  <2> HIDE DEF F, T
  <2>6. (F(a) \o F(b)) \o x = F(a) \o (F(b) \o x)
    BY <1>1, <2>5 DEF T
  <2>7. F(a \o Append(b, x)) = F(a) \o F(Append(b, x))
    BY <2>1, <2>2, <2>3, <2>4, <2>6
  <2> QED
    BY <2>3, <2>7
<1>4. Seq(T) \subseteq G
  <2> HIDE DEF G, T
  <2> QED
    BY <1>2, <1>3, SeqInduction
<1> QED
  BY <1>4

(* Where fences can be.                                                    *)
LEMMA FenceKind ==
  ASSUME NEW s, NEW i
  PROVE  IsFence(s[i]) <=> KindAt(s, i) = "code"
BY DEF KindAt, IsFence

(* A run of lines of a kind that ends at another kind has no fence.        *)
LEMMA RunUnfenced ==
  ASSUME NEW s \in Seq(LineTypes), NEW i \in 1 .. Len(s), KindAt(s, i) \notin {"code", "formula", "table"}
  PROVE  \A h \in i .. EndOf(s, i) : ~IsFence(s[h])
<1> DEFINE after == i + 1 .. Len(s)
           e == EndOf(s, i)
           kind == KindAt(s, i)
           E == {j \in after : ~((s[j].k = "quote" /\ s[j].v = s[i].v) \/ ("quoted" \in s[j].has /\ s[i].v = 1))}
           F == {j \in after : ~("indented" \in s[j].has /\ s[j].k # "item")}
           G == {j \in after : "indented" \notin s[j].has}
           H == {j \in after : IsBlank(s[j]) \/ KindAt(s, j) # "paragraph"}
<1>1. /\ kind = "quote" => e = Without(s, E)
      /\ kind = "item" => e = Without(s, F)
      /\ kind = "footnote" => e = Without(s, G)
      /\ kind = "paragraph" => e = Without(s, H)
      /\ kind \in {"heading", "media"} => e = i
  <2> HIDE DEF kind, E, F, G, H
  <2> QED
    BY DEF EndOf, kind, E, F, G, H
<1>2. e \in i .. Len(s)
  BY EndIn
<1>3. \A S \in SUBSET after : \A j \in i + 1 .. Without(s, S) : j \notin S
  BY WithIn
<1>4. E \in SUBSET after /\ F \in SUBSET after /\ G \in SUBSET after /\ H \in SUBSET after
  OBVIOUS
<1>5. ~IsFence(s[i])
  BY FenceKind
<1>6. kind \in {"quote", "item", "footnote", "paragraph", "heading", "media"}
  <2>1. kind \in Kinds
    BY KindType
  <2> QED
    BY <2>1 DEF Kinds
<1>7. ASSUME NEW h \in i + 1 .. e PROVE ~IsFence(s[h])
  <2>1. h \in after /\ s[h] \in LineTypes
    BY <1>2
  <2>2. CASE kind = "quote"
    <3>1. h \notin E
      <4> HIDE DEF E, after, e, kind
      <4> QED
        BY <1>1, <1>3, <1>4, <1>7, <2>2
    <3> QED
      BY <2>1, <3>1, ClassesOf
  <2>3. CASE kind = "item"
    <3>1. h \notin F
      <4> HIDE DEF F, after, e, kind
      <4> QED
        BY <1>1, <1>3, <1>4, <1>7, <2>3
    <3> QED
      BY <2>1, <3>1, ClassesOf
  <2>4. CASE kind = "footnote"
    <3>1. h \notin G
      <4> HIDE DEF G, after, e, kind
      <4> QED
        BY <1>1, <1>3, <1>4, <1>7, <2>4
    <3> QED
      BY <2>1, <3>1, ClassesOf
  <2>5. CASE kind = "paragraph"
    <3>1. h \notin H
      <4> HIDE DEF H, after, e, kind
      <4> QED
        BY <1>1, <1>3, <1>4, <1>7, <2>5
    <3>2. KindAt(s, h) = "paragraph"
      BY <2>1, <3>1
    <3> QED
      BY <3>2, FenceKind
  <2>6. CASE kind \in {"heading", "media"}
    BY <1>1, <1>7, <2>6
  <2> QED
    BY <1>6, <2>2, <2>3, <2>4, <2>5, <2>6
<1> QED
  BY <1>2, <1>5, <1>7

(* Nor has another block that is no code and has swallowed none.           *)
LEMMA FenceFree ==
  ASSUME NEW s \in Seq(LineTypes), NEW i \in 1 .. Len(s), KindAt(s, i) # "code",
         KindAt(s, i) \in {"formula", "table"} => \A l \in ToSet(BlockAt(s, i).body) : ~IsFence(l)
  PROVE  \A h \in i .. EndOf(s, i) : ~IsFence(s[h])
<1>1. CASE KindAt(s, i) \notin {"formula", "table"}
  BY <1>1, RunUnfenced
<1>2. CASE KindAt(s, i) \in {"formula", "table"}
  <2> DEFINE body == SubSeq(s, i, EndOf(s, i))
             e == EndOf(s, i)
  <2>1. BlockAt(s, i).body = body
    BY BlockType
  <2>2. body \in Seq(LineTypes) /\ Len(body) = e - i + 1
        /\ \A k \in 1 .. e - i + 1 : body[k] = s[i + k - 1]
    BY BodyType
  <2>3. \A l \in ToSet(body) : ~IsFence(l)
    BY <1>2, <2>1
  <2>4. e \in i .. Len(s)
    BY EndIn
  <2> HIDE DEF body, e
  <2>5. SUFFICES ASSUME NEW h \in i .. e PROVE ~IsFence(s[h])
    BY DEF e
  <2>6. h - i + 1 \in 1 .. e - i + 1 /\ i + (h - i + 1) - 1 = h
    BY <2>4, <2>5
  <2>7. body[h - i + 1] = s[h]
    BY <2>2, <2>6
  <2>8. s[h] \in ToSet(body)
    <3>1. h - i + 1 \in DOMAIN body
      BY <2>2, <2>6
    <3> QED
      BY <2>7, <3>1 DEF ToSet
  <2> QED
    BY <2>3, <2>8
<1> QED
  BY <1>1, <1>2

ReadUpto(t, i) == Reading[Upto(t, i)]

(* One step of reading.                                                    *)
LEMMA ReadNext ==
  ASSUME NEW t \in Seq(LineTypes), NEW i \in 1 .. Len(t)
  PROVE  /\ t[i] \in LineTypes /\ ReadUpto(t, i - 1) \in ReadState
         /\ ReadUpto(t, i - 1).code \in Seq(LineTypes)
         /\ ReadUpto(t, i).code = CodeAfter(ReadUpto(t, i - 1), t[i])
         /\ ReadUpto(t, i).last = LastAfter(ReadUpto(t, i - 1), t[i])
<1>1. /\ t[i] \in LineTypes /\ i - 1 \in 0 .. Len(t)
      /\ Reading[Upto(t, i)] = ReadStep(Reading[Upto(t, i - 1)], t[i])
  BY UptoRules
<1>2. Reading[Upto(t, i - 1)] \in ReadState
  BY <1>1, UptoRules
<1>3. Reading[Upto(t, i - 1)].code \in Seq(LineTypes)
  BY <1>2 DEF ReadState
<1> QED
  BY <1>1, <1>2, <1>3, ReadFields DEF ReadUpto

(* Lines without a fence, where none is open.                              *)
LEMMA QuietReads ==
  ASSUME NEW t \in Seq(LineTypes), NEW i \in 1 .. Len(t), NEW e \in i .. Len(t),
         ReadUpto(t, i - 1).last # "code", \A h \in i .. e : ~IsFence(t[h])
  PROVE  ReadUpto(t, e).code = ReadUpto(t, i - 1).code /\ ReadUpto(t, e).last # "code"
<1> DEFINE N == Len(t)
           Same(h) == ReadUpto(t, h).code = ReadUpto(t, i - 1).code /\ ReadUpto(t, h).last # "code"
           G == {h \in 0 .. N : h >= i - 1 /\ h <= e => Same(h)}
<1>1. N \in Nat /\ 0 \in 0 .. N /\ e \in 0 .. N /\ e >= i - 1
  OBVIOUS
<1>2. Same(i - 1)
  OBVIOUS
<1>3. ASSUME NEW h \in 1 .. N, h >= i, h <= e, Same(h - 1) PROVE Same(h)
  <2>1. ~IsFence(t[h])
    BY <1>3
  <2>2. /\ ReadUpto(t, h).code = CodeAfter(ReadUpto(t, h - 1), t[h])
        /\ ReadUpto(t, h).last = LastAfter(ReadUpto(t, h - 1), t[h])
    BY ReadNext
  <2>3. ReadUpto(t, h - 1).last # "code"
    BY <1>3
  <2>4. CodeAfter(ReadUpto(t, h - 1), t[h]) = ReadUpto(t, h - 1).code
    BY <2>3 DEF CodeAfter
  <2>5. LastAfter(ReadUpto(t, h - 1), t[h]) # "code"
    BY <2>1, <2>3, LastIs
  <2> QED
    BY <1>3, <2>2, <2>4, <2>5
<1> HIDE DEF Same
<1>4. 0 \in G
  <2>1. 0 >= i - 1 => Same(0)
    <3> SUFFICES ASSUME 0 >= i - 1 PROVE Same(0)
      OBVIOUS
    <3>1. i - 1 = 0
      OBVIOUS
    <3> QED
      BY <1>2, <3>1
  <2> QED
    BY <1>1, <2>1
<1>5. ASSUME NEW h \in 1 .. N, h - 1 \in G PROVE h \in G
  <2>1. h >= i - 1 /\ h <= e => Same(h)
    <3> SUFFICES ASSUME h >= i - 1, h <= e PROVE Same(h)
      OBVIOUS
    <3>1. CASE h = i - 1
      BY <1>2, <3>1
    <3>2. CASE h # i - 1
      <4>1. h >= i /\ h - 1 >= i - 1 /\ h - 1 <= e
        BY <3>2
      <4>2. Same(h - 1)
        BY <1>5, <4>1
      <4> QED
        BY <1>3, <4>1, <4>2
    <3> QED
      BY <3>1, <3>2
  <2>2. h \in 0 .. N
    OBVIOUS
  <2> QED
    BY <2>1, <2>2
<1>6. 0 .. N \subseteq G
  <2> HIDE DEF G, N
  <2> QED
    BY <1>1, <1>4, <1>5, UpInduction
<1>7. Same(e)
  BY <1>1, <1>6
<1> QED
  BY <1>7 DEF Same

(* A fence and the lines after it, up to where its block ends.             *)
Unfenced == {l \in LineTypes : ~IsFence(l)}

(* From an opening fence to the end of its block: normalizer and parser    *)
(* agree on it where there is one kind of fences only.                     *)
LEMMA FencedReads ==
  ASSUME NEW t \in Seq(LineTypes), NEW i \in 1 .. Len(t), IsFence(t[i]),
         ReadUpto(t, i - 1).last # "code", ~Mixed(t)
  PROVE  LET e == EndOf(t, i)
         IN /\ ReadUpto(t, e).code = ReadUpto(t, i - 1).code \o Only(SubSeq(t, i + 1, e), Unfenced)
            /\ e = Len(t) \/ ReadUpto(t, e).last # "code"
<1> DEFINE N == Len(t)
           e == EndOf(t, i)
           c == ReadUpto(t, i - 1).code
           S == {j \in i + 1 .. N : IsFence(t[j]) /\ t[j].v = t[i].v}
           Sub(h) == SubSeq(t, i + 1, h)
           Reads(h) == /\ ReadUpto(t, h).code = c \o Only(Sub(h), Unfenced)
                       /\ h \in S => ReadUpto(t, h).last # "code"
                       /\ h \notin S => ReadUpto(t, h).last = "code"
           G == {h \in 0 .. N : h >= i /\ h <= e => Reads(h)}
<1>1. \A j \in i + 1 .. N : IsFence(t[j]) <=> j \in S
  BY DEF Mixed, ToSet
<1>2. e = With(t, S)
  <2>1. KindAt(t, i) = "code"
    BY FenceKind
  <2> QED
    BY <2>1 DEF EndOf, FenceEnds
<1>3. S \in SUBSET (i + 1 .. N)
  OBVIOUS
<1>4. /\ With(t, S) \in i .. N /\ (S # {} => With(t, S) \in S)
      /\ \A j \in i + 1 .. With(t, S) - 1 : j \notin S
  <2> HIDE DEF S
  <2> QED
    BY <1>3, WithIn
<1>5. e \in i .. N /\ (e = N \/ e \in S) /\ \A j \in i + 1 .. e - 1 : j \notin S
  <2>1. S = {} => With(t, S) = N
    BY DEF With
  <2> HIDE DEF S, e
  <2> QED
    BY <1>2, <1>4, <2>1
<1>6. c \in Seq(LineTypes) /\ N \in Nat /\ i \in 1 .. N
  BY ReadNext
<1>7. \A h \in i .. N : Sub(h) \in Seq(LineTypes)
  OBVIOUS
<1>8. ASSUME NEW h \in i + 1 .. N PROVE Sub(h) = Append(Sub(h - 1), t[h])
  OBVIOUS
<1>9. Reads(i)
  <2>1. /\ ReadUpto(t, i).code = CodeAfter(ReadUpto(t, i - 1), t[i])
        /\ ReadUpto(t, i).last = LastAfter(ReadUpto(t, i - 1), t[i])
    BY ReadNext
  <2>2. CodeAfter(ReadUpto(t, i - 1), t[i]) = c
    BY DEF CodeAfter
  <2>3. LastAfter(ReadUpto(t, i - 1), t[i]) = "code"
    BY LastIs
  <2>4. Sub(i) = <<>>
    BY SubSeqEmpty
  <2>5. Only(<<>>, Unfenced) = <<>>
    BY OnlyEmpty
  <2>6. i \notin S
    OBVIOUS
  <2> HIDE DEF Sub, c, S
  <2>7. c \o <<>> = c
    BY <1>6
  <2> QED
    BY <2>1, <2>2, <2>3, <2>4, <2>5, <2>6, <2>7
<1>10. ASSUME NEW h \in 1 .. N, h > i, h <= e, Reads(h - 1) PROVE Reads(h)
  <2> DEFINE x == t[h]
             o == Only(Sub(h - 1), Unfenced)
  <2>1. h - 1 \notin S /\ h \in i + 1 .. N /\ h - 1 \in i .. N
    <3>1. h - 1 = i \/ h - 1 \in i + 1 .. e - 1
      BY <1>5, <1>10
    <3>2. i \notin S
      OBVIOUS
    <3> HIDE DEF S, e
    <3> QED
      BY <1>5, <1>10, <3>1, <3>2
  <2>2. ReadUpto(t, h - 1).last = "code" /\ ReadUpto(t, h - 1).code = c \o o
    BY <1>10, <2>1
  <2>3. /\ ReadUpto(t, h).code = CodeAfter(ReadUpto(t, h - 1), x)
        /\ ReadUpto(t, h).last = LastAfter(ReadUpto(t, h - 1), x) /\ x \in LineTypes
    BY ReadNext
  <2>4. Sub(h - 1) \in Seq(LineTypes) /\ Sub(h) = Append(Sub(h - 1), x)
    BY <1>7, <1>8, <2>1
  <2> HIDE DEF Sub, x
  <2>5. o \in Seq(LineTypes)
    BY <2>4, OnlyType
  <2>6. /\ x \in Unfenced => Only(Append(Sub(h - 1), x), Unfenced) = Append(o, x)
        /\ x \notin Unfenced => Only(Append(Sub(h - 1), x), Unfenced) = o
    BY <2>3, <2>4, OnlyAppend
  <2>7. h \in S <=> IsFence(x)
    BY <1>1, <2>1 DEF x
  <2> HIDE DEF o, c, S
  <2>8. CASE IsFence(x)
    <3>1. x \notin Unfenced
      BY <2>8 DEF Unfenced
    <3>2. CodeAfter(ReadUpto(t, h - 1), x) = ReadUpto(t, h - 1).code
      BY <2>8 DEF CodeAfter
    <3>3. LastAfter(ReadUpto(t, h - 1), x) # "code"
      BY <2>2, <2>8, LastIs
    <3>4. ReadUpto(t, h).code = c \o Only(Sub(h), Unfenced)
      BY <2>2, <2>3, <2>4, <2>6, <3>1, <3>2
    <3> QED
      BY <2>3, <2>7, <2>8, <3>3, <3>4
  <2>9. CASE ~IsFence(x)
    <3>1. x \in Unfenced
      BY <2>3, <2>9 DEF Unfenced
    <3>2. CodeAfter(ReadUpto(t, h - 1), x) = Append(ReadUpto(t, h - 1).code, x)
      BY <2>2, <2>9 DEF CodeAfter
    <3>3. LastAfter(ReadUpto(t, h - 1), x) = "code"
      BY <2>2, <2>9, LastIs
    <3>4. c \o Append(o, x) = Append(c \o o, x)
      BY <1>6, <2>3, <2>5
    <3>5. ReadUpto(t, h).code = c \o Only(Sub(h), Unfenced)
      BY <2>2, <2>3, <2>4, <2>6, <3>1, <3>2, <3>4
    <3> QED
      BY <2>3, <2>7, <2>9, <3>3, <3>5
  <2> QED
    BY <2>8, <2>9
<1> HIDE DEF Reads
<1>11. 0 \in G
  <2>1. 0 \in 0 .. N /\ ~(0 >= i)
    BY <1>6
  <2> QED
    BY <2>1
<1>12. ASSUME NEW h \in 1 .. N, h - 1 \in G PROVE h \in G
  <2>1. h >= i /\ h <= e => Reads(h)
    <3> SUFFICES ASSUME h >= i, h <= e PROVE Reads(h)
      OBVIOUS
    <3>1. CASE h = i
      BY <1>9, <3>1
    <3>2. CASE h # i
      <4>1. h > i /\ h - 1 >= i /\ h - 1 <= e
        <5> HIDE DEF e
        <5> QED
          BY <1>5, <3>2
      <4>2. Reads(h - 1)
        BY <1>12, <4>1
      <4> QED
        BY <1>10, <4>1, <4>2
    <3> QED
      BY <3>1, <3>2
  <2>2. h \in 0 .. N
    OBVIOUS
  <2> QED
    BY <2>1, <2>2
<1>13. 0 .. N \subseteq G
  <2> HIDE DEF G, N
  <2> QED
    BY <1>6, <1>11, <1>12, UpInduction
<1>14. Reads(e)
  <2>1. e \in 0 .. N /\ e >= i /\ e <= e
    <3> HIDE DEF e
    <3> QED
      BY <1>5, <1>6
  <2> QED
    BY <1>13, <2>1
<1> QED
  BY <1>5, <1>14 DEF Reads

(* The code of a block, and of the blocks of a text.                       *)
CodeIn(b) ==
  IF b.kind = "code" THEN Only(Tail(b.body), {l \in LineTypes : ~IsFence(l)}) ELSE <<>>

(* The code in a block of a text.                                          *)
LEMMA CodeInType ==
  ASSUME NEW t \in Seq(LineTypes), NEW i \in 1 .. Len(t)
  PROVE  /\ CodeIn(BlockAt(t, i)) \in Seq(LineTypes)
         /\ KindAt(t, i) # "code" => CodeIn(BlockAt(t, i)) = <<>>
         /\ KindAt(t, i) = "code" => CodeIn(BlockAt(t, i)) = Only(SubSeq(t, i + 1, EndOf(t, i)), Unfenced)
<1> DEFINE b == BlockAt(t, i)
           e == EndOf(t, i)
           body == SubSeq(t, i, e)
<1>1. b.kind = KindAt(t, i) /\ b.body = body
  BY BlockType
<1>2. e \in i .. Len(t)
  BY EndIn
<1>3. Tail(body) = SubSeq(t, i + 1, e) /\ SubSeq(t, i + 1, e) \in Seq(LineTypes)
  <2> HIDE DEF e
  <2> QED
    BY <1>2
<1>4. Only(SubSeq(t, i + 1, e), Unfenced) \in Seq(LineTypes)
  BY <1>3, OnlyType
<1> HIDE DEF b, e, body
<1>5. b.kind = "code" => CodeIn(b) = Only(SubSeq(t, i + 1, e), Unfenced)
  BY <1>1, <1>3 DEF CodeIn, Unfenced
<1>6. b.kind # "code" => CodeIn(b) = <<>>
  BY DEF CodeIn
<1>7. <<>> \in Seq(LineTypes)
  OBVIOUS
<1> QED
  BY <1>1, <1>4, <1>5, <1>6, <1>7 DEF b, e

(* A block adds its code to what was read, and leaves no fence open but at *)
(* the end of the text.                                                    *)
LEMMA BlockReads ==
  ASSUME NEW t \in Seq(LineTypes), NEW i \in 1 .. Len(t), ReadUpto(t, i - 1).last # "code", ~Mixed(t),
         KindAt(t, i) \in {"formula", "table"} => \A l \in ToSet(BlockAt(t, i).body) : ~IsFence(l)
  PROVE  LET e == EndOf(t, i)
         IN /\ ReadUpto(t, e).code = ReadUpto(t, i - 1).code \o CodeIn(BlockAt(t, i))
            /\ e = Len(t) \/ ReadUpto(t, e).last # "code"
<1> DEFINE c == ReadUpto(t, i - 1).code
           e == EndOf(t, i)
<1>1. c \in Seq(LineTypes)
  BY ReadNext
<1>2. e \in i .. Len(t)
  BY EndIn
<1>3. CASE KindAt(t, i) = "code"
  <2>1. IsFence(t[i])
    BY <1>3, FenceKind
  <2>2. CodeIn(BlockAt(t, i)) = Only(SubSeq(t, i + 1, e), Unfenced)
    BY <1>3, CodeInType
  <2> QED
    BY <2>1, <2>2, FencedReads
<1>4. CASE KindAt(t, i) # "code"
  <2>1. CodeIn(BlockAt(t, i)) = <<>>
    BY <1>4, CodeInType
  <2>2. \A h \in i .. e : ~IsFence(t[h])
    BY <1>4, FenceFree
  <2> HIDE DEF e
  <2>3. ReadUpto(t, e).code = c /\ ReadUpto(t, e).last # "code"
    BY <1>2, <2>2, QuietReads
  <2> HIDE DEF c
  <2>4. c \o <<>> = c
    BY <1>1
  <2> QED
    BY <2>1, <2>3, <2>4 DEF c, e
<1> QED
  BY <1>3, <1>4

(* The parser finds the code that the normalizer reads.                    *)
LEMMA ParsedCode ==
  ASSUME NEW t \in Seq(LineTypes), ~Mixed(t), ~Swallowed(t)
  PROVE  CodeOf(t) = Reading[t].code
<1> DEFINE N == Len(t)
           A == BlocksOf(t)
           B == Seq(LineTypes)
           F == [b \in A |-> CodeIn(b)]
           R(i) == ReadUpto(t, i)
<1>1. PICK f : ParseRun(f, t) /\ ParsedBlocks(t) = f[1]
  BY ParseRuns
<1> DEFINE K(i) == FlattenSeq(Each(F, f[i]))
           Reached(i) == \E p \in Seq(A) : f[1] = p \o f[i]
           D(i) == Reached(i + 1) /\ (i = N \/ R(i).last # "code") => R(i).code \o K(i + 1) = R(N).code
           G == {i \in 0 .. N : D(i)}
<1>2. N \in Nat /\ 0 \in 0 .. N /\ N \in 0 .. N /\ f \in [1 .. N + 1 -> Seq(A)] /\ f[N + 1] = <<>>
  BY <1>1 DEF ParseRun
<1>3. F \in [A -> B]
  <2>1. \A b \in A : CodeIn(b) \in B
    BY CodeInType DEF BlocksOf, Starts
  <2> HIDE DEF A, B
  <2> QED
    BY <2>1
<1>4. \A i \in 0 .. N : R(i).code \in Seq(LineTypes)
  BY UptoRules DEF ReadUpto, ReadState
<1>5. N \in G
  <2>1. Each(F, <<>>) = <<>>
    BY DEF Each
  <2>2. K(N + 1) = <<>>
    BY <1>2, <2>1, FlattenEmpty
  <2>3. R(N).code \o <<>> = R(N).code
    <3>1. R(N).code \in Seq(LineTypes)
      BY <1>2, <1>4
    <3> HIDE DEF R
    <3> QED
      BY <3>1
  <2> HIDE DEF K, R, N
  <2> QED
    BY <1>2, <2>2, <2>3
<1>6. ASSUME NEW i \in 0 .. N - 1, \A j \in i + 1 .. N : j \in G
      PROVE  i \in G
  <2> DEFINE k == i + 1
  <2>1. k \in 1 .. N /\ k - 1 = i /\ i \in 0 .. N /\ i # N
    OBVIOUS
  <2>2. SUFFICES ASSUME Reached(k), R(i).last # "code" PROVE R(i).code \o K(k) = R(N).code
    BY <2>1
  <2>3. CASE IsBlank(t[k])
    <3>1. f[k] = f[k + 1]
      BY <1>1, <2>1, <2>3 DEF ParseRun
    <3>2. Reached(k + 1) /\ K(k) = K(k + 1)
      BY <2>2, <3>1
    <3>3. R(k).code = CodeAfter(R(i), t[k]) /\ R(k).last = LastAfter(R(i), t[k])
      BY <2>1, ReadNext
    <3>4. R(k).code = R(i).code
      BY <2>2, <3>3 DEF CodeAfter
    <3>5. ~IsFence(t[k])
      <4>1. t[k] \in LineTypes
        BY <2>1
      <4> QED
        BY <2>3, <4>1, ClassesOf
    <3>6. R(k).last # "code"
      BY <2>2, <3>3, <3>5, LastIs
    <3>7. D(k)
      <4>1. k \in i + 1 .. N
        BY <2>1
      <4>2. k \in G
        <5> HIDE DEF G, k, N
        <5> QED
          BY <1>6, <4>1
      <4> QED
        BY <4>2
    <3> HIDE DEF K, R, Reached
    <3> QED
      BY <3>2, <3>4, <3>6, <3>7
  <2>4. CASE ~IsBlank(t[k])
    <3> DEFINE b == BlockAt(t, k)
               e == EndOf(t, k)
    <3>1. f[k] = <<b>> \o f[e + 1]
      BY <1>1, <2>1, <2>4 DEF ParseRun
    <3>2. e \in k .. N
      BY <2>1, EndIn
    <3>3. b \in A
      BY <2>1, <2>4 DEF BlocksOf, Starts
    <3>4. PICK p \in Seq(A) : f[1] = p \o f[k]
      BY <2>2
    <3>5. f[e + 1] \in Seq(A) /\ f[1] \in Seq(A)
      <4>1. e + 1 \in 1 .. N + 1 /\ 1 \in 1 .. N + 1
        <5> HIDE DEF e
        <5> QED
          BY <1>2, <2>1, <3>2
      <4> HIDE DEF e, A, N
      <4> QED
        BY <1>2, <4>1
    <3>6. Reached(e + 1) /\ \E n \in DOMAIN f[1] : f[1][n] = b
      <4> HIDE DEF A, b, e
      <4> DEFINE q == f[e + 1]
      <4>1. q \in Seq(A) /\ f[1] = p \o (<<b>> \o q)
        BY <3>1, <3>4, <3>5
      <4> HIDE DEF q
      <4>2. p \o (<<b>> \o q) = Append(p, b) \o q /\ Append(p, b) \in Seq(A)
        BY <3>3, <3>4, <4>1
      <4>3. Reached(e + 1)
        BY <4>1, <4>2 DEF q
      <4>4. Len(p) + 1 \in DOMAIN (p \o (<<b>> \o q)) /\ (p \o (<<b>> \o q))[Len(p) + 1] = b
        BY <3>3, <3>4, <4>1
      <4> QED
        BY <4>1, <4>3, <4>4
    <3>7. b.kind \in {"formula", "table"} => \A l \in ToSet(b.body) : ~IsFence(l)
      BY <1>1, <3>6 DEF Swallowed
    <3>8. b.kind = KindAt(t, k)
      BY <2>1, BlockType
    <3>9. /\ R(e).code = R(i).code \o CodeIn(b)
          /\ e = N \/ R(e).last # "code"
      <4>1. ReadUpto(t, k - 1).last # "code"
        BY <2>1, <2>2
      <4>2. KindAt(t, k) \in {"formula", "table"} => \A l \in ToSet(BlockAt(t, k).body) : ~IsFence(l)
        BY <3>7, <3>8
      <4>3. k \in 1 .. Len(t)
        BY <2>1
      <4> HIDE DEF k
      <4>4. /\ ReadUpto(t, EndOf(t, k)).code = ReadUpto(t, k - 1).code \o CodeIn(BlockAt(t, k))
            /\ EndOf(t, k) = Len(t) \/ ReadUpto(t, EndOf(t, k)).last # "code"
        BY <4>1, <4>2, <4>3, BlockReads
      <4> QED
        BY <2>1, <4>4 DEF k
    <3>10. R(e).code \o K(e + 1) = R(N).code
      <4>1. D(e)
        <5> HIDE DEF e
        <5> QED
          BY <1>6, <2>1, <3>2
      <4> HIDE DEF K, R, Reached, e
      <4> QED
        BY <3>6, <3>9, <4>1
    <3>11. K(k) = CodeIn(b) \o K(e + 1)
      <4> DEFINE q == f[e + 1]
      <4>1. <<b>> \in Seq(A) /\ q \in Seq(A) /\ CodeIn(b) \in B
        <5>1. F[b] \in B /\ F[b] = CodeIn(b)
          <6> HIDE DEF A, B, b
          <6>1. F[b] = CodeIn(b)
            BY <3>3
          <6> HIDE DEF F
          <6> QED
            BY <1>3, <3>3, <6>1
        <5> HIDE DEF A, B, b, F
        <5> QED
          BY <3>3, <3>5, <5>1
      <4>2. /\ Each(F, <<b>> \o q) = Each(F, <<b>>) \o Each(F, q)
            /\ Each(F, <<b>>) \in Seq(B) /\ Each(F, q) \in Seq(B)
        <5> HIDE DEF A, B, F, b, q
        <5>1. EachJoins(F, <<b>>, q)
          BY <1>3, <4>1, MapConcat
        <5>2. Each(F, <<b>>) \in Seq(B)
          BY <1>3, <4>1, MapParts
        <5>3. Each(F, q) \in Seq(B)
          BY <1>3, <4>1, MapParts
        <5> QED
          BY <5>1, <5>2, <5>3 DEF EachJoins
      <4>3. Each(F, <<b>>) = <<CodeIn(b)>>
        <5>1. F[b] = CodeIn(b)
          <6> HIDE DEF A, b
          <6> QED
            BY <3>3
        <5> HIDE DEF F, b
        <5> QED
          BY <5>1 DEF Each
      <4>4. FlattenSeq(<<CodeIn(b)>>) = CodeIn(b)
        BY <4>1, FlattenOne
      <4>5. FlattenSeq(Each(F, <<b>>) \o Each(F, q)) = FlattenSeq(Each(F, <<b>>)) \o FlattenSeq(Each(F, q))
        BY <4>2, FlattenConcat
      <4> HIDE DEF F, b, A
      <4> QED
        BY <3>1, <4>2, <4>3, <4>4, <4>5
    <3>12. R(i).code \in B /\ CodeIn(b) \in B /\ K(e + 1) \in B
      <4>1. F[b] \in B /\ F[b] = CodeIn(b)
        <5> HIDE DEF A, B, b
        <5>1. F[b] = CodeIn(b)
          BY <3>3
        <5> HIDE DEF F
        <5> QED
          BY <1>3, <3>3, <5>1
      <4>2. Each(F, f[e + 1]) \in Seq(B)
        <5> HIDE DEF A, B, F, e
        <5> QED
          BY <1>3, <3>5, MapParts
      <4>3. FlattenSeq(Each(F, f[e + 1])) \in B
        BY <4>2, FlattenType
      <4>4. R(i).code \in B
        BY <1>4, <2>1
      <4> QED
        BY <4>1, <4>3, <4>4
    <3> HIDE DEF K, R, b, e
    <3> DEFINE x == R(i).code
               y == CodeIn(b)
               z == K(e + 1)
    <3>13. x \in B /\ y \in B /\ z \in B
      BY <3>12
    <3>14. (x \o y) \o z = R(N).code /\ K(k) = y \o z
      BY <3>9, <3>10, <3>11
    <3> HIDE DEF x, y, z
    <3>15. (x \o y) \o z = x \o (y \o z)
      BY <3>13
    <3> QED
      BY <3>14, <3>15 DEF x
  <2> QED
    BY <2>3, <2>4
<1>7. 0 \in G
  <2>1. 0 .. N \subseteq G
    <3> HIDE DEF G, N
    <3> QED
      BY <1>2, <1>5, <1>6, DownInduction
  <2> QED
    BY <1>2, <2>1
<1>8. f[1] \in Seq(A) /\ Reached(1)
  <2>1. f[1] \in Seq(A)
    BY <1>2
  <2>2. <<>> \in Seq(A) /\ f[1] = <<>> \o f[1]
    <3> HIDE DEF A
    <3> QED
      BY <2>1
  <2> QED
    BY <2>1, <2>2
<1>9. R(0).code = <<>> /\ R(0).last # "code" /\ R(N) = Reading[t]
  <2>1. Upto(t, 0) = <<>> /\ Upto(t, N) = t /\ Reading[<<>>] = ReadStart
    BY UptoRules, ReadingRules
  <2> QED
    BY <2>1 DEF ReadUpto, ReadStart
<1>10. K(1) \in B
  <2>1. Each(F, f[1]) \in Seq(B)
    <3> HIDE DEF A, B, F
    <3> QED
      BY <1>3, <1>8, MapParts
  <2> QED
    BY <2>1, FlattenType
<1>11. K(1) = Reading[t].code
  <2>1. R(0).code \o K(0 + 1) = R(N).code
    <3>1. D(0)
      BY <1>7
    <3>2. 0 + 1 = 1
      OBVIOUS
    <3> HIDE DEF R, K, Reached
    <3> QED
      BY <1>8, <1>9, <3>1, <3>2
  <2> HIDE DEF K, R
  <2>2. <<>> \o K(1) = K(1) /\ 0 + 1 = 1
    BY <1>10
  <2> QED
    BY <1>9, <2>1, <2>2
<1>12. CodeOf(t) = K(1)
  <2> DEFINE found == f[1]
  <2>1. \A n \in DOMAIN found : F[found[n]] = CodeIn(found[n])
    <3>1. \A n \in DOMAIN found : found[n] \in A
      <4> HIDE DEF A
      <4> QED
        BY <1>8
    <3> HIDE DEF A, found
    <3> QED
      BY <3>1
  <2> HIDE DEF F
  <2>2. Each(F, found) = [n \in DOMAIN found |-> CodeIn(found[n])]
    BY <2>1 DEF Each
  <2> QED
    BY <1>1, <2>2 DEF CodeOf, CodeIn
<1> QED
  BY <1>11, <1>12

(* The normalizer keeps code and is idempotent, with the exceptions that   *)
(* CodeKept and NormalizedOnce name, whatever rewriting makes of each      *)
(* line.  For all texts, limits and rewritings.                            *)
THEOREM NormalizerSoundHolds == Spec => []NormalizerSound
<1>1. ASSUME RichShape PROVE NormalizerSound
  <2> SUFFICES ASSUME richStage = "normalized" PROVE CodeKept /\ NormalizedOnce
    BY DEF NormalizerSound
  <2> DEFINE t == Trimmed(source)
  <2>1. lines = Normalized(source) /\ source \in Seq(LineTypes)
    BY <1>1, Limits DEF RichShape
  <2>2. ~Surfaces(source) =>
          /\ lines \in Seq(LineTypes) /\ Reading[lines].code = Reading[t].code
          /\ Reading[lines].signs = Reading[source].signs /\ Reading[t].signs = Reading[source].signs
    BY <2>1, NormalizedReads
  <2>3. t \in Seq(LineTypes)
    BY <2>1, TrimmedType
  <2>4. CodeKept
    <3> HIDE DEF t
    <3> SUFFICES ASSUME ~Mixed(source), ~Surfaces(source), ~Swallowed(t), ~Swallowed(lines) PROVE CodeOf(lines) = CodeOf(t)
      BY DEF CodeKept, t
    <3>1. ~Mixed(lines) /\ ~Mixed(t)
      BY <2>1, <2>2, <2>3, MixedSigns
    <3>2. CodeOf(lines) = Reading[lines].code
      BY <2>2, <3>1, ParsedCode
    <3>3. CodeOf(t) = Reading[t].code
      BY <2>3, <3>1, ParsedCode
    <3> QED
      BY <2>2, <3>2, <3>3
  <2>5. NormalizedOnce
    BY <2>1, NormalizedTwice DEF NormalizedOnce
  <2> QED
    BY <2>4, <2>5
<1> QED
  BY <1>1, ShapeKept, PTL
=============================================================================
