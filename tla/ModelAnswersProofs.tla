-------------------------- MODULE ModelAnswersProofs --------------------------
(***************************************************************************)
(* What is made of the language model's answers: the evaluation of a       *)
(* session, from its transcript to its report, and the simulated debtor,   *)
(* for any transcripts, standards, definitions, messages and answers.      *)
(*                                                                         *)
(* The argument for the evaluation: the pipeline reads a prefix of the     *)
(* lines, of which none is ever changed, keeps an answer only when it is   *)
(* grounded in that prefix and in the pinned standard, and stores what is  *)
(* computed from the kept answer.  The rest is about what is computed.     *)
(* Sums, selections and flattened lists are folds: each is unfolded once,  *)
(* by climbing from zero to its length, into a fact about its elements.    *)
(*                                                                         *)
(* The argument for the debtor: both transports look for an ending before  *)
(* they ask the model, the reply is chosen among what the script does not  *)
(* prohibit, and a session pins its script before anybody speaks, so that  *)
(* what was said was said under the script that is pinned now.             *)
(***************************************************************************)
EXTENDS DebtorTurn, EvaluationRun, WellFoundedInduction, FiniteSetTheorems, TLAPS

-----------------------------------------------------------------------------
(* Numbers and sequences *)

\* A set of natural numbers that is not empty has a least element.
LEMMA LeastExists ==
    ASSUME NEW S \in SUBSET Nat, S # {}
    PROVE  Min(S) \in S /\ \A n \in S : Min(S) <= n
<1> DEFINE R == {ss \in Nat \X Nat : ss[1] < ss[2]}
<1>1. IsWellFoundedOn(R, Nat)
    BY NatLessThanWellFounded DEF OpToRel
<1> HIDE DEF R
<1>2. PICK n \in S : \A m \in S : ~(<<m, n>> \in R)
    BY <1>1, WFMin
<1>3. ASSUME NEW m \in S PROVE n <= m
    <2>1. m \in Nat /\ n \in Nat /\ <<m, n>> \notin R
        BY <1>2
    <2>2. <<m, n>> \in Nat \X Nat /\ <<m, n>>[1] = m /\ <<m, n>>[2] = n
        BY <2>1
    <2>3. m < n => <<m, n>> \in R
        BY <2>2 DEF R
    <2> QED
        BY <2>1, <2>3
<1> QED
    BY <1>3 DEF Min

\* Induction up to n, with the predicate as a set.
LEMMA Climb ==
    ASSUME NEW n \in Nat, NEW P, 0 \in P,
           \A k \in Nat : k < n /\ k \in P => k + 1 \in P
    PROVE  \A k \in 0..n : k \in P
<1> DEFINE bad == {k \in 0..n : k \notin P}
<1> SUFFICES bad = {}
    OBVIOUS
<1> SUFFICES ASSUME bad # {} PROVE FALSE
    OBVIOUS
<1>1. bad \in SUBSET Nat
    OBVIOUS
<1>2. Min(bad) \in bad /\ \A k \in bad : Min(bad) <= k
    BY <1>1, LeastExists
<1> DEFINE m == Min(bad)
<1>3. m \in 0..n /\ m \notin P /\ \A k \in 0..n : k < m => k \in P
    <2> HIDE DEF m
    <2>1. m \in bad /\ \A k \in bad : m <= k
        BY <1>2 DEF m
    <2> QED BY <2>1
<1> HIDE DEF m
<1>4. m # 0 /\ m - 1 \in 0..n /\ m - 1 < m
    BY <1>3
<1> QED
    BY <1>3, <1>4

\* A set of numbers up to k that is not empty has a greatest element.
LEMMA GreatestExists ==
    ASSUME NEW k \in Nat, NEW S \in SUBSET (1..k), S # {}
    PROVE  Max(S) \in S /\ \A n \in S : n <= Max(S)
<1> DEFINE U == {n \in Nat : \A m \in S : m <= n}
<1>1. U \in SUBSET Nat /\ k \in U
    OBVIOUS
<1>2. Min(U) \in U /\ \A n \in U : Min(U) <= n
    BY <1>1, LeastExists
<1> DEFINE u == Min(U)
<1>3. u \in Nat /\ (\A m \in S : m <= u) /\ \A n \in U : u <= n
    BY <1>2
<1> HIDE DEF u
<1>4. u \in S
    <2> SUFFICES ASSUME u \notin S PROVE FALSE
        OBVIOUS
    <2>1. \A m \in S : m <= u - 1 /\ m \in 1..k
        BY <1>3
    <2>2. u - 1 \in Nat
        <3>1. PICK m \in S : TRUE
            OBVIOUS
        <3>2. m \in 1..k /\ m <= u - 1
            BY <2>1
        <3> QED BY <3>2, <1>3
    <2>3. u - 1 \in U
        BY <2>2, <2>1
    <2> QED BY <2>3, <1>3
<1> QED
    BY <1>3, <1>4 DEF Max

\* A sum is reached by partial sums.
LEMMA SumSteps ==
    ASSUME NEW s \in Seq(Int)
    PROVE  \E p \in [0..Len(s) -> Int] :
              /\ p[0] = 0
              /\ \A i \in 1..Len(s) : p[i] = p[i-1] + s[i]
              /\ SumOf(s) = p[Len(s)]
<1> DEFINE F(G, k) == [S \in SUBSET (1..k) |->
                          IF S = {} THEN 0 ELSE G[S \ {Max(S)}] + s[Max(S)]]
           N == Len(s)
           P == {k \in 0..N : \E G \in [SUBSET (1..k) -> Int] : G = F(G, k)}
<1>n. N \in Nat /\ DOMAIN s = 1..N /\ \A i \in 1..N : s[i] \in Int
    OBVIOUS
<1> HIDE DEF N
<1>1. 0 \in P
    <2> DEFINE G == [S \in SUBSET (1..0) |-> 0]
    <2>1. \A S \in SUBSET (1..0) : S = {}
        OBVIOUS
    <2>2. G = F(G, 0) /\ G \in [SUBSET (1..0) -> Int]
        BY <2>1
    <2> QED BY <2>2, <1>n
<1>2. ASSUME NEW k \in Nat, k < N, k \in P PROVE k + 1 \in P
    <2>1. PICK G \in [SUBSET (1..k) -> Int] : G = F(G, k)
        BY <1>2
    <2>g. \A S \in SUBSET (1..k) : /\ G[S] \in Int
              /\ G[S] = IF S = {} THEN 0 ELSE G[S \ {Max(S)}] + s[Max(S)]
        BY <2>1
    <2> HIDE DEF F
    <2> DEFINE H == [S \in SUBSET (1..(k+1)) |->
                        IF k + 1 \in S THEN G[S \ {k+1}] + s[k+1] ELSE G[S]]
    <2>2. \A S \in SUBSET (1..(k+1)) : (k + 1 \in S => S \ {k+1} \in SUBSET (1..k))
                                 /\ (k + 1 \notin S => S \in SUBSET (1..k))
        OBVIOUS
    <2>3. k + 1 \in 1..N /\ s[k+1] \in Int
        BY <1>2, <1>n
    <2>4. H \in [SUBSET (1..(k+1)) -> Int]
        BY <2>g, <2>2, <2>3
    <2>5. ASSUME NEW S \in SUBSET (1..(k+1))
          PROVE  H[S] = IF S = {} THEN 0 ELSE H[S \ {Max(S)}] + s[Max(S)]
        <3>1. CASE k + 1 \in S
            <4>1. Max(S) \in S /\ \A n \in S : n <= Max(S)
                <5>1. k + 1 \in Nat /\ S # {}
                    BY <3>1
                <5> QED BY <5>1, GreatestExists
            <4>2. Max(S) = k + 1
                <5>1. Max(S) \in 1..(k+1) /\ k + 1 <= Max(S)
                    BY <4>1, <3>1
                <5> HIDE DEF H
                <5> QED BY <5>1
            <4>3. S \ {k+1} \in SUBSET (1..(k+1)) /\ k + 1 \notin S \ {k+1}
                OBVIOUS
            <4>4. H[S \ {k+1}] = G[S \ {k+1}]
                BY <4>3
            <4> QED BY <3>1, <4>2, <4>4
        <3>2. CASE k + 1 \notin S
            <4>1. S \in SUBSET (1..k) /\ H[S] = G[S]
                BY <2>2, <3>2
            <4>2. CASE S = {}
                BY <4>1, <4>2, <2>g
            <4>3. CASE S # {}
                <5>1. S \ {Max(S)} \in SUBSET (1..(k+1)) /\ k + 1 \notin S \ {Max(S)}
                    BY <3>2
                <5>2. H[S \ {Max(S)}] = G[S \ {Max(S)}]
                    BY <5>1
                <5> QED BY <4>1, <4>3, <5>2, <2>g
            <4> QED BY <4>2, <4>3
        <3> QED BY <3>1, <3>2
    <2> HIDE DEF H
    <2>6. H = F(H, k+1)
        BY <2>4, <2>5 DEF F
    <2>7. \E g \in [SUBSET (1..(k+1)) -> Int] : g = F(g, k+1)
        BY <2>4, <2>6
    <2> QED BY <2>3, <2>7, <1>n
<1>3. \A k \in 0..N : k \in P
    <2> HIDE DEF P
    <2>1. \A k \in Nat : k < N /\ k \in P => k + 1 \in P
        BY <1>2
    <2> QED BY <1>n, <1>1, <2>1, Climb
<1>4. PICK G \in [SUBSET (1..N) -> Int] : G = F(G, N)
    <2>1. N \in P
        <3> HIDE DEF P
        <3> QED BY <1>3, <1>n
    <2> HIDE DEF F
    <2> QED BY <2>1
<1> DEFINE iter == CHOOSE g : g = F(g, N)
<1>5. iter = F(iter, N)
    BY <1>4
<1>6. SumOf(s) = iter[1..N]
    BY <1>n DEF SumOf, FoldLeft, MapThenFoldSet
<1>7. \A S \in SUBSET (1..N) :
          iter[S] = IF S = {} THEN 0 ELSE iter[S \ {Max(S)}] + s[Max(S)]
    <2> HIDE DEF iter
    <2> QED BY <1>5
<1> DEFINE p == [i \in 0..N |-> iter[1..i]]
<1>8. p[0] = 0
    <2>1. 1..0 = {} /\ {} \in SUBSET (1..N) /\ 0 \in 0..N
        BY <1>n
    <2> HIDE DEF iter
    <2>2. iter[{}] = 0
        BY <2>1, <1>7
    <2> QED BY <2>1, <2>2
<1>m. ASSUME NEW i \in 1..N PROVE Max(1..i) = i /\ (1..i) \ {i} = 1..(i-1)
    <2>1. Max(1..i) \in 1..i /\ \A n \in 1..i : n <= Max(1..i)
        <3>1. i \in Nat /\ 1..i # {} /\ 1..i \in SUBSET (1..i)
            BY <1>n
        <3> QED BY <3>1, GreatestExists
    <2>2. i <= Max(1..i)
        BY <2>1
    <2> DEFINE m == Max(1..i)
    <2> HIDE DEF m
    <2>3. m \in 1..i /\ i <= m
        BY <2>1, <2>2 DEF m
    <2>4. m = i
        BY <2>3
    <2> QED BY <2>4 DEF m
<1>9. ASSUME NEW i \in 1..N PROVE p[i] = p[i-1] + s[i]
    <2>1. Max(1..i) = i /\ (1..i) \ {i} = 1..(i-1)
        BY <1>m
    <2>2. 1..i \in SUBSET (1..N) /\ 1..i # {} /\ i \in 0..N /\ i - 1 \in 0..N
        <3> HIDE DEF iter, p, P, F
        <3>1. i \in 1..i /\ \A j \in 1..i : j \in 1..N
            BY <1>n
        <3>2. i \in 0..N /\ i - 1 \in 0..N
            BY <1>n
        <3> QED BY <3>1, <3>2
    <2> HIDE DEF iter
    <2>3. iter[1..i] = iter[(1..i) \ {Max(1..i)}] + s[Max(1..i)]
        BY <2>2, <1>7
    <2> QED BY <2>1, <2>2, <2>3
<1>10. \A i \in 0..N : p[i] \in Int
    <2> HIDE DEF p
    <2> DEFINE Q == {i \in 0..N : p[i] \in Int}
    <2>1. 0 \in Q
        BY <1>8, <1>n
    <2>2. ASSUME NEW k \in Nat, k < N, k \in Q PROVE k + 1 \in Q
        <3>1. k + 1 \in 1..N /\ (k + 1) - 1 = k /\ p[k] \in Int
            BY <2>2, <1>n
        <3>2. p[k+1] = p[k] + s[k+1]
            BY <3>1, <1>9
        <3>3. s[k+1] \in Int
            BY <3>1, <1>n
        <3> QED BY <3>1, <3>2, <3>3
    <2> HIDE DEF Q
    <2>3. \A k \in 0..N : k \in Q
        BY <1>n, <2>1, <2>2, Climb
    <2> QED BY <2>3 DEF Q
<1>11. p \in [0..N -> Int]
    BY <1>10
<1>12. SumOf(s) = p[N]
    BY <1>6, <1>n
<1> HIDE DEF p
<1> QED
    BY <1>8, <1>9, <1>11, <1>12 DEF N

-----------------------------------------------------------------------------
\* at: which element of which sequence each element of flat is.
FlattenedAt(flat, ss, at) ==
    /\ at \in [DOMAIN flat -> Nat \X Nat]
    /\ \A n \in DOMAIN flat :
           /\ at[n][1] \in DOMAIN ss /\ at[n][2] \in DOMAIN ss[at[n][1]]
           /\ flat[n] = ss[at[n][1]][at[n][2]]
    /\ \A m, n \in DOMAIN flat : at[m] = at[n] => m = n

\* Flattening: every element of the list stands at its own place of one of
\* the lists.
LEMMA FlattenPlaces ==
    ASSUME NEW T, NEW ss \in Seq(Seq(T))
    PROVE  /\ FlattenSeq(ss) \in Seq(T)
           /\ \E at : FlattenedAt(FlattenSeq(ss), ss, at)
<1> DEFINE N == Len(ss)
           Rec(f, k) == f = [i \in 1..k |-> IF i = 1 THEN ss[i] ELSE f[i-1] \o ss[i]]
           From(t, k, at) ==
              /\ at \in [DOMAIN t -> Nat \X Nat]
              /\ \A n \in DOMAIN t :
                      /\ at[n][1] \in 1..k /\ at[n][2] \in DOMAIN ss[at[n][1]]
                      /\ t[n] = ss[at[n][1]][at[n][2]]
              /\ \A m, n \in DOMAIN t : at[m] = at[n] => m = n
<1>n. N \in Nat /\ DOMAIN ss = 1..N /\ \A i \in 1..N : ss[i] \in Seq(T)
    OBVIOUS
<1>1. CASE N = 0
    <2>1. FlattenSeq(ss) = ss
        BY <1>1 DEF FlattenSeq
    <2>2. DOMAIN ss = {} /\ ss = <<>>
        BY <1>1
    <2> DEFINE at == [n \in {} |-> <<0, 0>>]
    <2>3. at \in [{} -> Nat \X Nat]
        OBVIOUS
    <2> HIDE DEF at
    <2>4. DOMAIN FlattenSeq(ss) = {} /\ FlattenSeq(ss) \in Seq(T)
        BY <2>1, <2>2
    <2>5. FlattenedAt(FlattenSeq(ss), ss, at)
        BY <2>3, <2>4 DEF FlattenedAt
    <2> QED BY <2>4, <2>5
<1>2. CASE N # 0
    <2> DEFINE P == {k \in 0..N : k # 0 => \E f : Rec(f, k) /\ f \in [1..k -> Seq(T)]}
    <2>1. 0 \in P
        BY <1>n
    <2>2. ASSUME NEW k \in Nat, k < N, k \in P PROVE k + 1 \in P
        <3>0. k + 1 \in 1..N /\ ss[k+1] \in Seq(T) /\ k + 1 \in 0..N
            BY <2>2, <1>n
        <3>1. CASE k = 0
            <4> DEFINE f == [i \in 1..1 |-> ss[1]]
            <4>1. Rec(f, 1) /\ f \in [1..1 -> Seq(T)]
                BY <3>1, <3>0
            <4> HIDE DEF f, Rec
            <4> QED BY <4>1, <3>1, <3>0
        <3>2. CASE k # 0
            <4>1. PICK f \in [1..k -> Seq(T)] : Rec(f, k)
                BY <2>2, <3>2
            <4>2. \A i \in 1..k : f[i] = IF i = 1 THEN ss[i] ELSE f[i-1] \o ss[i]
                BY <4>1
            <4> DEFINE g == [i \in 1..(k+1) |-> IF i = k + 1 THEN f[k] \o ss[k+1] ELSE f[i]]
            <4>3. f[k] \in Seq(T) /\ f[k] \o ss[k+1] \in Seq(T)
                BY <3>0, <3>2
            <4>4. g \in [1..(k+1) -> Seq(T)]
                BY <4>3
            <4>5. ASSUME NEW i \in 1..(k+1)
                  PROVE  g[i] = IF i = 1 THEN ss[i] ELSE g[i-1] \o ss[i]
                <5>1. CASE i = k + 1
                    <6>1. i # 1 /\ i - 1 = k /\ k \in 1..(k+1) /\ k # k + 1
                        BY <5>1, <3>2
                    <6>2. g[i-1] = f[k]
                        BY <6>1
                    <6> QED BY <5>1, <6>1, <6>2
                <5>2. CASE i # k + 1
                    <6>1. i \in 1..k /\ g[i] = f[i]
                        BY <5>2
                    <6>2. i # 1 => i - 1 \in 1..(k+1) /\ i - 1 # k + 1
                        BY <6>1
                    <6>3. i # 1 => g[i-1] = f[i-1]
                        BY <6>2
                    <6> QED BY <6>1, <6>3, <4>2
                <5> QED BY <5>1, <5>2
            <4> HIDE DEF g
            <4>6. Rec(g, k+1)
                BY <4>4, <4>5
            <4> HIDE DEF Rec
            <4> QED BY <4>4, <4>6, <3>0
        <3> QED BY <3>1, <3>2
    <2>3. \A k \in 0..N : k \in P
        <3> HIDE DEF P
        <3>1. \A k \in Nat : k < N /\ k \in P => k + 1 \in P
            BY <2>2
        <3> HIDE DEF N
        <3> QED BY <1>n, <2>1, <3>1, Climb
    <2>4. N \in P
        <3> HIDE DEF P
        <3> QED BY <2>3, <1>n
    <2>5. PICK f : Rec(f, N) /\ f \in [1..N -> Seq(T)]
        <3> HIDE DEF Rec
        <3> QED BY <2>4, <1>2
    <2> DEFINE flat == CHOOSE f2 : Rec(f2, N)
    <2>6. Rec(flat, N)
        <3> HIDE DEF Rec
        <3> QED BY <2>5
    <2>7. FlattenSeq(ss) = flat[N]
        BY <1>2 DEF FlattenSeq
    <2> HIDE DEF flat
    <2>8. \A i \in 1..N : flat[i] = IF i = 1 THEN ss[i] ELSE flat[i-1] \o ss[i]
        BY <2>6
    <2> DEFINE R == {k \in 0..N : k # 0 => flat[k] \in Seq(T) /\ \E at : From(flat[k], k, at)}
    <2>9. 0 \in R
        BY <1>n
    <2>10. ASSUME NEW k \in Nat, k < N, k \in R PROVE k + 1 \in R
        <3>0. k + 1 \in 1..N /\ ss[k+1] \in Seq(T) /\ k + 1 \in 0..N
            BY <2>10, <1>n
        <3>1. CASE k = 0
            <4>1. flat[1] = ss[1] /\ ss[1] \in Seq(T) /\ 1 \in 1..1
                BY <3>0, <3>1, <2>8
            <4> DEFINE at == [n \in DOMAIN ss[1] |-> <<1, n>>]
            <4>2. \A n \in DOMAIN ss[1] : n \in Nat /\ at[n] = <<1, n>> /\ at[n][1] = 1 /\ at[n][2] = n
                BY <4>1
            <4>3. at \in [DOMAIN ss[1] -> Nat \X Nat]
                BY <4>2
            <4> HIDE DEF at
            <4>4. From(ss[1], 1, at)
                BY <4>1, <4>2, <4>3
            <4> HIDE DEF From
            <4> QED BY <3>0, <3>1, <4>1, <4>4
        <3>2. CASE k # 0
            <4>1. PICK at : From(flat[k], k, at)
                BY <2>10, <3>2
            <4>2. flat[k] \in Seq(T)
                BY <2>10, <3>2
            <4> DEFINE t == flat[k]
                       u == ss[k+1]
            <4>3. flat[k+1] = t \o u
                <5>1. k + 1 # 1 /\ (k + 1) - 1 = k
                    BY <3>2
                <5> QED BY <2>8, <3>0, <5>1
            <4> HIDE DEF t, u
            <4>4. t \in Seq(T) /\ u \in Seq(T) /\ t \o u \in Seq(T)
                BY <3>0, <4>2 DEF t, u
            <4>5. /\ DOMAIN (t \o u) = 1..(Len(t) + Len(u)) /\ DOMAIN t = 1..Len(t)
                  /\ DOMAIN u = 1..Len(u) /\ Len(t) \in Nat /\ Len(u) \in Nat
                  /\ \A n \in 1..(Len(t) + Len(u)) :
                        (t \o u)[n] = IF n <= Len(t) THEN t[n] ELSE u[n - Len(t)]
                BY <4>4
            <4> DEFINE both == [n \in 1..(Len(t) + Len(u)) |->
                                  IF n <= Len(t) THEN at[n] ELSE <<k + 1, n - Len(t)>>]
            <4>6. From(t, k, at)
                BY <4>1 DEF t
            <4>7. ASSUME NEW n \in 1..(Len(t) + Len(u))
                  PROVE  \/ /\ n \in DOMAIN t /\ both[n] = at[n] /\ (t \o u)[n] = t[n]
                         \/ /\ n - Len(t) \in DOMAIN u /\ n > Len(t)
                            /\ both[n] = <<k + 1, n - Len(t)>>
                            /\ both[n][1] = k + 1 /\ both[n][2] = n - Len(t)
                            /\ (t \o u)[n] = u[n - Len(t)]
                BY <4>5
            <4> HIDE DEF both
            <4>8. ASSUME NEW n \in 1..(Len(t) + Len(u))
                  PROVE  /\ both[n] \in Nat \X Nat
                         /\ both[n][1] \in 1..(k+1) /\ both[n][2] \in DOMAIN ss[both[n][1]]
                         /\ (t \o u)[n] = ss[both[n][1]][both[n][2]]
                <5>1. CASE n \in DOMAIN t /\ both[n] = at[n] /\ (t \o u)[n] = t[n]
                    BY <5>1, <4>6
                <5>2. CASE /\ n - Len(t) \in DOMAIN u /\ n > Len(t)
                            /\ both[n] = <<k + 1, n - Len(t)>>
                            /\ both[n][1] = k + 1 /\ both[n][2] = n - Len(t)
                            /\ (t \o u)[n] = u[n - Len(t)]
                    <6>1. n - Len(t) \in Nat
                        BY <5>2, <4>5
                    <6>2. both[n] \in Nat \X Nat
                        BY <6>1, <5>2
                    <6> QED BY <6>2, <5>2, <3>0 DEF u
                <5> QED BY <5>1, <5>2, <4>7
            <4>9. ASSUME NEW m \in 1..(Len(t) + Len(u)), NEW n \in 1..(Len(t) + Len(u)),
                         both[m] = both[n]
                  PROVE  m = n
                <5>1. \A j \in DOMAIN t : at[j][1] # k + 1
                    BY <4>6
                <5>2. CASE m \in DOMAIN t /\ n \in DOMAIN t /\ both[m] = at[m] /\ both[n] = at[n]
                    BY <5>2, <4>6, <4>9
                <5>3. CASE m \in DOMAIN t /\ both[m] = at[m] /\ both[n][1] = k + 1
                    BY <5>3, <5>1, <4>9
                <5>4. CASE n \in DOMAIN t /\ both[n] = at[n] /\ both[m][1] = k + 1
                    BY <5>4, <5>1, <4>9
                <5>5. CASE both[n][2] = n - Len(t) /\ both[m][2] = m - Len(t)
                    BY <5>5, <4>9, <4>5
                <5> QED BY <5>2, <5>3, <5>4, <5>5, <4>7
            <4>10. both = [n \in 1..(Len(t) + Len(u)) |-> both[n]]
                BY DEF both
            <4>11. From(t \o u, k + 1, both)
                BY <4>5, <4>8, <4>9, <4>10
            <4> HIDE DEF From
            <4> QED BY <3>0, <4>3, <4>4, <4>11
        <3> QED BY <3>1, <3>2
    <2>11. \A k \in 0..N : k \in R
        <3> HIDE DEF R
        <3>1. \A k \in Nat : k < N /\ k \in R => k + 1 \in R
            BY <2>10
        <3> HIDE DEF N
        <3> QED BY <1>n, <2>9, <3>1, Climb
    <2>12. N \in R
        <3> HIDE DEF R
        <3> QED BY <2>11, <1>n
    <2>13. flat[N] \in Seq(T) /\ \E at : From(flat[N], N, at)
        BY <2>12, <1>2
    <2>14. PICK at : From(flat[N], N, at)
        BY <2>13
    <2>15. FlattenedAt(FlattenSeq(ss), ss, at)
        BY <2>14, <2>7, <1>n DEF FlattenedAt
    <2> QED BY <2>13, <2>15, <2>7
<1> QED BY <1>1, <1>2
-----------------------------------------------------------------------------
\* at: which of the places in s each element of p is from, each once and all.
PickedAt(p, s, places, at) ==
    /\ at \in [DOMAIN p -> Nat]
    /\ \A n \in DOMAIN p : at[n] \in DOMAIN s /\ at[n] \in places /\ p[n] = s[at[n]]
    /\ \A m, n \in DOMAIN p : at[m] = at[n] => m = n
    /\ \A i \in DOMAIN s : i \in places => \E n \in DOMAIN p : at[n] = i

\* Picking: the elements are those at the places, each once.
LEMMA PickedPlaces ==
    ASSUME NEW T, NEW s \in Seq(T), NEW places
    PROVE  /\ Picked(s, places) \in Seq(T)
           /\ \E at : PickedAt(Picked(s, places), s, places, at)
<1> DEFINE N == Len(s)
           Rec(f, k) == f = [n \in 0..k |->
               IF n = 0 THEN <<>>
               ELSE IF n \in places THEN Append(f[n-1], s[n]) ELSE f[n-1]]
           From(t, k, at) ==
              /\ at \in [DOMAIN t -> Nat]
              /\ \A n \in DOMAIN t : at[n] \in 1..k /\ at[n] \in places /\ t[n] = s[at[n]]
              /\ \A m, n \in DOMAIN t : at[m] = at[n] => m = n
              /\ \A i \in 1..k : i \in places => \E n \in DOMAIN t : at[n] = i
<1>n. N \in Nat /\ DOMAIN s = 1..N /\ \A i \in 1..N : s[i] \in T
    OBVIOUS
<1> DEFINE P == {k \in 0..N : \E f : Rec(f, k)}
<1>1. 0 \in P
    <2> DEFINE f == [n \in 0..0 |-> <<>>]
    <2>1. Rec(f, 0)
        OBVIOUS
    <2> HIDE DEF f, Rec
    <2> QED BY <2>1, <1>n
<1>2. ASSUME NEW k \in Nat, k < N, k \in P PROVE k + 1 \in P
    <2>0. k + 1 \in 1..N /\ k + 1 \in 0..N
        BY <1>2, <1>n
    <2>1. PICK f : Rec(f, k)
        BY <1>2
    <2>2. \A n \in 0..k : f[n] = IF n = 0 THEN <<>>
               ELSE IF n \in places THEN Append(f[n-1], s[n]) ELSE f[n-1]
        BY <2>1
    <2> DEFINE g == [n \in 0..(k+1) |->
                       IF n = k + 1
                       THEN IF n \in places THEN Append(f[k], s[n]) ELSE f[k]
                       ELSE f[n]]
    <2>3. ASSUME NEW n \in 0..(k+1)
          PROVE  g[n] = IF n = 0 THEN <<>>
               ELSE IF n \in places THEN Append(g[n-1], s[n]) ELSE g[n-1]
        <3>1. CASE n = k + 1
            <4>1. n # 0 /\ n - 1 = k /\ k \in 0..(k+1) /\ k # k + 1
                BY <3>1
            <4>2. g[n-1] = f[k]
                BY <4>1
            <4> QED BY <3>1, <4>1, <4>2
        <3>2. CASE n # k + 1
            <4>1. n \in 0..k /\ g[n] = f[n]
                BY <3>2
            <4>2. n # 0 => n - 1 \in 0..(k+1) /\ n - 1 # k + 1
                BY <4>1
            <4>3. n # 0 => g[n-1] = f[n-1]
                BY <4>2
            <4> QED BY <4>1, <4>3, <2>2
        <3> QED BY <3>1, <3>2
    <2>4. g = [n \in 0..(k+1) |-> g[n]]
        OBVIOUS
    <2> HIDE DEF g
    <2>5. Rec(g, k+1)
        BY <2>3, <2>4
    <2> HIDE DEF Rec
    <2> QED BY <2>5, <2>0
<1>3. N \in P
    <2> HIDE DEF P
    <2>1. \A k \in Nat : k < N /\ k \in P => k + 1 \in P
        BY <1>2
    <2> HIDE DEF N
    <2>2. \A k \in 0..N : k \in P
        BY <1>n, <1>1, <2>1, Climb
    <2> QED BY <2>2, <1>n
<1>4. PICK f : Rec(f, N)
    <2> HIDE DEF Rec
    <2> QED BY <1>3
<1> DEFINE upTo == CHOOSE g : Rec(g, N)
<1>5. Rec(upTo, N)
    <2> HIDE DEF Rec
    <2> QED BY <1>4
<1>6. Picked(s, places) = upTo[N]
    BY DEF Picked
<1> HIDE DEF upTo
<1>7. \A n \in 0..N : upTo[n] = IF n = 0 THEN <<>>
               ELSE IF n \in places THEN Append(upTo[n-1], s[n]) ELSE upTo[n-1]
    BY <1>5
<1> DEFINE R == {k \in 0..N : upTo[k] \in Seq(T) /\ \E at : From(upTo[k], k, at)}
<1>8. 0 \in R
    <2>1. upTo[0] = <<>> /\ 1..0 = {} /\ DOMAIN <<>> = {} /\ <<>> \in Seq(T)
        BY <1>7, <1>n
    <2> DEFINE at == [n \in {} |-> 0]
    <2>2. at \in [{} -> Nat]
        OBVIOUS
    <2> HIDE DEF at
    <2>3. From(<<>>, 0, at)
        BY <2>1, <2>2
    <2>4. \E a : From(upTo[0], 0, a)
        BY <2>1, <2>3
    <2>5. upTo[0] \in Seq(T) /\ 0 \in 0..N
        BY <2>1, <1>n
    <2> HIDE DEF From, N
    <2> QED BY <2>5, <2>4
<1>9. ASSUME NEW k \in Nat, k < N, k \in R PROVE k + 1 \in R
    <2>0. k + 1 \in 1..N /\ s[k+1] \in T /\ k + 1 \in 0..N /\ k + 1 # 0 /\ (k+1) - 1 = k
        BY <1>9, <1>n
    <2>1. PICK at : From(upTo[k], k, at)
        BY <1>9
    <2> DEFINE t == upTo[k]
    <2>2. t \in Seq(T)
        BY <1>9
    <2>3. upTo[k+1] = IF k + 1 \in places THEN Append(t, s[k+1]) ELSE t
        BY <1>7, <2>0
    <2>4. From(t, k, at)
        BY <2>1
    <2> HIDE DEF t
    <2>5. CASE k + 1 \notin places
        <3>1. From(t, k + 1, at)
            BY <2>4, <2>5
        <3> HIDE DEF From
        <3> QED BY <2>0, <2>2, <2>3, <2>5, <3>1
    <2>6. CASE k + 1 \in places
        <3> DEFINE u == Append(t, s[k+1])
                   more == [n \in 1..(Len(t) + 1) |-> IF n = Len(t) + 1 THEN k + 1 ELSE at[n]]
        <3>1. /\ u \in Seq(T) /\ DOMAIN u = 1..(Len(t) + 1) /\ DOMAIN t = 1..Len(t)
              /\ Len(t) \in Nat
              /\ \A n \in 1..(Len(t) + 1) : u[n] = IF n = Len(t) + 1 THEN s[k+1] ELSE t[n]
            BY <2>2, <2>0
        <3>2. \A n \in 1..(Len(t) + 1) : n # Len(t) + 1 => n \in DOMAIN t
            BY <3>1
        <3>3. \A n \in DOMAIN t : n \in 1..(Len(t) + 1) /\ n # Len(t) + 1
            BY <3>1
        <3>4. \A n \in DOMAIN t : at[n] # k + 1 /\ at[n] \in Nat
            BY <2>4
        <3>5. /\ more \in [1..(Len(t) + 1) -> Nat]
              /\ more[Len(t) + 1] = k + 1
              /\ \A n \in DOMAIN t : more[n] = at[n]
            BY <3>1, <3>2, <3>3, <3>4
        <3> HIDE DEF u, more
        <3>6. \A n \in 1..(Len(t) + 1) :
                  more[n] \in 1..(k+1) /\ more[n] \in places /\ u[n] = s[more[n]]
            BY <2>4, <2>6, <3>1, <3>2, <3>5
        <3>7. \A m, n \in 1..(Len(t) + 1) : more[m] = more[n] => m = n
            BY <2>4, <3>2, <3>4, <3>5
        <3>8. ASSUME NEW i \in 1..(k+1), i \in places
              PROVE  \E n \in 1..(Len(t) + 1) : more[n] = i
            <4>1. CASE i = k + 1
                BY <4>1, <3>5, <3>1
            <4>2. CASE i # k + 1
                <5>1. i \in 1..k
                    BY <4>2
                <5>2. PICK n \in DOMAIN t : at[n] = i
                    BY <5>1, <3>8, <2>4
                <5> QED BY <5>2, <3>3, <3>5
            <4> QED BY <4>1, <4>2
        <3>9. From(u, k + 1, more)
            BY <3>1, <3>5, <3>6, <3>7, <3>8
        <3>10. upTo[k+1] = u
            BY <2>3, <2>6 DEF u
        <3> HIDE DEF From
        <3> QED BY <2>0, <3>1, <3>9, <3>10
    <2> QED BY <2>5, <2>6
<1>10. N \in R
    <2> HIDE DEF R
    <2>1. \A k \in Nat : k < N /\ k \in R => k + 1 \in R
        BY <1>9
    <2> HIDE DEF N
    <2>2. \A k \in 0..N : k \in R
        BY <1>n, <1>8, <2>1, Climb
    <2> QED BY <2>2, <1>n
<1>11. Picked(s, places) \in Seq(T) /\ \E at : From(Picked(s, places), N, at)
    BY <1>10, <1>6
<1>12. PICK at : From(Picked(s, places), N, at)
    BY <1>11
<1>13. PickedAt(Picked(s, places), s, places, at)
    BY <1>12, <1>n DEF PickedAt
<1> QED
    BY <1>11, <1>13

-----------------------------------------------------------------------------
(* Sums *)

\* A sum of integers is one.
LEMMA SumIsInteger ==
    ASSUME NEW s \in Seq(Int)
    PROVE  SumOf(s) \in Int
BY SumSteps

\* A sum does not rise when no summand does.
LEMMA SumIsMonotone ==
    ASSUME NEW s \in Seq(Int), NEW t \in Seq(Int), Len(s) = Len(t),
           \A i \in 1..Len(s) : s[i] <= t[i]
    PROVE  SumOf(s) <= SumOf(t)
<1> DEFINE N == Len(s)
<1>1. N \in Nat /\ \A i \in 1..N : s[i] \in Int /\ t[i] \in Int /\ s[i] <= t[i]
    OBVIOUS
<1>2. PICK p \in [0..N -> Int] :
              /\ p[0] = 0
              /\ \A i \in 1..N : p[i] = p[i-1] + s[i]
              /\ SumOf(s) = p[N]
    BY SumSteps
<1>3. PICK q \in [0..Len(t) -> Int] :
              /\ q[0] = 0
              /\ \A i \in 1..Len(t) : q[i] = q[i-1] + t[i]
              /\ SumOf(t) = q[Len(t)]
    BY SumSteps
<1>l. Len(t) = N
    OBVIOUS
<1> HIDE DEF N
<1> DEFINE Q == {k \in 0..N : p[k] <= q[k]}
<1>4. 0 \in Q
    BY <1>1, <1>2, <1>3
<1>5. ASSUME NEW k \in Nat, k < N, k \in Q PROVE k + 1 \in Q
    <2>1. k + 1 \in 1..N /\ (k + 1) - 1 = k /\ k + 1 \in 0..N /\ k \in 0..N /\ p[k] <= q[k]
        BY <1>5, <1>1
    <2>2. p[k+1] = p[k] + s[k+1] /\ q[k+1] = q[k] + t[k+1]
        BY <2>1, <1>2, <1>3, <1>l
    <2>3. p[k] \in Int /\ q[k] \in Int /\ s[k+1] \in Int /\ t[k+1] \in Int /\ s[k+1] <= t[k+1]
        BY <2>1, <1>1, <1>l
    <2>4. p[k+1] <= q[k+1]
        BY <2>1, <2>2, <2>3
    <2> QED BY <2>1, <2>4
<1> HIDE DEF Q
<1>6. \A k \in 0..N : k \in Q
    BY <1>1, <1>4, <1>5, Climb
<1>7. N \in Q
    BY <1>1, <1>6
<1>8. p[N] <= q[N]
    BY <1>7 DEF Q
<1> QED
    BY <1>1, <1>2, <1>3, <1>8, <1>l

-----------------------------------------------------------------------------
(* Grounded observations are coachable *)

RecommendationInputs == [criterion : Nat, seq : Nat]

\* A sequence's elements are those its type names.
LEMMA RangeIsTyped ==
    ASSUME NEW T, NEW s \in Seq(T)
    PROVE  \A x \in Range(s) : x \in T
BY DEF Range

\* What is picked is there, and what is there at the places is picked.
LEMMA PickedElements ==
    ASSUME NEW T, NEW s \in Seq(T), NEW places
    PROVE  /\ Picked(s, places) \in Seq(T)
           /\ \A n \in DOMAIN Picked(s, places) :
                  \E i \in DOMAIN s : i \in places /\ Picked(s, places)[n] = s[i]
           /\ \A i \in DOMAIN s : i \in places =>
                  \E n \in DOMAIN Picked(s, places) : Picked(s, places)[n] = s[i]
           /\ Unrepeated(s) => Unrepeated(Picked(s, places))
<1> DEFINE p == Picked(s, places)
<1>1. p \in Seq(T) /\ \E at : PickedAt(p, s, places, at)
    BY PickedPlaces
<1> HIDE DEF p
<1>2. PICK at : PickedAt(p, s, places, at)
    BY <1>1
<1>3. \A i \in DOMAIN s : i \in places => \E n \in DOMAIN p : p[n] = s[i]
    BY <1>2 DEF PickedAt
<1>4. Unrepeated(s) => Unrepeated(p)
    BY <1>2 DEF PickedAt, Unrepeated, IsInjective
<1>5. \A n \in DOMAIN p : \E i \in DOMAIN s : i \in places /\ p[n] = s[i]
    BY <1>2 DEF PickedAt
<1> QED
    BY <1>1, <1>3, <1>4, <1>5 DEF p

\* Two lists in a row have the elements of both.
LEMMA RangeOfConcat ==
    ASSUME NEW T, NEW s \in Seq(T), NEW t \in Seq(T)
    PROVE  /\ s \o t \in Seq(T)
           /\ \A x \in Range(s \o t) : x \in Range(s) \/ x \in Range(t)
<1>1. /\ s \o t \in Seq(T) /\ DOMAIN (s \o t) = 1..(Len(s) + Len(t))
      /\ DOMAIN s = 1..Len(s) /\ DOMAIN t = 1..Len(t)
      /\ Len(s) \in Nat /\ Len(t) \in Nat
      /\ \A n \in 1..(Len(s) + Len(t)) :
            (s \o t)[n] = IF n <= Len(s) THEN s[n] ELSE t[n - Len(s)]
    OBVIOUS
<1>2. ASSUME NEW n \in 1..(Len(s) + Len(t))
      PROVE  (s \o t)[n] \in Range(s) \/ (s \o t)[n] \in Range(t)
    <2>1. CASE n <= Len(s)
        <3>1. n \in DOMAIN s /\ (s \o t)[n] = s[n]
            BY <1>1, <2>1
        <3> QED BY <3>1 DEF Range
    <2>2. CASE ~(n <= Len(s))
        <3>1. n - Len(s) \in DOMAIN t /\ (s \o t)[n] = t[n - Len(s)]
            BY <1>1, <2>2
        <3> QED BY <3>1 DEF Range
    <2> QED BY <2>1, <2>2
<1> QED
    BY <1>1, <1>2 DEF Range

\* The lines a criterion is cited on are among the evidence's numbers.
LEMMA CitedAreNumbers ==
    ASSUME NEW c \in Categories, NEW k
    PROVE  /\ Cited(c, k) \subseteq Nat
           /\ \A f \in Range(c.strengths) \cup Range(c.violations) :
                  f \in [criterion : Nat, seqs : Seq(Nat)]
           /\ c.failed \in Seq(Nat)
           /\ c.inputs \in Seq(RecommendationInputs)
<1>1. \A f \in Range(c.strengths) \cup Range(c.violations) :
                  f \in [criterion : Nat, seqs : Seq(Nat)]
    <2>1. /\ c.strengths \in Seq([criterion : Nat, seqs : Seq(Nat)])
          /\ c.violations \in Seq([criterion : Nat, seqs : Seq(Nat)])
        BY DEF Categories, Findings
    <2>2. /\ \A f \in Range(c.strengths) : f \in [criterion : Nat, seqs : Seq(Nat)]
          /\ \A f \in Range(c.violations) : f \in [criterion : Nat, seqs : Seq(Nat)]
        BY <2>1, RangeIsTyped
    <2> QED BY <2>2
<1>2. \A f \in Range(c.strengths) \cup Range(c.violations) : Range(f.seqs) \subseteq Nat
    BY <1>1 DEF Range
<1>3. c.failed \in Seq(Nat) /\ c.inputs \in Seq(RecommendationInputs)
    BY DEF Categories, RecommendationInputs
<1> QED
    BY <1>1, <1>2, <1>3 DEF Cited

(* What the recommendations are made of is grounded in the category, also  *)
(* where the coaching engine derived it from violations and failed criteria *)
LEMMA InputsAreGrounded ==
    ASSUME NEW c \in Categories, NEW b, NEW lines, CategoryIsGrounded(c, b, lines),
           \A f \in Range(c.strengths) \cup Range(c.violations) : f.seqs # <<>>
    PROVE  /\ InputsOf(c) \in Seq(RecommendationInputs)
           /\ \A i \in Range(InputsOf(c)) :
                 i \in RecommendationInputs /\ InputIsGrounded(i, c, b)
<1>1. CASE c.inputs # <<>>
    <2>1. InputsOf(c) = c.inputs /\ c.inputs \in Seq(RecommendationInputs)
        BY <1>1, CitedAreNumbers DEF InputsOf
    <2>2. \A i \in Range(c.inputs) : i \in RecommendationInputs
        BY <2>1 DEF Range
    <2> QED BY <2>1, <2>2 DEF CategoryIsGrounded
<1>2. CASE c.inputs = <<>>
    <2> DEFINE of == [i \in DOMAIN c.violations |->
                         [criterion |-> c.violations[i].criterion,
                          seq |-> Head(c.violations[i].seqs)]]
               places == {n \in DOMAIN c.failed : c.failed[n] \in FindingsOn(c)}
               cited == Picked(c.failed, places)
               derived == [i \in DOMAIN cited |->
                    [criterion |-> cited[i], seq |-> Min(Cited(c, cited[i]))]]
    <2>1. InputsOf(c) = of \o derived
        BY <1>2 DEF InputsOf
    <2>2. /\ cited \in Seq(Nat)
          /\ \A n \in DOMAIN cited : cited[n] \in Range(c.failed) /\ cited[n] \in FindingsOn(c)
        <3>1. c.failed \in Seq(Nat)
            BY CitedAreNumbers
        <3>2. cited \in Seq(Nat)
            BY <3>1, PickedElements
        <3>h. c.failed \in Seq(Nat) => \A n \in DOMAIN Picked(c.failed, places) :
                  \E i \in DOMAIN c.failed :
                      i \in places /\ Picked(c.failed, places)[n] = c.failed[i]
            <4> HIDE DEF places
            <4> QED BY PickedElements
        <3>3. \A n \in DOMAIN cited :
                  \E i \in DOMAIN c.failed : i \in places /\ cited[n] = c.failed[i]
            BY <3>1, <3>h
        <3> HIDE DEF cited
        <3> QED BY <3>2, <3>3 DEF Range
    <2> HIDE DEF cited
    <2>3. ASSUME NEW i \in DOMAIN c.violations
          PROVE  of[i] \in RecommendationInputs /\ InputIsGrounded(of[i], c, b)
        <3> DEFINE v == c.violations[i]
        <3>1. v \in Range(c.violations) /\ v \in [criterion : Nat, seqs : Seq(Nat)]
            BY CitedAreNumbers DEF Range
        <3>2. v.seqs # <<>> /\ v.seqs \in Seq(Nat) /\ v.criterion \in Nat
            BY <3>1
        <3>3. Head(v.seqs) \in Range(v.seqs) /\ Head(v.seqs) \in Nat
            BY <3>2 DEF Range
        <3>4. Head(v.seqs) \in Cited(c, v.criterion)
            BY <3>1, <3>3 DEF Cited
        <3>5. Head(v.seqs) \in EvidenceNumbers(c)
            BY <3>1, <3>3 DEF CategoryIsGrounded
        <3>6. v.criterion \in FindingsOn(c) /\ v.criterion \in b.violations
            BY <3>1 DEF FindingsOn, CategoryIsGrounded
        <3>7. of[i] = [criterion |-> v.criterion, seq |-> Head(v.seqs)]
            OBVIOUS
        <3> HIDE DEF v, of
        <3> QED
            BY <3>2, <3>3, <3>4, <3>5, <3>6, <3>7
               DEF InputIsGrounded, RecommendationInputs, Criteria
    <2>4. ASSUME NEW i \in DOMAIN cited
          PROVE  derived[i] \in RecommendationInputs /\ InputIsGrounded(derived[i], c, b)
        <3> DEFINE k == cited[i]
        <3>1. k \in Nat /\ k \in Range(c.failed) /\ k \in FindingsOn(c)
            BY <2>2
        <3> HIDE DEF k
        <3>2. PICK f \in Range(c.strengths) \cup Range(c.violations) : f.criterion = k
            BY <3>1 DEF FindingsOn
        <3>3. f.seqs # <<>> /\ f.seqs \in Seq(Nat)
            BY <3>2, CitedAreNumbers
        <3>4. Head(f.seqs) \in Range(f.seqs)
            BY <3>3 DEF Range
        <3>5. Cited(c, k) # {} /\ Cited(c, k) \in SUBSET Nat
            <4>1. Cited(c, k) \subseteq Nat
                BY CitedAreNumbers
            <4> QED BY <3>2, <3>4, <4>1 DEF Cited
        <3>6. Min(Cited(c, k)) \in Cited(c, k)
            BY <3>5, LeastExists
        <3>7. Min(Cited(c, k)) \in Nat
            BY <3>5, <3>6
        <3>8. Cited(c, k) \subseteq EvidenceNumbers(c)
            BY DEF Cited, CategoryIsGrounded
        <3>9. k \in Criteria(b)
            BY <3>1 DEF CategoryIsGrounded
        <3>10. derived[i] = [criterion |-> k, seq |-> Min(Cited(c, k))]
            BY DEF k
        <3> DEFINE d == derived[i]
        <3>11. d.criterion = k /\ d.seq = Min(Cited(c, k)) /\ d \in RecommendationInputs
            BY <3>1, <3>7, <3>10 DEF RecommendationInputs
        <3> HIDE DEF d
        <3>12. InputIsGrounded(d, c, b)
            BY <3>1, <3>6, <3>8, <3>9, <3>11 DEF InputIsGrounded
        <3> QED BY <3>11, <3>12 DEF d
    <2>5. of \in Seq(RecommendationInputs) /\ DOMAIN of = DOMAIN c.violations
        <3>1. c.violations \in Seq([criterion : Nat, seqs : Seq(Nat)])
            BY DEF Categories, Findings
        <3>2. DOMAIN c.violations = 1..Len(c.violations) /\ Len(c.violations) \in Nat
            BY <3>1
        <3>3. DOMAIN of = 1..Len(c.violations) /\ \A n \in DOMAIN of : of[n] \in RecommendationInputs
            BY <2>3, <3>2
        <3> HIDE DEF of
        <3>4. of = [n \in 1..Len(c.violations) |-> of[n]]
            BY <3>3 DEF of
        <3> QED BY <3>2, <3>3, <3>4
    <2>6. derived \in Seq(RecommendationInputs) /\ DOMAIN derived = DOMAIN cited
        BY <2>2, <2>4
    <2> HIDE DEF of, derived
    <2>7. \A i \in Range(of \o derived) : i \in Range(of) \/ i \in Range(derived)
        BY <2>5, <2>6, RangeOfConcat
    <2>8. of \o derived \in Seq(RecommendationInputs)
        BY <2>5, <2>6
    <2>9. \A i \in Range(of) \cup Range(derived) :
             i \in RecommendationInputs /\ InputIsGrounded(i, c, b)
        BY <2>3, <2>4, <2>5, <2>6 DEF Range
    <2> QED BY <2>1, <2>7, <2>8, <2>9
<1> QED BY <1>1, <1>2

\* Scoring keeps each category in its place.
LEMMA SeenIsCategory ==
    ASSUME NEW o, NEW st
    PROVE  /\ DOMAIN Canonical(o, st).categories = DOMAIN o.categories
           /\ \A i \in DOMAIN o.categories :
                  Canonical(o, st).categories[i].seen = o.categories[i]
BY DEF Canonical, ScoreCategory

\* The scored categories (calculate_rubric_score).
LEMMA CanonicalCategories ==
    ASSUME NEW o, NEW st
    PROVE  Canonical(o, st).categories = [i \in DOMAIN o.categories |->
               ScoreCategory(o.categories[i], Block(st, o.categories[i].block))]
BY DEF Canonical

\* The total is the sum of the categories' points.
LEMMA CanonicalTotal ==
    ASSUME NEW o, NEW st
    PROVE  Canonical(o, st).total = SumOf([i \in DOMAIN o.categories |->
               ScoreCategory(o.categories[i], Block(st, o.categories[i].block)).points])
<1> DEFINE scores == [i \in DOMAIN o.categories |->
                  ScoreCategory(o.categories[i], Block(st, o.categories[i].block))]
<1>1. [i \in DOMAIN scores |-> scores[i].points] = [i \in DOMAIN o.categories |->
                  ScoreCategory(o.categories[i], Block(st, o.categories[i].block)).points]
    OBVIOUS
<1>2. Canonical(o, st).total = SumOf([i \in DOMAIN scores |-> scores[i].points])
    BY DEF Canonical
<1> QED BY <1>1, <1>2

\* Status, techniques and the verdict of a score.
LEMMA CanonicalFields ==
    ASSUME NEW o, NEW st
    PROVE  /\ Canonical(o, st).status = o.status
           /\ Canonical(o, st).applied = o.applied
           /\ Canonical(o, st).passed <=>
                  /\ o.status = "evaluated" /\ Canonical(o, st).total >= 100 * st.overall
                  /\ \A s \in Range(Canonical(o, st).categories) : s.passed
<1> DEFINE scores == [i \in DOMAIN o.categories |->
                  ScoreCategory(o.categories[i], Block(st, o.categories[i].block))]
           canonical == Canonical(o, st)
<1>1. /\ canonical.status = o.status /\ canonical.applied = o.applied
      /\ canonical.categories = scores
      /\ canonical.total = SumOf([i \in DOMAIN scores |-> scores[i].points])
    BY DEF Canonical
<1>2. canonical.passed = (/\ o.status = "evaluated"
                         /\ SumOf([i \in DOMAIN scores |-> scores[i].points]) >= 100 * st.overall
                         /\ \A s \in Range(scores) : s.passed)
    BY DEF Canonical
<1> HIDE DEF canonical
<1>3. canonical.passed <=>
                  /\ o.status = "evaluated" /\ canonical.total >= 100 * st.overall
                  /\ \A s \in Range(canonical.categories) : s.passed
    BY <1>1, <1>2
<1> QED
    BY <1>1, <1>3 DEF canonical

(* A valid observation never makes the recommendations fail. *)
LEMMA ValidIsCoachable ==
    ASSUME NEW o \in ObservationsOf(Names), NEW st, NEW lines, Valid(o, st, lines)
    PROVE  Coachable(Canonical(o, st), st)
<1>0. /\ DOMAIN Canonical(o, st).categories = DOMAIN o.categories
      /\ \A i \in DOMAIN o.categories : Canonical(o, st).categories[i].seen = o.categories[i]
    BY SeenIsCategory
<1> DEFINE canonical == Canonical(o, st)
<1>1. /\ DOMAIN canonical.categories = DOMAIN o.categories
      /\ \A i \in DOMAIN o.categories : canonical.categories[i].seen = o.categories[i]
    BY <1>0
<1> HIDE DEF canonical
<1>2. ASSUME NEW n \in DOMAIN o.categories, NEW i \in Range(InputsOf(o.categories[n]))
      PROVE  InputIsGrounded(i, o.categories[n], Block(st, o.categories[n].block))
    <2> DEFINE c == o.categories[n]
    <2>1. c \in Categories /\ c \in Range(o.categories)
        BY DEF ObservationsOf, Range
    <2>2. CategoryIsGrounded(c, Block(st, c.block), lines)
        BY <2>1 DEF Valid
    <2>3. \A f \in Range(c.strengths) \cup Range(c.violations) : f.seqs # <<>>
        BY <2>1 DEF Valid, WellFormed
    <2> HIDE DEF c
    <2> QED BY <2>1, <2>2, <2>3, InputsAreGrounded, <1>2 DEF c
<1>3. \A s \in Range(canonical.categories) : \E n \in DOMAIN o.categories : s.seen = o.categories[n]
    BY <1>1 DEF Range
<1> QED
    BY <1>2, <1>3 DEF Coachable, InputIsGrounded, canonical

-----------------------------------------------------------------------------
(* Transcripts *)

\* What is not below any element of its set is the greatest.
LEMMA MaxIs ==
    ASSUME NEW S \in SUBSET Int, NEW m \in S, \A n \in S : n <= m
    PROVE  Max(S) = m
<1>1. \A x \in S : (\A y \in S : x >= y) => x = m
    OBVIOUS
<1>2. m \in S /\ \A y \in S : m >= y
    OBVIOUS
<1> QED
    BY <1>1, <1>2 DEF Max

\* What is not above any element of its set is the least.
LEMMA MinIs ==
    ASSUME NEW S \in SUBSET Int, NEW m \in S, \A n \in S : m <= n
    PROVE  Min(S) = m
<1>1. \A x \in S : (\A y \in S : x <= y) => x = m
    OBVIOUS
<1>2. m \in S /\ \A y \in S : m <= y
    OBVIOUS
<1> QED
    BY <1>1, <1>2 DEF Min

\* The fields of stored lines.
LEMMA LinesAreTyped ==
    ASSUME NEW t \in Seq(Lines)
    PROVE  \A i \in DOMAIN t : t[i].number \in Nat /\ t[i].speaker \in {"agent", "debtor"}
<1>1. \A i \in DOMAIN t : t[i] \in Lines
    OBVIOUS
<1> QED
    BY <1>1 DEF Lines

(* A table's numbers never fall from line to line. *)
LEMMA NumbersRise ==
    ASSUME NEW t \in Seq(Lines), Gapless(t)
    PROVE  \A k \in DOMAIN t : \A i \in 1..k : t[i].number <= t[k].number
<1> DEFINE N == Len(t)
           P == {k \in 0..N : \A i \in 1..k : t[i].number <= t[k].number}
<1>1. N \in Nat /\ DOMAIN t = 1..N /\ \A i \in 1..N : t[i].number \in Nat
    BY LinesAreTyped
<1>2. \A i \in 1..N : i # 1 => t[i-1].number <= t[i].number
    <2> SUFFICES ASSUME NEW i \in 1..N, i # 1 PROVE t[i-1].number <= t[i].number
        OBVIOUS
    <2>1. i - 1 \in 1..N /\ t[i-1].number \in Nat
        BY <1>1
    <2>2. t[i].number \in {t[i-1].number, t[i-1].number + 1}
        BY <1>1 DEF Gapless
    <2> QED BY <2>1, <2>2
<1> HIDE DEF N
<1>3. 0 \in P
    BY <1>1
<1>4. ASSUME NEW k \in Nat, k < N, k \in P PROVE k + 1 \in P
    <2>1. k + 1 \in 1..N /\ k + 1 \in 0..N /\ (k + 1) - 1 = k
        BY <1>4, <1>1
    <2>2. ASSUME NEW i \in 1..(k+1) PROVE t[i].number <= t[k+1].number
        <3>1. CASE i = k + 1
            BY <3>1, <2>1, <1>1
        <3>2. CASE i # k + 1
            <4>1. i \in 1..k /\ k \in 1..N /\ i \in 1..N /\ k + 1 # 1
                <5>1. i \in Nat /\ 1 <= i /\ i <= k
                    BY <3>2
                <5> QED BY <5>1, <1>4, <1>1
            <4>2. t[i].number <= t[k].number /\ t[k].number <= t[k+1].number
                BY <4>1, <1>2, <1>4, <2>1
            <4>3. t[i].number \in Nat /\ t[k].number \in Nat /\ t[k+1].number \in Nat
                BY <4>1, <2>1, <1>1
            <4> QED BY <4>2, <4>3
        <3> QED BY <3>1, <3>2
    <2> QED BY <2>1, <2>2
<1> HIDE DEF P
<1>5. \A k \in 0..N : k \in P
    BY <1>1, <1>3, <1>4, Climb
<1>6. \A k \in 1..N : k \in P
    BY <1>1, <1>5
<1> QED
    BY <1>1, <1>6 DEF P

(* A line that takes the number after the greatest leaves no gap. *)
LEMMA AppendedIsGapless ==
    ASSUME NEW t \in Seq(Lines), Gapless(t), NEW line \in Lines,
           line.number = Max({-1} \cup {t[i].number : i \in DOMAIN t}) + 1
    PROVE  Append(t, line) \in Seq(Lines) /\ Gapless(Append(t, line))
<1> DEFINE N == Len(t)
           S == {-1} \cup {t[i].number : i \in DOMAIN t}
           u == Append(t, line)
<1>1. N \in Nat /\ DOMAIN t = 1..N /\ \A i \in 1..N : t[i].number \in Nat
    BY LinesAreTyped
<1>2. /\ u \in Seq(Lines) /\ DOMAIN u = 1..(N+1)
      /\ \A i \in 1..N : u[i] = t[i]
      /\ u[N+1] = line
    OBVIOUS
<1> HIDE DEF N
<1>3. S \in SUBSET Int
    BY <1>1
<1>4. CASE N = 0
    <2>1. -1 \in S /\ \A n \in S : n <= -1
        BY <1>1, <1>4
    <2> HIDE DEF S
    <2>2. Max(S) = -1
        BY <1>3, <2>1, MaxIs
    <2>3. line.number = 0
        BY <2>2 DEF S
    <2> QED BY <1>1, <1>2, <1>4, <2>3 DEF Gapless
<1>5. CASE N # 0
    <2>1. N \in 1..N /\ t[N].number \in Nat
        BY <1>1, <1>5
    <2>2. t[N].number \in S /\ \A n \in S : n <= t[N].number
        <3>1. \A i \in 1..N : t[i].number <= t[N].number
            BY <2>1, <1>1, NumbersRise
        <3> QED BY <3>1, <2>1, <1>1
    <2> HIDE DEF S
    <2>3. Max(S) = t[N].number
        BY <1>3, <2>2, MaxIs
    <2>4. line.number = t[N].number + 1
        BY <2>3 DEF S
    <2>5. ASSUME NEW i \in 1..(N+1)
          PROVE  u[i].number \in IF i = 1 THEN {0} ELSE {u[i-1].number, u[i-1].number + 1}
        <3>1. CASE i = N + 1
            <4>1. i # 1 /\ i - 1 = N /\ u[i-1] = t[N] /\ u[i] = line
                BY <3>1, <1>2, <2>1, <1>1, <1>5
            <4> HIDE DEF u
            <4> QED BY <4>1, <2>4
        <3>2. CASE i # N + 1
            <4>1. i \in 1..N /\ u[i] = t[i] /\ (i # 1 => i - 1 \in 1..N)
                BY <3>2, <1>2, <1>1
            <4>2. i # 1 => u[i-1] = t[i-1]
                BY <4>1, <1>2
            <4> HIDE DEF u
            <4> QED BY <4>1, <4>2, <1>1 DEF Gapless
        <3> QED BY <3>1, <3>2
    <2> HIDE DEF u
    <2>6. Gapless(u)
        BY <1>2, <2>5 DEF Gapless
    <2> QED BY <1>2, <2>6 DEF u
<1> QED BY <1>4, <1>5

\* Names that occur once are of the type they were.
LEMMA DeduplicatedIsTyped ==
    ASSUME NEW o \in ObservationsOf(Names)
    PROVE  Deduplicate(o) \in ObservationsOf(Names)
<1> DEFINE Applied == [name : Names, seqs : Seq(Nat)]
           applied == Deduplicated(o.applied, [i \in DOMAIN o.applied |-> o.applied[i].name])
           missed  == Deduplicated(o.missed, o.missed)
<1>1. /\ o.applied \in Seq(Applied) /\ o.missed \in Seq(Names)
      /\ o.status \in {"evaluated", "not_applicable"} /\ o.categories \in Seq(Categories)
      /\ o = [status |-> o.status, categories |-> o.categories,
              applied |-> o.applied, missed |-> o.missed]
    BY DEF ObservationsOf
<1>2. applied \in Seq(Applied)
    <2> HIDE DEF Applied
    <2> QED BY <1>1, PickedPlaces DEF Deduplicated
<1>3. missed \in Seq(Names)
    BY <1>1, PickedPlaces DEF Deduplicated
<1> HIDE DEF applied, missed
<1>4. Deduplicate(o) = [o EXCEPT !.applied = applied, !.missed = missed]
    BY DEF Deduplicate, applied, missed
<1> QED
    BY <1>1, <1>2, <1>3, <1>4 DEF ObservationsOf

-----------------------------------------------------------------------------
(* The pipeline's invariant *)

\* A session that was not evaluated needs no coaching.
LEMMA NothingIsCoached ==
    ASSUME NEW st
    PROVE  Coachable(Canonical(NotApplicable(st), st), st)
<1>1. Canonical(NotApplicable(st), st).status = "not_applicable"
    BY DEF Canonical, NotApplicable
<1> QED
    BY <1>1 DEF Coachable

\* The coaching engine accepts what the validator accepted.
LEMMA AnswersAreCoachable ==
    ASSUME AnswerIsGrounded, phase \in {"accepted", "stored"}
    PROVE  Coachable(Canonical(answer, pinned), pinned)
<1>1. CASE answer = NotApplicable(pinned)
    BY <1>1, NothingIsCoached
<1>2. CASE answer \in ObservationsOf(Names) /\ Valid(answer, pinned, heard)
    BY <1>2, ValidIsCoachable
<1> QED BY <1>1, <1>2 DEF AnswerIsGrounded

\* The invariant holds of a session that has just ended.
LEMMA PipelineStarts == Init => PipelineIInv
<1> SUFFICES ASSUME Init PROVE PipelineIInv
    OBVIOUS
<1>1. phase = "ended" /\ transcript \in Transcripts /\ pinned \in Standards \cup {Unpinned}
    BY DEF Init
<1>2. ArtifactsAreOfAnswer
    <2>1. TooShort(Speakers(transcript)) \in BOOLEAN
        BY DEF TooShort
    <2>2. \/ artifacts = NoArtifacts
          \/ \E r \in LegacyAnswers :
                artifacts = LegacyArtifacts(r, TooShort(Speakers(transcript)))
        BY DEF Init
    <2> QED BY <2>1, <2>2 DEF ArtifactsAreOfAnswer
<1>3. transcript \in Seq(Lines) /\ Gapless(transcript)
    BY <1>1, TranscriptsAssumption
<1> QED
    BY <1>1, <1>2, <1>3
       DEF PipelineIInv, Phases, AcceptedIsCoachable, PinnedIsPublished, HeardIsAPrefix,
           AnswerIsGrounded

\* Every step of the pipeline, a late line and a report keep it.
LEMMA PipelineKeeps == PipelineIInv /\ [Next]_vars => PipelineIInv'
<1> SUFFICES ASSUME PipelineIInv, [Next]_vars PROVE PipelineIInv'
    OBVIOUS
<1> USE DEF PipelineIInv, Phases, AcceptedIsCoachable, PinnedIsPublished
<1>t. transcript \in Seq(Lines) /\ Gapless(transcript)
    OBVIOUS
<1>1. CASE StartUnpinned
    BY <1>1 DEF StartUnpinned, HeardIsAPrefix, AnswerIsGrounded, ArtifactsAreOfAnswer
<1>s. ASSUME phase = "ended", pinned # Unpinned, heard' = Speakers(transcript),
             UNCHANGED <<transcript, pinned>>
      PROVE  HeardIsAPrefix'
    <2>1. DOMAIN transcript = 1..Len(transcript) /\ Len(transcript) \in Nat
        BY <1>t
    <2>2. heard' = [i \in 1..Len(transcript) |-> transcript[i].speaker]
        BY <1>s, <2>1 DEF Speakers
    <2>3. Len(transcript) \in 0..Len(transcript)
        BY <2>1
    <2>4. \E n \in 0..Len(transcript) : heard' = [i \in 1..n |-> transcript[i].speaker]
        BY <2>2, <2>3
    <2>5. transcript' = transcript
        BY <1>s
    <2> QED BY <2>4, <2>5 DEF HeardIsAPrefix
<1>2. CASE StartShort
    BY <1>2, <1>s DEF StartShort, AnswerIsGrounded, ArtifactsAreOfAnswer
<1>3. CASE Start
    BY <1>3, <1>s DEF Start, AnswerIsGrounded, ArtifactsAreOfAnswer
<1>r. ASSUME phase = "asking", phase' \in {"asking", "failed"},
             UNCHANGED <<transcript, pinned, heard, answer, artifacts, report>>
      PROVE  PipelineIInv'
    BY <1>r DEF HeardIsAPrefix, AnswerIsGrounded, ArtifactsAreOfAnswer
<1>4. CASE RequestFails
    BY <1>4, <1>r DEF RequestFails
<1>5. CASE Truncated
    BY <1>5, <1>r DEF Truncated, Retry
<1>6. CASE Rejected
    BY <1>6, <1>r DEF Rejected, Retry
<1>7. ASSUME NEW o \in Observations, Accepted(o) PROVE PipelineIInv'
    <2>1. /\ phase = "asking" /\ phase' = "accepted"
          /\ Valid(Deduplicate(o), pinned, heard) /\ answer' = Deduplicate(o)
          /\ UNCHANGED <<transcript, pinned, heard, artifacts, report>>
        BY <1>7 DEF Accepted
    <2>2. Deduplicate(o) \in ObservationsOf(Names)
        BY AnswersAssumption, DeduplicatedIsTyped
    <2>3. AnswerIsGrounded'
        BY <2>1, <2>2 DEF AnswerIsGrounded
    <2> QED BY <2>1, <2>3 DEF HeardIsAPrefix, ArtifactsAreOfAnswer
<1>8. CASE Store
    <2>1. phase = "accepted" /\ UNCHANGED <<transcript, pinned, heard, attempt, budget, answer, report>>
        BY <1>8 DEF Store
    <2>2. phase' = "stored" /\ artifacts' = Artifacts(answer, pinned)
        BY <2>1, <1>8, AnswersAreCoachable DEF Store
    <2>3. ArtifactsAreOfAnswer'
        BY <2>1, <2>2 DEF ArtifactsAreOfAnswer
    <2> QED BY <2>1, <2>2, <2>3 DEF HeardIsAPrefix, AnswerIsGrounded
<1>9. CASE StoreFails
    BY <1>9 DEF StoreFails, HeardIsAPrefix, AnswerIsGrounded, ArtifactsAreOfAnswer
<1>10. CASE LateLine
    <2> DEFINE line == [speaker |-> "agent", number |-> NextNumber, late |-> TRUE]
    <2>1. /\ phase # "ended" /\ transcript' = Append(transcript, line)
          /\ UNCHANGED <<pinned, phase, heard, attempt, budget, answer, artifacts, report>>
        BY <1>10 DEF LateLine
    <2>2. line \in Lines
        <3> DEFINE S == {-1} \cup {transcript[i].number : i \in DOMAIN transcript}
        <3>1. \E m \in S : m >= -1 /\ \A n \in S : n <= m
            <4>1. DOMAIN transcript = 1..Len(transcript) /\ Len(transcript) \in Nat
                  /\ \A i \in DOMAIN transcript : transcript[i].number \in Nat
                BY <1>t, LinesAreTyped
            <4>2. CASE Len(transcript) = 0
                BY <4>1, <4>2
            <4>3. CASE Len(transcript) # 0
                <5>1. Len(transcript) \in DOMAIN transcript
                    BY <4>1, <4>3
                <5>2. \A i \in 1..Len(transcript) :
                         transcript[i].number <= transcript[Len(transcript)].number
                    BY <5>1, <1>t, NumbersRise
                <5> QED BY <4>1, <5>1, <5>2
            <4> QED BY <4>2, <4>3
        <3>2. S \in SUBSET Int
            BY <1>t, LinesAreTyped
        <3> HIDE DEF S
        <3>3. PICK m \in S : m >= -1 /\ \A n \in S : n <= m
            BY <3>1
        <3>4. Max(S) = m /\ m \in Int
            BY <3>2, <3>3, MaxIs
        <3>5. Max(S) + 1 \in Nat
            BY <3>3, <3>4
        <3> QED BY <3>5 DEF Lines, S, NextNumber
    <2>3. transcript' \in Seq(Lines) /\ Gapless(transcript')
        <3>1. line.number = Max({-1} \cup {transcript[i].number : i \in DOMAIN transcript}) + 1
            BY DEF NextNumber
        <3> HIDE DEF line
        <3> QED BY <2>1, <2>2, <3>1, <1>t, AppendedIsGapless
    <2>4. HeardIsAPrefix'
        <3> HIDE DEF line
        <3>1. /\ Len(transcript') = Len(transcript) + 1 /\ Len(transcript) \in Nat
              /\ \A i \in 1..Len(transcript) : transcript'[i] = transcript[i]
            BY <1>t, <2>1, <2>2
        <3> SUFFICES ASSUME pinned # Unpinned
                     PROVE  \E n \in 0..Len(transcript') :
                                heard = [i \in 1..n |-> transcript'[i].speaker]
            BY <2>1 DEF HeardIsAPrefix
        <3>2. PICK n \in 0..Len(transcript) :
                  heard = [i \in 1..n |-> transcript[i].speaker]
            BY <2>1 DEF HeardIsAPrefix
        <3>3. n \in 0..Len(transcript') /\ \A i \in 1..n : transcript'[i] = transcript[i]
            BY <3>1
        <3>4. heard = [i \in 1..n |-> transcript'[i].speaker]
            BY <3>2, <3>3
        <3> QED BY <3>3, <3>4
    <2> QED
        BY <2>1, <2>3, <2>4 DEF AnswerIsGrounded, ArtifactsAreOfAnswer
<1>11. CASE GenerateReport
    BY <1>11 DEF GenerateReport, HeardIsAPrefix, AnswerIsGrounded, ArtifactsAreOfAnswer
<1>12. CASE UNCHANGED vars
    BY <1>12 DEF vars, HeardIsAPrefix, AnswerIsGrounded, ArtifactsAreOfAnswer
<1> QED
    BY <1>1, <1>2, <1>3, <1>4, <1>5, <1>6, <1>7, <1>8, <1>9, <1>10, <1>11, <1>12 DEF Next

\* The pipeline's invariant: what is kept of an answer is grounded in a
\* prefix of the transcript and in a published standard, and what is stored
\* is computed from it (EvaluationPipeline.run).
THEOREM PipelineInvariance == Spec => []PipelineIInv
<1> QED
    BY PipelineStarts, PipelineKeeps, PTL DEF Spec

\* An observation that was accepted never makes the recommendations fail, so
\* that no evaluation is lost after it was paid for (validate_observation
\* against build_rubric_recommendations).
THEOREM Coachability == Spec => []AcceptedIsCoachable
<1>1. PipelineIInv => AcceptedIsCoachable
    BY DEF PipelineIInv
<1> QED
    BY <1>1, PipelineInvariance, PTL

-----------------------------------------------------------------------------
(* Scoring is monotone *)

\* The length, places and elements of a sequence.
LEMMA SeqFacts ==
    ASSUME NEW T, NEW s \in Seq(T)
    PROVE  /\ Len(s) \in Nat /\ DOMAIN s = 1..Len(s)
           /\ \A i \in 1..Len(s) : s[i] \in T
OBVIOUS

\* A function on the first n places is a sequence.
LEMMA FunctionIsSeq ==
    ASSUME NEW T, NEW n \in Nat, NEW f \in [1..n -> T]
    PROVE  f \in Seq(T) /\ Len(f) = n
OBVIOUS

\* The lesser and the greater of two numbers.
LEMMA LessOfTwo ==
    ASSUME NEW a \in Int, NEW b \in Int
    PROVE  /\ Min({a, b}) = IF a <= b THEN a ELSE b
           /\ Max({a, b}) = IF a <= b THEN b ELSE a
<1>1. CASE a <= b
    <2>1. a \in {a, b} /\ b \in {a, b} /\ \A n \in {a, b} : a <= n /\ n <= b
        BY <1>1
    <2> QED BY <1>1, <2>1, MinIs, MaxIs
<1>2. CASE ~(a <= b)
    <2>1. a \in {a, b} /\ b \in {a, b} /\ \A n \in {a, b} : b <= n /\ n <= a
        BY <1>2
    <2> QED BY <1>2, <2>1, MinIs, MaxIs
<1> QED BY <1>1, <1>2

\* Deductions grow with what they multiply.
LEMMA ProductIsMonotone ==
    ASSUME NEW a \in Int, NEW b \in Int, NEW d \in Nat, a <= b
    PROVE  a * d <= b * d /\ a * d \in Int
OBVIOUS

\* A violation more is found at least as often.
LEMMA OccurrencesRise ==
    ASSUME NEW c \in Categories, NEW v, NEW p
    PROVE  LET d == [c EXCEPT !.violations = Append(@, [criterion |-> v, seqs |-> <<0>>])] IN
           /\ Occurrences(c, p) \in Nat /\ Occurrences(d, p) \in Nat
           /\ Occurrences(c, p) <= Occurrences(d, p)
<1> DEFINE s == c.violations
           x == [criterion |-> v, seqs |-> <<0>>]
           d == [c EXCEPT !.violations = Append(@, x)]
           before == {i \in DOMAIN s : s[i].criterion = p.violation}
           after  == {i \in DOMAIN Append(s, x) : Append(s, x)[i].criterion = p.violation}
<1>1. s \in Seq([criterion : Nat, seqs : Seq(Nat)])
    BY DEF Categories, Findings
<1>2. d.violations = Append(s, x)
    BY DEF Categories
<1> HIDE DEF x, d
<1>3. /\ DOMAIN s = 1..Len(s) /\ Len(s) \in Nat
      /\ DOMAIN Append(s, x) = 1..(Len(s) + 1)
      /\ \A i \in 1..Len(s) : Append(s, x)[i] = s[i]
    BY <1>1
<1> HIDE DEF s
<1>4. before \subseteq after /\ after \subseteq 1..(Len(s) + 1)
    BY <1>3
<1>5. IsFiniteSet(1..(Len(s) + 1))
    BY <1>3, FS_Interval
<1> HIDE DEF before, after
<1>6. IsFiniteSet(after)
    BY <1>4, <1>5, FS_Subset
<1>7. IsFiniteSet(before) /\ Cardinality(before) <= Cardinality(after)
    BY <1>4, <1>6, FS_Subset
<1>8. Cardinality(before) \in Nat /\ Cardinality(after) \in Nat
    BY <1>6, <1>7, FS_CardinalityType
<1>9. Occurrences(c, p) = Cardinality(before) /\ Occurrences(d, p) = Cardinality(after)
    BY <1>2 DEF Occurrences, before, after, s
<1> QED
    BY <1>7, <1>8, <1>9 DEF d, x

\* A violation more costs at least as much.
LEMMA PenaltyRises ==
    ASSUME NEW c \in Categories, NEW v, NEW b,
           b.penalties \in Seq([violation : Nat, deduction : 0..100, max : 0..100])
    PROVE  LET d == [c EXCEPT !.violations = Append(@, [criterion |-> v, seqs |-> <<0>>])] IN
           /\ PenaltyTotal(c, b) \in Int /\ PenaltyTotal(d, b) \in Int
           /\ PenaltyTotal(c, b) <= PenaltyTotal(d, b)
<1> DEFINE d == [c EXCEPT !.violations = Append(@, [criterion |-> v, seqs |-> <<0>>])]
           ps == b.penalties
           Cost(e, p) == Min({Occurrences(e, p), p.max}) * p.deduction
           of(e) == [k \in DOMAIN ps |-> Cost(e, ps[k])]
<1>1. /\ DOMAIN ps = 1..Len(ps) /\ Len(ps) \in Nat
      /\ \A k \in 1..Len(ps) : ps[k].max \in Int /\ ps[k].deduction \in Nat
    <2> DEFINE P == [violation : Nat, deduction : 0..100, max : 0..100]
    <2>1. ps \in Seq(P)
        OBVIOUS
    <2> HIDE DEF ps, P
    <2>2. /\ DOMAIN ps = 1..Len(ps) /\ Len(ps) \in Nat
          /\ \A k \in 1..Len(ps) : ps[k] \in P
        BY <2>1, SeqFacts
    <2>3. \A x \in P : x.max \in 0..100 /\ x.deduction \in 0..100
        BY DEF P
    <2>4. \A k \in 1..Len(ps) : ps[k].max \in 0..100 /\ ps[k].deduction \in 0..100
        BY <2>2, <2>3
    <2>5. \A n \in 0..100 : n \in Int /\ n \in Nat
        OBVIOUS
    <2> QED BY <2>2, <2>4, <2>5
<1>2. \A p : /\ Occurrences(c, p) \in Nat /\ Occurrences(d, p) \in Nat
             /\ Occurrences(c, p) <= Occurrences(d, p)
    BY OccurrencesRise
<1>3. PenaltyTotal(c, b) = SumOf(of(c)) /\ PenaltyTotal(d, b) = SumOf(of(d))
    BY DEF PenaltyTotal
<1> HIDE DEF d
<1>4. ASSUME NEW k \in 1..Len(ps)
      PROVE  /\ of(c)[k] \in Int /\ of(d)[k] \in Int /\ of(c)[k] <= of(d)[k]
    <2> DEFINE p == ps[k]
    <2>1. p.max \in Int /\ p.deduction \in Nat
        BY <1>1
    <2>2. /\ Occurrences(c, p) \in Nat /\ Occurrences(d, p) \in Nat
          /\ Occurrences(c, p) <= Occurrences(d, p)
        BY <1>2
    <2>3. of(c)[k] = Cost(c, p) /\ of(d)[k] = Cost(d, p)
        BY <1>1
    <2> HIDE DEF p, of, ps
    <2> DEFINE m == Min({Occurrences(c, p), p.max})
               n == Min({Occurrences(d, p), p.max})
    <2>4. m \in Int /\ n \in Int /\ m <= n
        <3>1. m = IF Occurrences(c, p) <= p.max THEN Occurrences(c, p) ELSE p.max
            BY <2>1, <2>2, LessOfTwo
        <3>2. n = IF Occurrences(d, p) <= p.max THEN Occurrences(d, p) ELSE p.max
            BY <2>1, <2>2, LessOfTwo
        <3> HIDE DEF m, n
        <3> QED BY <2>1, <2>2, <3>1, <3>2
    <2>5. Cost(c, p) = m * p.deduction /\ Cost(d, p) = n * p.deduction
        OBVIOUS
    <2> HIDE DEF m, n, Cost
    <2>6. m * p.deduction <= n * p.deduction /\ m * p.deduction \in Int
        BY <2>1, <2>4, ProductIsMonotone
    <2>7. n * p.deduction \in Int
        BY <2>1, <2>4, ProductIsMonotone
    <2> QED BY <2>3, <2>5, <2>6, <2>7
<1>5. /\ of(c) \in Seq(Int) /\ of(d) \in Seq(Int)
      /\ Len(of(c)) = Len(ps) /\ Len(of(d)) = Len(ps)
    <2>1. DOMAIN of(c) = 1..Len(ps) /\ DOMAIN of(d) = 1..Len(ps)
        BY <1>1
    <2>2. of(c) \in [1..Len(ps) -> Int] /\ of(d) \in [1..Len(ps) -> Int]
        <3> HIDE DEF Cost, ps
        <3> QED BY <2>1, <1>4
    <2> HIDE DEF of, ps
    <2> QED BY <1>1, <2>2, FunctionIsSeq
<1> HIDE DEF of, ps, Cost
<1>6. SumOf(of(c)) <= SumOf(of(d))
    BY <1>4, <1>5, SumIsMonotone
<1>7. SumOf(of(c)) \in Int /\ SumOf(of(d)) \in Int
    BY <1>5, SumIsInteger
<1> QED
    BY <1>3, <1>6, <1>7 DEF d

(* One more violation in a category never raises its points, and never     *)
(* makes it pass.                                                          *)
LEMMA CategoryNeverGains ==
    ASSUME NEW c \in Categories, NEW v, NEW b,
           b.penalties \in Seq([violation : Nat, deduction : 0..100, max : 0..100]),
           b.weight \in 0..100, b.passing \in 0..100
    PROVE  LET d == [c EXCEPT !.violations = Append(@, [criterion |-> v, seqs |-> <<0>>])] IN
           /\ ScoreCategory(c, b).points \in Int /\ ScoreCategory(d, b).points \in Int
           /\ ScoreCategory(d, b).points <= ScoreCategory(c, b).points
           /\ ScoreCategory(d, b).passed => ScoreCategory(c, b).passed
<1> DEFINE d == [c EXCEPT !.violations = Append(@, [criterion |-> v, seqs |-> <<0>>])]
<1>p. \A n \in 0..100 : n \in Nat /\ n \in Int
    OBVIOUS
<1>1. d.raw = c.raw /\ c.raw \in {Unscored} \cup 0..100
    BY DEF Categories
<1>2. /\ PenaltyTotal(c, b) \in Int /\ PenaltyTotal(d, b) \in Int
      /\ PenaltyTotal(c, b) <= PenaltyTotal(d, b)
    BY PenaltyRises
<1> HIDE DEF d
<1>3. CASE c.raw = Unscored
    BY <1>1, <1>3 DEF ScoreCategory, d
<1>4. CASE c.raw # Unscored
    <2> DEFINE Left(e) == Max({0, e.raw - PenaltyTotal(e, b)})
    <2>1. c.raw \in Int /\ d.raw \in Int /\ b.weight \in Nat
        <3>1. c.raw \in 0..100
            BY <1>1, <1>4
        <3>2. b.weight \in Nat
            BY <1>p
        <3> QED BY <1>1, <1>p, <3>1, <3>2
    <2>q. ASSUME NEW x \in Int PROVE Max({0, x}) = IF 0 <= x THEN x ELSE 0
        <3>1. 0 \in Int
            OBVIOUS
        <3> QED BY <3>1, LessOfTwo
    <2>p. c.raw - PenaltyTotal(c, b) \in Int /\ d.raw - PenaltyTotal(d, b) \in Int
        BY <2>1, <1>2
    <2>2. Left(c) = IF 0 <= c.raw - PenaltyTotal(c, b) THEN c.raw - PenaltyTotal(c, b) ELSE 0
        BY <2>p, <2>q
    <2>3. Left(d) = IF 0 <= d.raw - PenaltyTotal(d, b) THEN d.raw - PenaltyTotal(d, b) ELSE 0
        BY <2>p, <2>q
    <2>4. /\ ScoreCategory(c, b).points = Left(c) * b.weight
          /\ ScoreCategory(d, b).points = Left(d) * b.weight
          /\ ScoreCategory(c, b).passed = (Left(c) >= b.passing)
          /\ ScoreCategory(d, b).passed = (Left(d) >= b.passing)
        BY <1>1, <1>4 DEF ScoreCategory
    <2> HIDE DEF Left
    <2>5. Left(c) \in Int /\ Left(d) \in Int /\ Left(d) <= Left(c)
        BY <2>1, <2>2, <2>3, <1>1, <1>2
    <2>6. /\ Left(d) * b.weight <= Left(c) * b.weight
          /\ Left(d) * b.weight \in Int /\ Left(c) * b.weight \in Int
        BY <2>1, <2>5, ProductIsMonotone
    <2>7. ScoreCategory(d, b).passed => ScoreCategory(c, b).passed
        <3>1. b.passing \in Int
            BY <1>p
        <3>2. Left(d) >= b.passing => Left(c) >= b.passing
            BY <2>5, <3>1
        <3> QED BY <2>4, <3>2, Zenon
    <2>8. /\ ScoreCategory(c, b).points \in Int /\ ScoreCategory(d, b).points \in Int
          /\ ScoreCategory(d, b).points <= ScoreCategory(c, b).points
        BY <2>4, <2>6
    <2> QED BY <2>7, <2>8 DEF d
<1> QED BY <1>3, <1>4

\* The block of an id the standard has.
LEMMA BlockExists ==
    ASSUME NEW st, NEW id \in {b.id : b \in st.blocks}
    PROVE  Block(st, id) \in st.blocks /\ Block(st, id).id = id
BY DEF Block

\* The numbers of a published standard's block.
LEMMA BlocksAreTyped ==
    ASSUME NEW st, IsStandard(st), NEW b \in st.blocks
    PROVE  /\ b.penalties \in Seq([violation : Nat, deduction : 0..100, max : 0..100])
           /\ b.weight \in 0..100 /\ b.passing \in 0..100
           /\ NoCriterion \notin Criteria(b)
           /\ st.overall \in Int
<1>1. /\ {b.weight, b.passing} \subseteq 0..100
      /\ b.penalties \in Seq([violation : Nat, deduction : 0..100, max : 0..100])
      /\ NoCriterion \notin Criteria(b)
    BY DEF IsStandard
<1>2. st.overall \in 0..100
    BY DEF IsStandard
<1>3. st.overall \in Int
    BY <1>2
<1> QED BY <1>1, <1>3

\* A violation more changes one category.
LEMMA WithViolationFields ==
    ASSUME NEW o, NEW i \in DOMAIN o.categories, NEW v, "categories" \in DOMAIN o
    PROVE  LET x == [criterion |-> v, seqs |-> <<0>>]
               w == WithViolation(o, i, v) IN
           /\ w.status = o.status
           /\ DOMAIN w.categories = DOMAIN o.categories
           /\ w.categories[i] = [o.categories[i] EXCEPT !.violations = Append(@, x)]
           /\ \A j \in DOMAIN o.categories : j # i => w.categories[j] = o.categories[j]
BY DEF WithViolation

\* The observation of a session that was too short.
LEMMA StatusOfNotApplicable ==
    ASSUME NEW st
    PROVE  /\ NotApplicable(st).status = "not_applicable"
           /\ DOMAIN NotApplicable(st).categories = 1..Cardinality(st.blocks)
           /\ \A i \in DOMAIN NotApplicable(st).categories :
                  NotApplicable(st).categories[i].raw = Unscored
           /\ "categories" \in DOMAIN NotApplicable(st)
BY DEF NotApplicable

(* Two observations of the same status, the second with no more points in  *)
(* any category, and none passed that was not: it is not scored better.    *)
LEMMA ScoreFollowsCategories ==
    ASSUME NEW o, NEW w, NEW st, NEW n \in Nat, st.overall \in Int,
           DOMAIN o.categories = 1..n, DOMAIN w.categories = 1..n,
           w.status = o.status,
           \A j \in 1..n :
              LET was == ScoreCategory(o.categories[j], Block(st, o.categories[j].block))
                  is  == ScoreCategory(w.categories[j], Block(st, w.categories[j].block))
              IN  /\ was.points \in Int /\ is.points \in Int
                  /\ is.points <= was.points /\ (is.passed => was.passed)
    PROVE  /\ Canonical(w, st).total <= Canonical(o, st).total
           /\ Canonical(w, st).passed => Canonical(o, st).passed
<1> DEFINE Scored(x, j) == ScoreCategory(x.categories[j], Block(st, x.categories[j].block))
           Points(x) == [j \in 1..n |-> Scored(x, j).points]
<1>1. /\ Canonical(o, st).total = SumOf([j \in DOMAIN o.categories |-> Scored(o, j).points])
      /\ Canonical(w, st).total = SumOf([j \in DOMAIN w.categories |-> Scored(w, j).points])
    BY CanonicalTotal
<1>2. Canonical(o, st).total = SumOf(Points(o)) /\ Canonical(w, st).total = SumOf(Points(w))
    BY <1>1
<1>3. \A j \in 1..n : /\ Scored(o, j).points \in Int /\ Scored(w, j).points \in Int
                      /\ Scored(w, j).points <= Scored(o, j).points
                      /\ Scored(w, j).passed => Scored(o, j).passed
    OBVIOUS
<1>p. /\ Canonical(o, st).categories = [j \in 1..n |-> Scored(o, j)]
      /\ Canonical(w, st).categories = [j \in 1..n |-> Scored(w, j)]
    BY CanonicalCategories
<1>q. /\ Canonical(o, st).passed <=>
           /\ o.status = "evaluated" /\ Canonical(o, st).total >= 100 * st.overall
           /\ \A s \in Range(Canonical(o, st).categories) : s.passed
      /\ Canonical(w, st).passed <=>
           /\ w.status = "evaluated" /\ Canonical(w, st).total >= 100 * st.overall
           /\ \A s \in Range(Canonical(w, st).categories) : s.passed
    BY CanonicalFields
<1> HIDE DEF Scored
<1>4. Points(o) \in [1..n -> Int] /\ Points(w) \in [1..n -> Int]
    BY <1>3
<1>5. \A j \in 1..n : Points(w)[j] <= Points(o)[j]
    BY <1>3
<1> HIDE DEF Points
<1>6. /\ Points(o) \in Seq(Int) /\ Points(w) \in Seq(Int)
      /\ Len(Points(o)) = n /\ Len(Points(w)) = n
    BY <1>4, FunctionIsSeq
<1>7. SumOf(Points(w)) <= SumOf(Points(o))
    BY <1>5, <1>6, SumIsMonotone
<1>8. SumOf(Points(w)) \in Int /\ SumOf(Points(o)) \in Int
    BY <1>6, SumIsInteger
<1>a. /\ Range(Canonical(o, st).categories) = {Scored(o, j) : j \in 1..n}
      /\ Range(Canonical(w, st).categories) = {Scored(w, j) : j \in 1..n}
    BY <1>p DEF Range
<1>9. (\A s \in Range(Canonical(w, st).categories) : s.passed)
         => \A s \in Range(Canonical(o, st).categories) : s.passed
    BY <1>3, <1>a
<1>10. Canonical(w, st).total >= 100 * st.overall => Canonical(o, st).total >= 100 * st.overall
    BY <1>2, <1>7, <1>8
<1>11. Canonical(w, st).passed => Canonical(o, st).passed
    BY <1>9, <1>10, <1>q
<1> QED
    BY <1>2, <1>7, <1>11

\* A violation more neither raises the total nor passes the session.
LEMMA ViolationNeverHelps ==
    ASSUME NEW o, NEW st, NEW i \in DOMAIN o.categories, NEW v, IsStandard(st),
           \/ o = NotApplicable(st)
           \/ o \in ObservationsOf(Names) /\ \E lines : Valid(o, st, lines)
    PROVE  /\ Canonical(WithViolation(o, i, v), st).total <= Canonical(o, st).total
           /\ Canonical(WithViolation(o, i, v), st).passed => Canonical(o, st).passed
<1> DEFINE x == [criterion |-> v, seqs |-> <<0>>]
           w == WithViolation(o, i, v)
           More(c) == [c EXCEPT !.violations = Append(@, x)]
           Better(c, d) ==
              LET was == ScoreCategory(c, Block(st, c.block))
                  is  == ScoreCategory(d, Block(st, d.block))
              IN  /\ was.points \in Int /\ is.points \in Int
                  /\ is.points <= was.points /\ (is.passed => was.passed)
<1>1. "categories" \in DOMAIN o
    BY StatusOfNotApplicable DEF ObservationsOf
<1>2. /\ w.status = o.status /\ DOMAIN w.categories = DOMAIN o.categories
      /\ w.categories[i] = More(o.categories[i])
      /\ \A j \in DOMAIN o.categories : j # i => w.categories[j] = o.categories[j]
    BY <1>1, WithViolationFields
<1> HIDE DEF w
<1>3. \A c : Better(c, c) <=> ScoreCategory(c, Block(st, c.block)).points \in Int
    OBVIOUS
<1>o. st.overall \in Int /\ IsFiniteSet(st.blocks)
    <2>1. st.overall \in 0..100 /\ IsFiniteSet(st.blocks)
        BY DEF IsStandard
    <2> QED BY <2>1
<1>4. CASE o = NotApplicable(st)
    <2> DEFINE n == Cardinality(st.blocks)
    <2>1. n \in Nat /\ DOMAIN o.categories = 1..n
        BY <1>o, <1>4, FS_CardinalityType, StatusOfNotApplicable
    <2> HIDE DEF n
    <2>2. \A j \in 1..n : w.categories[j].raw = Unscored /\ o.categories[j].raw = Unscored
        <3>1. \A j \in 1..n : o.categories[j].raw = Unscored
            BY <2>1, <1>4, StatusOfNotApplicable
        <3>2. More(o.categories[i]).raw = o.categories[i].raw
            OBVIOUS
        <3> QED BY <3>1, <3>2, <1>2, <2>1
    <2>3. \A c, b : c.raw = Unscored =>
             ScoreCategory(c, b).points = 0 /\ ScoreCategory(c, b).passed = FALSE
        BY DEF ScoreCategory
    <2>4. \A j \in 1..n : Better(o.categories[j], w.categories[j])
        BY <2>2, <2>3
    <2> QED BY <1>2, <1>o, <2>1, <2>4, ScoreFollowsCategories DEF w
<1>5. CASE o \in ObservationsOf(Names) /\ \E lines : Valid(o, st, lines)
    <2> DEFINE n == Len(o.categories)
    <2>1. n \in Nat /\ DOMAIN o.categories = 1..n /\ \A j \in 1..n : o.categories[j] \in Categories
        BY <1>5, SeqFacts DEF ObservationsOf
    <2> HIDE DEF n
    <2>2. ASSUME NEW j \in 1..n PROVE Better(o.categories[j], w.categories[j])
        <3> DEFINE c == o.categories[j]
                   b == Block(st, c.block)
        <3>1. b \in st.blocks
            <4>1. c.block \in {a.id : a \in st.blocks}
                BY <1>5, <2>1 DEF Valid, Range
            <4> QED BY <4>1, BlockExists
        <3>2. /\ b.penalties \in Seq([violation : Nat, deduction : 0..100, max : 0..100])
              /\ b.weight \in 0..100 /\ b.passing \in 0..100
            BY <3>1, BlocksAreTyped
        <3>3. c \in Categories /\ More(c).block = c.block
            BY <2>1
        <3> HIDE DEF c, b
        <3>4. /\ ScoreCategory(c, b).points \in Int /\ ScoreCategory(More(c), b).points \in Int
              /\ ScoreCategory(More(c), b).points <= ScoreCategory(c, b).points
              /\ ScoreCategory(More(c), b).passed => ScoreCategory(c, b).passed
            BY <3>2, <3>3, CategoryNeverGains
        <3>5. Better(c, c) /\ Better(c, More(c))
            BY <3>3, <3>4 DEF b
        <3> HIDE DEF Better, More
        <3> QED BY <2>1, <1>2, <3>5 DEF c
    <2> QED BY <1>2, <1>o, <2>1, <2>2, ScoreFollowsCategories DEF w
<1> QED BY <1>4, <1>5

\* Scoring is monotone: one more violation found in any block never raises
\* the total and never passes a failed session (calculate_rubric_score).
THEOREM Monotonicity == Spec => []FindingsNeverHelp
<1>1. PipelineIInv => FindingsNeverHelp
    <2> SUFFICES ASSUME PipelineIInv, phase = "accepted",
                        NEW i \in DOMAIN answer.categories, NEW v
                 PROVE  LET worse == Canonical(WithViolation(answer, i, v), pinned)
                            plain == Canonical(answer, pinned)
                        IN  worse.total <= plain.total /\ (worse.passed => plain.passed)
        BY DEF FindingsNeverHelp
    <2>1. pinned \in Standards
        BY DEF PipelineIInv, PinnedIsPublished
    <2>2. IsStandard(pinned)
        BY <2>1, StandardsAssumption
    <2>3. \/ answer = NotApplicable(pinned)
          \/ answer \in ObservationsOf(Names) /\ \E lines : Valid(answer, pinned, lines)
        BY DEF PipelineIInv, AnswerIsGrounded
    <2> QED BY <2>2, <2>3, ViolationNeverHelps
<1> QED
    BY <1>1, PipelineInvariance, PTL

-----------------------------------------------------------------------------
(* What is recommended *)

(* What the validator says of one category. *)
LEMMA CategoryOfValid ==
    ASSUME NEW o \in ObservationsOf(Names), NEW st, IsStandard(st), NEW lines,
           Valid(o, st, lines), NEW n \in DOMAIN o.categories
    PROVE  LET c == o.categories[n]
               b == Block(st, c.block)
           IN  /\ c \in Categories /\ b \in st.blocks /\ b.id = c.block
               /\ CategoryIsGrounded(c, b, lines)
               /\ \A f \in Range(c.strengths) \cup Range(c.violations) : f.seqs # <<>>
               /\ (o.status = "evaluated") <=> (c.raw # Unscored)
               /\ InputsOf(c) \in Seq(RecommendationInputs)
               /\ \A i \in Range(InputsOf(c)) :
                     i \in RecommendationInputs /\ InputIsGrounded(i, c, b)
<1> DEFINE c == o.categories[n]
           b == Block(st, c.block)
<1>1. c \in Categories /\ c \in Range(o.categories)
    BY DEF ObservationsOf, Range
<1>2. c.block \in {a.id : a \in st.blocks}
    BY DEF Valid, Range
<1>3. b \in st.blocks /\ b.id = c.block
    BY <1>2, BlockExists
<1>4. CategoryIsGrounded(c, b, lines)
    BY <1>1 DEF Valid
<1>5. /\ \A f \in Range(c.strengths) \cup Range(c.violations) : f.seqs # <<>>
      /\ (o.status = "evaluated") <=> (c.raw # Unscored)
    BY <1>1 DEF Valid, WellFormed
<1> HIDE DEF c, b
<1>6. /\ InputsOf(c) \in Seq(RecommendationInputs)
      /\ \A i \in Range(InputsOf(c)) :
             i \in RecommendationInputs /\ InputIsGrounded(i, c, b)
    BY <1>1, <1>4, <1>5, InputsAreGrounded
<1> QED
    BY <1>1, <1>3, <1>4, <1>5, <1>6 DEF c, b

(* One category per block, and no criterion of two blocks. *)
LEMMA CategoriesAreApart ==
    ASSUME NEW o \in ObservationsOf(Names), NEW st, IsStandard(st), NEW lines,
           Valid(o, st, lines), NEW m \in DOMAIN o.categories, NEW n \in DOMAIN o.categories,
           \/ o.categories[m].block = o.categories[n].block
           \/ \E k : /\ k \in Criteria(Block(st, o.categories[m].block))
                     /\ k \in Criteria(Block(st, o.categories[n].block))
    PROVE  m = n
<1> DEFINE b == Block(st, o.categories[m].block)
           c == Block(st, o.categories[n].block)
<1>1. /\ b \in st.blocks /\ b.id = o.categories[m].block
      /\ c \in st.blocks /\ c.id = o.categories[n].block
    BY CategoryOfValid
<1>2. b.id = c.id \/ Criteria(b) \cap Criteria(c) # {}
    BY <1>1
<1>3. b = c
    BY <1>1, <1>2 DEF IsStandard
<1>4. o.categories[m].block = o.categories[n].block
    BY <1>1, <1>3
<1> QED
    BY <1>4 DEF Valid, IsInjective

-----------------------------------------------------------------------------

EvidenceItems == [seq : Nat, speaker : {"agent", "debtor"},
                  excerpt : Passages \cup {"respaced", "foreign"}]
RecommendationItems ==
    [block : Nat, criterion : Nat, seq : Nat, quotes : Seq(EvidenceItems)]

QuotesOf(c, n) == Picked(c.evidence, {k \in DOMAIN c.evidence : c.evidence[k].seq = n})

\* A recommendation quotes evidence of its own line.
LEMMA QuotesAreEvidence ==
    ASSUME NEW c \in Categories, NEW n
    PROVE  /\ QuotesOf(c, n) \in Seq(EvidenceItems)
           /\ \A k \in DOMAIN QuotesOf(c, n) :
                 QuotesOf(c, n)[k] \in Range(c.evidence) /\ QuotesOf(c, n)[k].seq = n
<1> DEFINE places == {k \in DOMAIN c.evidence : c.evidence[k].seq = n}
<1>1. c.evidence \in Seq(EvidenceItems)
    BY DEF Categories, EvidenceItems
<1>2. QuotesOf(c, n) = Picked(c.evidence, places)
    BY DEF QuotesOf
<1> HIDE DEF places
<1>3. Picked(c.evidence, places) \in Seq(EvidenceItems)
    BY <1>1, PickedElements
<1>4. \A k \in DOMAIN Picked(c.evidence, places) :
         \E i \in DOMAIN c.evidence : i \in places /\ Picked(c.evidence, places)[k] = c.evidence[i]
    BY <1>1, PickedElements
<1> QED
    BY <1>2, <1>3, <1>4 DEF places, Range

\* The recommendations of a category are of its inputs, in order.
LEMMA RecommendationsOfCategory ==
    ASSUME NEW c \in Categories, InputsOf(c) \in Seq(RecommendationInputs)
    PROVE  /\ RecommendationsOf(c) \in Seq(RecommendationItems)
           /\ DOMAIN RecommendationsOf(c) = DOMAIN InputsOf(c)
           /\ \A k \in DOMAIN InputsOf(c) :
                 LET r == RecommendationsOf(c)[k] IN
                 /\ r.block = c.block /\ r.criterion = InputsOf(c)[k].criterion
                 /\ r.seq = InputsOf(c)[k].seq /\ r.quotes = QuotesOf(c, r.seq)
                 /\ r = [block |-> c.block, criterion |-> r.criterion, seq |-> r.seq,
                         quotes |-> QuotesOf(c, r.seq)]
<1> DEFINE s == InputsOf(c)
           rs == RecommendationsOf(c)
           r(k) == [block |-> c.block, criterion |-> s[k].criterion, seq |-> s[k].seq,
                    quotes |-> QuotesOf(c, s[k].seq)]
<1>1. rs = [k \in DOMAIN s |-> r(k)]
    BY DEF RecommendationsOf, QuotesOf
<1>2. c.block \in Nat
    BY DEF Categories
<1> HIDE DEF s, rs
<1>3. /\ Len(s) \in Nat /\ DOMAIN s = 1..Len(s)
      /\ \A k \in 1..Len(s) : s[k] \in RecommendationInputs
    BY SeqFacts DEF s
<1>4. \A k \in 1..Len(s) : s[k].criterion \in Nat /\ s[k].seq \in Nat
    BY <1>3 DEF RecommendationInputs
<1>5. \A k \in 1..Len(s) : r(k) \in RecommendationItems
    BY <1>2, <1>4, QuotesAreEvidence DEF RecommendationItems
<1>6. rs \in [1..Len(s) -> RecommendationItems]
    BY <1>1, <1>3, <1>5
<1>7. rs \in Seq(RecommendationItems) /\ DOMAIN rs = DOMAIN s
    BY <1>3, <1>6, FunctionIsSeq
<1>8. ASSUME NEW k \in DOMAIN s
      PROVE  /\ rs[k].block = c.block /\ rs[k].criterion = s[k].criterion
             /\ rs[k].seq = s[k].seq /\ rs[k].quotes = QuotesOf(c, rs[k].seq)
             /\ rs[k] = [block |-> c.block, criterion |-> rs[k].criterion, seq |-> rs[k].seq,
                         quotes |-> QuotesOf(c, rs[k].seq)]
    BY <1>1
<1> QED
    BY <1>7, <1>8 DEF s, rs

\* at: the category and the input each of the recommendations is made of.
ComeFrom(items, cs, at) ==
    /\ at \in [DOMAIN items -> Nat \X Nat]
    /\ \A n \in DOMAIN items :
           /\ at[n][1] \in DOMAIN cs
           /\ at[n][2] \in DOMAIN InputsOf(cs[at[n][1]])
           /\ items[n] = RecommendationsOf(cs[at[n][1]])[at[n][2]]
    /\ \A m, n \in DOMAIN items : at[m] = at[n] => m = n

(* Each recommendation is made of one input of one category. *)
LEMMA RecommendedPlaces ==
    ASSUME NEW o \in ObservationsOf(Names), NEW st, IsStandard(st), NEW lines,
           Valid(o, st, lines), o.status = "evaluated"
    PROVE  /\ Recommendations(Canonical(o, st)) \in Seq(RecommendationItems)
           /\ \E at : ComeFrom(Recommendations(Canonical(o, st)), o.categories, at)
<1> DEFINE cs == o.categories
           rss == [i \in DOMAIN cs |-> RecommendationsOf(cs[i])]
           items == Recommendations(Canonical(o, st))
<1>1. Canonical(o, st).status = o.status
    BY CanonicalFields
<1>2. /\ DOMAIN Canonical(o, st).categories = DOMAIN cs
      /\ \A i \in DOMAIN cs : Canonical(o, st).categories[i].seen = cs[i]
    BY SeenIsCategory
<1>3. items = FlattenSeq(rss)
    <2>1. [i \in DOMAIN Canonical(o, st).categories |->
              RecommendationsOf(Canonical(o, st).categories[i].seen)] = rss
        BY <1>2
    <2> QED BY <1>1, <2>1 DEF Recommendations
<1>4. Len(cs) \in Nat /\ DOMAIN cs = 1..Len(cs) /\ \A i \in 1..Len(cs) : cs[i] \in Categories
    BY SeqFacts DEF ObservationsOf
<1>5. \A i \in DOMAIN cs :
          /\ RecommendationsOf(cs[i]) \in Seq(RecommendationItems)
          /\ DOMAIN RecommendationsOf(cs[i]) = DOMAIN InputsOf(cs[i])
    <2> TAKE i \in DOMAIN cs
    <2>1. cs[i] \in Categories /\ InputsOf(cs[i]) \in Seq(RecommendationInputs)
        BY CategoryOfValid
    <2> QED BY <2>1, RecommendationsOfCategory
<1> HIDE DEF cs, items
<1>6. DOMAIN rss = DOMAIN cs /\ \A i \in DOMAIN cs : rss[i] = RecommendationsOf(cs[i])
    OBVIOUS
<1>7. rss \in [1..Len(cs) -> Seq(RecommendationItems)]
    BY <1>4, <1>5
<1> HIDE DEF rss
<1>8. rss \in Seq(Seq(RecommendationItems))
    BY <1>4, <1>7, FunctionIsSeq
<1>9. FlattenSeq(rss) \in Seq(RecommendationItems)
    BY <1>8, FlattenPlaces
<1>11. PICK at : FlattenedAt(items, rss, at)
    BY <1>3, <1>8, FlattenPlaces
<1>12. \A n \in DOMAIN items :
          /\ at[n][1] \in DOMAIN cs
          /\ at[n][2] \in DOMAIN InputsOf(cs[at[n][1]])
          /\ items[n] = RecommendationsOf(cs[at[n][1]])[at[n][2]]
    BY <1>5, <1>6, <1>11 DEF FlattenedAt
<1>13. items \in Seq(RecommendationItems)
    BY <1>3, <1>9
<1>14. ComeFrom(items, cs, at)
    BY <1>11, <1>12 DEF ComeFrom, FlattenedAt
<1> QED
    BY <1>13, <1>14 DEF cs, items

(* What a recommendation says of its category. *)
LEMMA RecommendedAreGrounded ==
    ASSUME NEW o \in ObservationsOf(Names), NEW st, IsStandard(st), NEW lines,
           Valid(o, st, lines), o.status = "evaluated",
           NEW n \in DOMAIN Recommendations(Canonical(o, st))
    PROVE  LET r == Recommendations(Canonical(o, st))[n] IN
           \E i \in DOMAIN o.categories :
               LET c == o.categories[i] IN
               /\ r.block = c.block /\ r.criterion \in Criteria(Block(st, c.block))
               /\ r.seq \in EvidenceNumbers(c) /\ r.quotes = QuotesOf(c, r.seq)
               /\ r = [block |-> c.block, criterion |-> r.criterion, seq |-> r.seq,
                       quotes |-> QuotesOf(c, r.seq)]
<1> DEFINE items == Recommendations(Canonical(o, st))
           cs    == o.categories
           r     == items[n]
<1>1. PICK at : ComeFrom(items, cs, at)
    BY RecommendedPlaces
<1>2. PICK i \in DOMAIN cs : \E j \in DOMAIN InputsOf(cs[i]) :
          r = RecommendationsOf(cs[i])[j]
    <2> HIDE DEF items, cs
    <2>1. n \in DOMAIN items
        BY DEF items
    <2> QED BY <1>1, <2>1 DEF ComeFrom
<1>3. PICK j \in DOMAIN InputsOf(cs[i]) : r = RecommendationsOf(cs[i])[j]
    BY <1>2
<1> DEFINE c == cs[i]
           x == InputsOf(c)[j]
<1>4. /\ c \in Categories /\ InputsOf(c) \in Seq(RecommendationInputs)
      /\ CategoryIsGrounded(c, Block(st, c.block), lines)
      /\ x \in Range(InputsOf(c))
      /\ \A y \in Range(InputsOf(c)) : InputIsGrounded(y, c, Block(st, c.block))
    BY CategoryOfValid, <1>3 DEF Range
<1> HIDE DEF cs, items, r
<1>5. /\ r.block = c.block /\ r.criterion = x.criterion
      /\ r.seq = x.seq /\ r.quotes = QuotesOf(c, r.seq)
      /\ r = [block |-> c.block, criterion |-> r.criterion, seq |-> r.seq,
              quotes |-> QuotesOf(c, r.seq)]
    BY <1>3, <1>4, RecommendationsOfCategory
<1>6. x.criterion \in Criteria(Block(st, c.block)) /\ x.seq \in EvidenceNumbers(c)
    BY <1>4 DEF InputIsGrounded
<1> QED
    BY <1>5, <1>6 DEF cs, items, r

CoachedOnce(c) == Unrepeated([i \in DOMAIN InputsOf(c) |-> InputsOf(c)[i].criterion])

(* When every category coaches a criterion at most once, no block has two  *)
(* recommendations for one criterion.                                      *)
LEMMA RecommendedApart ==
    ASSUME NEW o \in ObservationsOf(Names), NEW st, IsStandard(st), NEW lines,
           Valid(o, st, lines), o.status = "evaluated",
           \A i \in DOMAIN o.categories : CoachedOnce(o.categories[i]),
           NEW m \in DOMAIN Recommendations(Canonical(o, st)),
           NEW n \in DOMAIN Recommendations(Canonical(o, st)),
           Recommendations(Canonical(o, st))[m].block = Recommendations(Canonical(o, st))[n].block,
           Recommendations(Canonical(o, st))[m].criterion
               = Recommendations(Canonical(o, st))[n].criterion
    PROVE  m = n
<1> DEFINE items == Recommendations(Canonical(o, st))
           cs    == o.categories
<1>1. PICK at : ComeFrom(items, cs, at)
    BY RecommendedPlaces
<1>2. ASSUME NEW k \in DOMAIN items
      PROVE  /\ at[k] = <<at[k][1], at[k][2]>>
             /\ at[k][1] \in DOMAIN cs /\ at[k][2] \in DOMAIN InputsOf(cs[at[k][1]])
             /\ items[k].block = cs[at[k][1]].block
             /\ items[k].criterion = InputsOf(cs[at[k][1]])[at[k][2]].criterion
    <2> DEFINE i == at[k][1]
               j == at[k][2]
    <2>1. i \in DOMAIN cs /\ j \in DOMAIN InputsOf(cs[i]) /\ items[k] = RecommendationsOf(cs[i])[j]
        BY <1>1 DEF ComeFrom
    <2>2. at[k] \in Nat \X Nat
        BY <1>1 DEF ComeFrom
    <2> HIDE DEF i, j
    <2>3. cs[i] \in Categories /\ InputsOf(cs[i]) \in Seq(RecommendationInputs)
        BY <2>1, CategoryOfValid
    <2> HIDE DEF items, cs
    <2>4. items[k].block = cs[i].block /\ items[k].criterion = InputsOf(cs[i])[j].criterion
        BY <2>1, <2>3, RecommendationsOfCategory
    <2> QED BY <2>1, <2>2, <2>4 DEF i, j
<1>3. at[m][1] = at[n][1]
    <2>1. at[m][1] \in DOMAIN cs /\ at[n][1] \in DOMAIN cs
        BY <1>2
    <2>2. cs[at[m][1]].block = cs[at[n][1]].block
        BY <1>2
    <2> QED BY <2>1, <2>2, CategoriesAreApart
<1>4. at[m][2] = at[n][2]
    <2> DEFINE c == cs[at[m][1]]
    <2>1. at[m][2] \in DOMAIN InputsOf(c) /\ at[n][2] \in DOMAIN InputsOf(c)
        BY <1>2, <1>3
    <2>2. InputsOf(c)[at[m][2]].criterion = InputsOf(c)[at[n][2]].criterion
        BY <1>2, <1>3
    <2>3. CoachedOnce(c)
        BY <1>2
    <2> HIDE DEF c
    <2> QED BY <2>1, <2>2, <2>3 DEF CoachedOnce, Unrepeated, IsInjective
<1> HIDE DEF items, cs
<1>5. m \in DOMAIN items /\ n \in DOMAIN items
    BY DEF items
<1>6. at[m] = at[n]
    BY <1>2, <1>3, <1>4, <1>5
<1> QED
    BY <1>1, <1>5, <1>6 DEF ComeFrom

(* The inputs of all categories differ, too.                               *)
LEMMA InputsApart ==
    ASSUME NEW o \in ObservationsOf(Names), NEW st, IsStandard(st), NEW lines,
           Valid(o, st, lines),
           \A i \in DOMAIN o.categories : CoachedOnce(o.categories[i])
    PROVE  Unrepeated(FlattenSeq([i \in DOMAIN o.categories |-> o.categories[i].inputs]))
<1> DEFINE cs == o.categories
           ss == [i \in DOMAIN cs |-> cs[i].inputs]
           flat == FlattenSeq(ss)
<1>1. Len(cs) \in Nat /\ DOMAIN cs = 1..Len(cs) /\ \A i \in 1..Len(cs) : cs[i] \in Categories
    BY SeqFacts DEF ObservationsOf
<1>2. \A i \in DOMAIN cs : cs[i].inputs \in Seq(RecommendationInputs)
    BY <1>1, CitedAreNumbers
<1>c. \A i \in DOMAIN cs :
          /\ CategoryIsGrounded(cs[i], Block(st, cs[i].block), lines)
          /\ CoachedOnce(cs[i])
    BY CategoryOfValid
<1>a. \A m, n \in DOMAIN cs :
          (\E k : k \in Criteria(Block(st, cs[m].block)) /\ k \in Criteria(Block(st, cs[n].block)))
              => m = n
    BY CategoriesAreApart
<1> HIDE DEF cs
<1>3. ss \in [1..Len(cs) -> Seq(RecommendationInputs)]
    BY <1>1, <1>2
<1>d. DOMAIN ss = DOMAIN cs /\ \A i \in DOMAIN cs : ss[i] = cs[i].inputs
    OBVIOUS
<1> HIDE DEF ss
<1>4. ss \in Seq(Seq(RecommendationInputs))
    BY <1>1, <1>3, FunctionIsSeq
<1>6. PICK at : FlattenedAt(flat, ss, at)
    BY <1>4, FlattenPlaces
<1> HIDE DEF flat
<1>7. ASSUME NEW m \in DOMAIN flat, NEW n \in DOMAIN flat, flat[m] = flat[n] PROVE m = n
    <2> DEFINE i == at[m][1]
               j == at[m][2]
               p == at[n][1]
               q == at[n][2]
    <2>1. /\ i \in DOMAIN cs /\ j \in DOMAIN cs[i].inputs /\ flat[m] = cs[i].inputs[j]
          /\ p \in DOMAIN cs /\ q \in DOMAIN cs[p].inputs /\ flat[n] = cs[p].inputs[q]
        BY <1>6, <1>d DEF FlattenedAt
    <2>2. at[m] = <<i, j>> /\ at[n] = <<p, q>>
        <3>1. at[m] \in Nat \X Nat /\ at[n] \in Nat \X Nat
            BY <1>6 DEF FlattenedAt
        <3> QED BY <3>1
    <2> HIDE DEF i, j, p, q
    <2>3. ASSUME NEW k \in DOMAIN cs, NEW l \in DOMAIN cs[k].inputs
          PROVE  cs[k].inputs[l].criterion \in Criteria(Block(st, cs[k].block))
        <3>1. cs[k].inputs[l] \in Range(cs[k].inputs)
            BY DEF Range
        <3> QED BY <3>1, <1>c DEF CategoryIsGrounded, InputIsGrounded
    <2>4. i = p
        <3> DEFINE k == cs[i].inputs[j].criterion
        <3>1. cs[i].inputs[j] = cs[p].inputs[q]
            BY <2>1, <1>7
        <3>2. k \in Criteria(Block(st, cs[i].block))
            BY <2>1, <2>3
        <3>3. k \in Criteria(Block(st, cs[p].block))
            BY <2>1, <2>3, <3>1
        <3> HIDE DEF k
        <3> QED BY <2>1, <3>2, <3>3, <1>a
    <2>5. InputsOf(cs[i]) = cs[i].inputs
        <3>1. cs[i].inputs # <<>>
            BY <2>1
        <3> QED BY <3>1 DEF InputsOf
    <2>6. j = q
        <3> DEFINE s == cs[i].inputs
        <3>1. j \in DOMAIN s /\ q \in DOMAIN s /\ s[j] = s[q]
            BY <2>1, <2>4, <1>7
        <3>2. Unrepeated([k \in DOMAIN s |-> s[k].criterion])
            BY <2>1, <2>5, <1>c DEF CoachedOnce
        <3> HIDE DEF s
        <3> QED BY <3>1, <3>2 DEF Unrepeated, IsInjective
    <2> QED BY <2>2, <2>4, <2>6, <1>6 DEF FlattenedAt
<1> QED
    BY <1>7 DEF Unrepeated, IsInjective, flat, ss, cs

(* The coaching's blocks hold the recommendations of their block, each     *)
(* once.                                                                   *)
LEMMA CoachingByBlock ==
    ASSUME NEW canonical, Recommendations(canonical) \in Seq(RecommendationItems),
           NEW id \in DOMAIN Coaching(canonical).blocks
    PROVE  LET items == Recommendations(canonical)
               recs  == Coaching(canonical).blocks[id]
           IN  /\ recs \in Seq(RecommendationItems)
               /\ \A r \in Range(recs) : r.block = id /\ r \in Range(items)
               /\ \E at : PickedAt(recs, items, {n \in DOMAIN items : items[n].block = id}, at)
<1> DEFINE items == Recommendations(canonical)
           places == {n \in DOMAIN items : items[n].block = id}
           recs == Picked(items, places)
<1>1. Coaching(canonical).blocks[id] = recs
    BY DEF Coaching
<1> HIDE DEF items
<1>2. items \in Seq(RecommendationItems)
    BY DEF items
<1>p. \A n \in places : items[n].block = id
    OBVIOUS
<1> HIDE DEF places
<1>3. recs \in Seq(RecommendationItems) /\ \E at : PickedAt(recs, items, places, at)
    BY <1>2, PickedPlaces
<1> HIDE DEF recs
<1>5. PICK at : PickedAt(recs, items, places, at)
    BY <1>3
<1>6. \A n \in DOMAIN recs : recs[n].block = id /\ recs[n] \in Range(items)
    BY <1>p, <1>5 DEF PickedAt, Range
<1>7. recs \in Seq(RecommendationItems) /\ \A r \in Range(recs) : r.block = id /\ r \in Range(items)
    BY <1>3, <1>6 DEF Range
<1> QED
    BY <1>1, <1>3, <1>7 DEF items, places, recs

(* At most one recommendation for a criterion makes each block say it once. *)
LEMMA CoachedApart ==
    ASSUME NEW canonical, Recommendations(canonical) \in Seq(RecommendationItems),
           NEW id \in DOMAIN Coaching(canonical).blocks,
           \A m, n \in DOMAIN Recommendations(canonical) :
               /\ Recommendations(canonical)[m].block = Recommendations(canonical)[n].block
               /\ Recommendations(canonical)[m].criterion = Recommendations(canonical)[n].criterion
               => m = n
    PROVE  LET recs == Coaching(canonical).blocks[id] IN
           Unrepeated([i \in DOMAIN recs |-> recs[i].criterion])
<1> DEFINE items == Recommendations(canonical)
           places == {n \in DOMAIN items : items[n].block = id}
           recs == Coaching(canonical).blocks[id]
<1>1. PICK at : PickedAt(recs, items, places, at)
    BY CoachingByBlock
<1>2. \A m, n \in DOMAIN items :
          items[m].block = items[n].block /\ items[m].criterion = items[n].criterion => m = n
    OBVIOUS
<1>3. \A n \in places : items[n].block = id
    OBVIOUS
<1> HIDE DEF items, places, recs
<1>4. ASSUME NEW i \in DOMAIN recs, NEW j \in DOMAIN recs, recs[i].criterion = recs[j].criterion
      PROVE  i = j
    BY <1>1, <1>2, <1>3, <1>4 DEF PickedAt
<1>5. Unrepeated([i \in DOMAIN recs |-> recs[i].criterion])
    BY <1>4 DEF Unrepeated, IsInjective
<1> QED
    BY <1>5 DEF recs

-----------------------------------------------------------------------------
(* What the assembler finds *)

(* Lines with distinct numbers and no gap are numbered 0, 1, ...           *)
LEMMA NumberedFromZero ==
    ASSUME NEW t \in Seq(Lines), Gapless(t), TranscriptIsSound(t)
    PROVE  \A i \in DOMAIN t : t[i].number = i - 1
<1> DEFINE N == Len(t)
           P == {k \in 0..N : k # 0 => t[k].number = k - 1}
<1>1. N \in Nat /\ DOMAIN t = 1..N /\ \A i \in 1..N : t[i].number \in Nat
    BY LinesAreTyped
<1> HIDE DEF N
<1>2. \A i, j \in 1..N : t[i].number = t[j].number => i = j
    BY <1>1 DEF TranscriptIsSound, Unrepeated, IsInjective
<1>3. 0 \in P
    BY <1>1
<1>4. ASSUME NEW k \in Nat, k < N, k \in P PROVE k + 1 \in P
    <2>1. k + 1 \in 1..N /\ k + 1 \in 0..N /\ (k + 1) - 1 = k
        BY <1>4, <1>1
    <2>2. CASE k = 0
        <3>0. 1 \in DOMAIN t
            BY <2>1, <2>2, <1>1
        <3>1. t[1].number \in {0}
            BY <3>0 DEF Gapless
        <3> QED BY <3>1, <2>1, <2>2
    <2>3. CASE k # 0
        <3>1. k \in 1..N /\ k + 1 # 1 /\ t[k].number = k - 1 /\ k # k + 1
            BY <2>3, <1>4, <1>1
        <3>2. t[k+1].number \in {t[k].number, t[k].number + 1}
            BY <2>1, <3>1, <1>1 DEF Gapless
        <3>3. t[k+1].number # t[k].number
            BY <2>1, <3>1, <1>2
        <3>4. t[k+1].number = k
            BY <3>1, <3>2, <3>3
        <3> QED BY <2>1, <3>4
    <2> QED BY <2>2, <2>3
<1> HIDE DEF P
<1>5. \A k \in 0..N : k \in P
    BY <1>1, <1>3, <1>4, Climb
<1>6. \A k \in 1..N : k \in P /\ k # 0
    BY <1>1, <1>5
<1> QED
    BY <1>1, <1>6 DEF P

(* What was heard is still where it was heard.                             *)
LEMMA HeardIsFound ==
    ASSUME NEW t \in Seq(Lines), Gapless(t), TranscriptIsSound(t),
           NEW n \in 0..Len(t), NEW lines, lines = [i \in 1..n |-> t[i].speaker]
    PROVE  /\ DOMAIN lines = 1..n /\ Len(lines) = n
           /\ \A k \in Nat : k + 1 \in DOMAIN lines =>
                  /\ Exists(k, t)
                  /\ \E i \in DOMAIN t : t[i].number = k /\ t[i].speaker = lines[k+1]
<1>1. DOMAIN t = 1..Len(t) /\ Len(t) \in Nat /\ n \in Nat
    OBVIOUS
<1>2. \A i \in DOMAIN t : t[i].number = i - 1
    BY NumberedFromZero
<1>3. lines \in Seq({t[i].speaker : i \in 1..n}) /\ Len(lines) = n /\ DOMAIN lines = 1..n
    <2>1. lines \in [1..n -> {t[i].speaker : i \in 1..n}]
        OBVIOUS
    <2> QED BY <1>1, <2>1, FunctionIsSeq
<1>4. ASSUME NEW k \in Nat, k + 1 \in 1..n
      PROVE  k + 1 \in DOMAIN t /\ t[k+1].number = k /\ t[k+1].speaker = lines[k+1]
    <2>1. k + 1 \in DOMAIN t /\ (k + 1) - 1 = k
        BY <1>1, <1>4
    <2>2. t[k+1].number = k
        BY <2>1, <1>2
    <2> QED BY <2>1, <2>2, <1>4
<1> QED
    BY <1>3, <1>4 DEF Exists

\* What the pipeline stores as one unit.
LEMMA ArtifactFields ==
    ASSUME NEW o, NEW st
    PROVE  LET a == Artifacts(o, st) IN
           /\ a.kind = "rubric" /\ a.canonical = Canonical(o, st)
           /\ a.recommended = Recommendations(Canonical(o, st))
           /\ a.coaching = Coaching(Canonical(o, st)) /\ a.plan = Plan(Canonical(o, st))
           /\ a.tooShort <=> (Canonical(o, st).status = "not_applicable")
           /\ a.scored = TRUE
BY DEF Artifacts

\* Evidence quoted verbatim from what was heard is found in the transcript.
LEMMA EvidenceIsQuoted ==
    ASSUME NEW t \in Seq(Lines), Gapless(t), TranscriptIsSound(t),
           NEW n \in 0..Len(t), NEW lines, lines = [i \in 1..n |-> t[i].speaker],
           NEW c \in Categories, NEW b, CategoryIsGrounded(c, b, lines),
           \A e \in Range(c.evidence) : e.excerpt # "respaced"
    PROVE  /\ \A e \in Range(c.evidence) : Quotes(e, t)
           /\ \A k \in EvidenceNumbers(c) : Exists(k, t)
<1>1. c.evidence \in Seq(EvidenceItems)
    BY DEF Categories, EvidenceItems
<1>2. \A e \in Range(c.evidence) : e \in EvidenceItems
    BY <1>1, RangeIsTyped
<1>3. \A e \in Range(c.evidence) : e.seq \in Nat
    BY <1>2 DEF EvidenceItems
<1>4. ASSUME NEW e \in Range(c.evidence) PROVE Quotes(e, t) /\ Exists(e.seq, t)
    <2>1. EvidenceMatches(e, lines)
        BY DEF CategoryIsGrounded
    <2>2. e.seq + 1 \in DOMAIN lines /\ lines[e.seq + 1] = e.speaker /\ e.excerpt \in Passages
        BY <2>1 DEF EvidenceMatches
    <2>3. /\ Exists(e.seq, t)
          /\ \E i \in DOMAIN t : t[i].number = e.seq /\ t[i].speaker = lines[e.seq + 1]
        <3>1. \A k \in Nat : k + 1 \in DOMAIN lines =>
                  /\ Exists(k, t)
                  /\ \E i \in DOMAIN t : t[i].number = k /\ t[i].speaker = lines[k+1]
            BY HeardIsFound
        <3>2. e.seq \in Nat
            BY <1>3
        <3> QED BY <2>2, <3>1, <3>2
    <2> QED BY <2>2, <2>3 DEF Quotes
<1> QED
    BY <1>4 DEF EvidenceNumbers

\* The scored categories are the observation's.
LEMMA SeenCategories ==
    ASSUME NEW o \in ObservationsOf(Names), NEW st
    PROVE  LET scored == Canonical(o, st).categories IN
           [i \in DOMAIN scored |-> scored[i].seen] = o.categories
<1>1. /\ DOMAIN Canonical(o, st).categories = DOMAIN o.categories
      /\ \A i \in DOMAIN o.categories : Canonical(o, st).categories[i].seen = o.categories[i]
    BY SeenIsCategory
<1>2. o.categories \in Seq(Categories)
    BY DEF ObservationsOf
<1>3. o.categories = [i \in DOMAIN o.categories |-> o.categories[i]]
    BY <1>2
<1> QED BY <1>1, <1>3

\* The assembler finds nothing wrong with a tidy observation.
LEMMA TidyReferences ==
    ASSUME NEW t \in Seq(Lines), Gapless(t), TranscriptIsSound(t),
           NEW n \in 0..Len(t), NEW lines, lines = [i \in 1..n |-> t[i].speaker],
           NEW o \in ObservationsOf(Names), NEW st, IsStandard(st), Valid(o, st, lines),
           o.status = "evaluated",
           \A s \in Range(Canonical(o, st).categories) : Tidy(s.seen, s.passed)
    PROVE  Assembles(t, Artifacts(o, st))
<1> DEFINE a     == Artifacts(o, st)
           items == Recommendations(Canonical(o, st))
           cs    == o.categories
<1>1. /\ a.kind = "rubric" /\ a.canonical = Canonical(o, st)
      /\ a.recommended = items
      /\ a.coaching = Coaching(Canonical(o, st)) /\ a.plan = Plan(Canonical(o, st))
      /\ a.tooShort <=> (Canonical(o, st).status = "not_applicable")
      /\ Canonical(o, st).status = "evaluated" /\ Canonical(o, st).applied = o.applied
    <2>1. Canonical(o, st).status = "evaluated" /\ Canonical(o, st).applied = o.applied
        BY CanonicalFields
    <2>2. /\ a.kind = "rubric" /\ a.canonical = Canonical(o, st)
          /\ a.recommended = items
          /\ a.coaching = Coaching(Canonical(o, st)) /\ a.plan = Plan(Canonical(o, st))
          /\ a.tooShort <=> (Canonical(o, st).status = "not_applicable")
        BY ArtifactFields
    <2> HIDE DEF a, items
    <2> QED BY <2>1, <2>2
<1>2. [i \in DOMAIN Canonical(o, st).categories |-> Canonical(o, st).categories[i].seen] = cs
    BY SeenCategories
<1>3. /\ DOMAIN Canonical(o, st).categories = DOMAIN cs
      /\ \A i \in DOMAIN cs : Canonical(o, st).categories[i].seen = cs[i]
    BY SeenIsCategory
<1>4. ASSUME NEW i \in DOMAIN cs
      PROVE  /\ Tidy(cs[i], Canonical(o, st).categories[i].passed) /\ CoachedOnce(cs[i])
             /\ cs[i] \in Categories /\ CategoryIsGrounded(cs[i], Block(st, cs[i].block), lines)
             /\ Block(st, cs[i].block) \in st.blocks
             /\ (o.status = "evaluated") <=> (cs[i].raw # Unscored)
             /\ \A x \in Range(InputsOf(cs[i])) :
                   InputIsGrounded(x, cs[i], Block(st, cs[i].block))
    <2>1. Tidy(cs[i], Canonical(o, st).categories[i].passed)
        BY <1>3 DEF Range
    <2>2. CoachedOnce(cs[i])
        BY <2>1 DEF Tidy, CoachedOnce
    <2> QED BY <2>1, <2>2, CategoryOfValid
<1>5. ASSUME NEW i \in DOMAIN cs
      PROVE  /\ \A e \in Range(cs[i].evidence) : Quotes(e, t)
             /\ \A k \in EvidenceNumbers(cs[i]) : Exists(k, t)
    <2>1. \A e \in Range(cs[i].evidence) : e.excerpt # "respaced"
        BY <1>4 DEF Tidy
    <2>2. cs[i] \in Categories /\ CategoryIsGrounded(cs[i], Block(st, cs[i].block), lines)
        BY <1>4
    <2> HIDE DEF cs
    <2> QED BY <2>1, <2>2, EvidenceIsQuoted
<1>6. ASSUME NEW i \in DOMAIN cs PROVE CategoryIsSound(cs[i], t)
    <2>1. Unrepeated(cs[i].failed) /\ Unrepeated(cs[i].evidence)
        BY <1>4 DEF Tidy
    <2>2. \A f \in Range(cs[i].strengths) \cup Range(cs[i].violations) :
              Range(f.seqs) \subseteq EvidenceNumbers(cs[i])
        BY <1>4 DEF CategoryIsGrounded
    <2>3. \A x \in Range(cs[i].inputs) : x.seq \in EvidenceNumbers(cs[i])
        BY <1>4 DEF CategoryIsGrounded, InputIsGrounded
    <2> QED BY <1>5, <2>1, <2>2, <2>3 DEF CategoryIsSound
<1>7. items \in Seq(RecommendationItems)
    BY RecommendedPlaces
<1>8. ASSUME NEW m \in DOMAIN items
      PROVE  items[m].block \in {c.block : c \in Range(cs)} /\ QuoteIsSound(items[m], t)
    <2> DEFINE r == items[m]
    <2>1. PICK i \in DOMAIN cs :
              /\ r.block = cs[i].block /\ r.seq \in EvidenceNumbers(cs[i])
              /\ r.quotes = QuotesOf(cs[i], r.seq)
        BY RecommendedAreGrounded
    <2> HIDE DEF r
    <2>2. r.block \in {c.block : c \in Range(cs)}
        BY <2>1 DEF Range
    <2>3. Exists(r.seq, t)
        BY <1>5, <2>1
    <2>4. /\ r.quotes \in Seq(EvidenceItems)
          /\ \A k \in DOMAIN r.quotes : r.quotes[k] \in Range(cs[i].evidence)
        <3>1. cs[i] \in Categories
            BY <1>4
        <3> HIDE DEF cs
        <3> QED BY <2>1, <3>1, QuotesAreEvidence
    <2>5. r.quotes # <<>> => Quotes(Head(r.quotes), t)
        <3>1. r.quotes # <<>> => 1 \in DOMAIN r.quotes /\ Head(r.quotes) = r.quotes[1]
            BY <2>4
        <3> QED BY <3>1, <2>4, <1>5
    <2>6. QuoteIsSound(r, t)
        BY <2>3, <2>5 DEF QuoteIsSound
    <2> QED BY <2>2, <2>6 DEF r
<1>9. \A k, m \in DOMAIN items :
          items[k].block = items[m].block /\ items[k].criterion = items[m].criterion => k = m
    BY <1>4, RecommendedApart
<1>10. ReferencesAreSound(a, t)
    <2>1. Unrepeated([i \in DOMAIN cs |-> cs[i].block])
        BY DEF Valid, Unrepeated
    <2>2. Unrepeated(FlattenSeq([i \in DOMAIN cs |-> cs[i].inputs]))
        BY <1>4, InputsApart
    <2>3. Unrepeated(items)
        BY <1>9 DEF Unrepeated, IsInjective
    <2>4. ASSUME NEW technique \in Range(o.applied), NEW k \in Range(technique.seqs)
          PROVE  Exists(k, t)
        <3>1. k < Len(lines)
            BY <2>4 DEF Valid
        <3>2. k \in Nat
            <4>1. o.applied \in Seq([name : Names, seqs : Seq(Nat)])
                BY DEF ObservationsOf
            <4>2. technique.seqs \in Seq(Nat)
                <5> DEFINE T == [name : Names, seqs : Seq(Nat)]
                <5>1. o.applied \in Seq(T)
                    BY <4>1
                <5> HIDE DEF T
                <5>2. technique \in T
                    BY <5>1, RangeIsTyped
                <5> QED BY <5>2 DEF T
            <4> QED BY <4>2, RangeIsTyped
        <3>3. DOMAIN lines = 1..n /\ Len(lines) = n
            BY HeardIsFound
        <3>4. k + 1 \in DOMAIN lines
            BY <3>1, <3>2, <3>3
        <3> QED BY <3>2, <3>4, HeardIsFound
    <2> HIDE DEF a, items, cs
    <2>5. \A c \in Range(cs) : CategoryIsSound(c, t)
        BY <1>6 DEF Range
    <2>6. \A r \in Range(items) :
               r.block \in {c.block : c \in Range(cs)} /\ QuoteIsSound(r, t)
        BY <1>8 DEF Range
    <2> QED
        BY <1>1, <1>2, <2>1, <2>2, <2>3, <2>4, <2>5, <2>6 DEF ReferencesAreSound
<1>11. EvaluationIsSound(a, t)
    <2>1. \A s \in Range(Canonical(o, st).categories) : s.seen.raw # Unscored
        BY <1>3, <1>4 DEF Range
    <2> HIDE DEF a
    <2> QED BY <1>1, <1>10, <2>1 DEF EvaluationIsSound
<1>12. CoachingSectionIsSound(a, t)
    <2> SUFFICES ASSUME NEW id \in DOMAIN Coaching(Canonical(o, st)).blocks
                 PROVE  LET recs == Coaching(Canonical(o, st)).blocks[id]
                        IN  /\ Unrepeated([i \in DOMAIN recs |-> recs[i].criterion])
                            /\ \A r \in Range(recs) : r.block = id /\ QuoteIsSound(r, t)
        <3> HIDE DEF a
        <3> QED BY <1>1 DEF CoachingSectionIsSound
    <2> DEFINE recs == Coaching(Canonical(o, st)).blocks[id]
    <2>1. \A r \in Range(recs) : r.block = id /\ r \in Range(items)
        BY <1>7, CoachingByBlock
    <2>2. Unrepeated([i \in DOMAIN recs |-> recs[i].criterion])
        BY <1>7, <1>9, CoachedApart
    <2> HIDE DEF recs, items
    <2>3. \A r \in Range(items) : QuoteIsSound(r, t)
        BY <1>8 DEF Range
    <2> QED BY <2>1, <2>2, <2>3 DEF recs
<1>13. PlanSectionIsSound(a)
    <2>1. a.plan.items = PlanItems(Canonical(o, st))
        <3>1. Plan(Canonical(o, st)).items = PlanItems(Canonical(o, st))
            BY <1>1 DEF Plan
        <3> HIDE DEF a
        <3> QED BY <1>1, <3>1
    <2>2. ASSUME NEW item \in PlanItems(Canonical(o, st))
          PROVE  \E i \in DOMAIN cs :
                    /\ item.block = cs[i].block /\ item.criterion \in Range(cs[i].failed)
        <3>1. PICK s \in Range(Canonical(o, st).categories) :
                  LET targets == PlanTargets(s.seen) IN
                  \E k \in IF targets # {} THEN targets
                           ELSE IF s.passed THEN {} ELSE {NoCriterion} :
                     item = [block |-> s.seen.block, criterion |-> k]
            BY DEF PlanItems
        <3>2. PICK i \in DOMAIN cs : s = Canonical(o, st).categories[i]
            BY <1>3 DEF Range
        <3>3. s.seen = cs[i] /\ Tidy(cs[i], s.passed)
            BY <3>2, <1>3, <1>4
        <3> HIDE DEF cs
        <3>4. PlanTargets(s.seen) = Range(cs[i].failed)
            BY <3>3 DEF PlanTargets, Tidy
        <3>5. Range(cs[i].failed) = {} => s.passed
            <4>1. cs[i].failed \in Seq(Nat)
                BY <1>4, CitedAreNumbers
            <4>2. Range(cs[i].failed) = {} => cs[i].failed = <<>>
                <5>1. cs[i].failed # <<>> => 1 \in DOMAIN cs[i].failed
                    BY <4>1
                <5> QED BY <5>1 DEF Range
            <4> QED BY <3>3, <4>2 DEF Tidy
        <3> QED BY <3>1, <3>3, <3>4, <3>5
    <2>3. ASSUME NEW i \in DOMAIN cs, NEW k \in Range(cs[i].failed) PROVE k # NoCriterion
        <3>1. k \in Criteria(Block(st, cs[i].block))
            BY <1>4 DEF CategoryIsGrounded
        <3>2. NoCriterion \notin Criteria(Block(st, cs[i].block))
            BY <1>4, BlocksAreTyped
        <3> QED BY <3>1, <3>2
    <2>4. ASSUME NEW i \in DOMAIN cs
          PROVE  \E s \in Range(Canonical(o, st).categories) :
                    s.seen = cs[i]
        BY <1>3 DEF Range
    <2> HIDE DEF a, cs
    <2> QED BY <1>1, <2>1, <2>2, <2>3, <2>4 DEF PlanSectionIsSound
<1> QED
    <2> HIDE DEF a
    <2>1. Assembles(t, a)
        BY <1>1, <1>11, <1>12, <1>13 DEF Assembles, IsRubric, IsLegacy
    <2> QED BY <2>1 DEF a

(* What is stored of an evaluated observation is what a valid answer gives. *)
LEMMA StoredIsOfAnswer ==
    ASSUME PipelineIInv, IsRubric(artifacts)
    PROVE  /\ phase = "stored" /\ artifacts = Artifacts(answer, pinned)
           /\ pinned \in Standards /\ IsStandard(pinned)
           /\ artifacts.canonical = Canonical(answer, pinned)
           /\ artifacts.canonical.status = answer.status
           /\ \/ answer = NotApplicable(pinned) /\ answer.status = "not_applicable"
              \/ answer \in ObservationsOf(Names) /\ Valid(answer, pinned, heard)
           /\ \E n \in 0..Len(transcript) : heard = [i \in 1..n |-> transcript[i].speaker]
<1>1. phase = "stored" /\ artifacts = Artifacts(answer, pinned)
    BY DEF PipelineIInv, ArtifactsAreOfAnswer, IsRubric, NoArtifacts, LegacyArtifacts
<1>2. pinned # Unpinned /\ pinned \in Standards
    BY <1>1 DEF PipelineIInv, PinnedIsPublished
<1>3. IsStandard(pinned)
    BY <1>2, StandardsAssumption
<1>4. Artifacts(answer, pinned).canonical = Canonical(answer, pinned)
    BY ArtifactFields
<1>5. Canonical(answer, pinned).status = answer.status
    BY CanonicalFields
<1>6. \/ answer = NotApplicable(pinned) /\ answer.status = "not_applicable"
      \/ answer \in ObservationsOf(Names) /\ Valid(answer, pinned, heard)
    BY <1>1, StatusOfNotApplicable DEF PipelineIInv, AnswerIsGrounded
<1>7. \E n \in 0..Len(transcript) : heard = [i \in 1..n |-> transcript[i].speaker]
    BY <1>1, <1>2 DEF PipelineIInv, HeardIsAPrefix
<1> QED
    BY <1>1, <1>2, <1>3, <1>4, <1>5, <1>6, <1>7

\* Artifacts are missing, legacy or of a rubric.
LEMMA KindsOfArtifacts ==
    ASSUME PipelineIInv
    PROVE  \/ artifacts = NoArtifacts /\ artifacts.kind = "none"
           \/ /\ artifacts.kind = "legacy"
              /\ \E r \in LegacyAnswers, short \in BOOLEAN : artifacts = LegacyArtifacts(r, short)
           \/ artifacts.kind = "rubric" /\ IsRubric(artifacts)
<1>1. NoArtifacts.kind = "none" /\ \A r, short : LegacyArtifacts(r, short).kind = "legacy"
    BY DEF NoArtifacts, LegacyArtifacts
<1>2. Artifacts(answer, pinned).kind = "rubric"
    BY ArtifactFields
<1> QED
    BY <1>1, <1>2 DEF PipelineIInv, ArtifactsAreOfAnswer, IsRubric

\* The assembler reports whatever the pipeline stored from a tidy
\* observation, however many lines were stored since
\* (assemble_report_payload).
THEOREM Reportability == Spec => []TidyIsReportable
<1>1. PipelineIInv => TidyIsReportable
    <2> SUFFICES ASSUME PipelineIInv, TranscriptIsSound(transcript),
                        IsRubric(artifacts) =>
                            /\ artifacts.canonical.status = "evaluated"
                            /\ \A s \in Range(artifacts.canonical.categories) :
                                   Tidy(s.seen, s.passed),
                        IsLegacy(artifacts) => LegacyCoachingIsSound(artifacts, transcript)
                 PROVE  Assembles(transcript, artifacts)
        BY DEF TidyIsReportable
    <2>1. CASE ~IsRubric(artifacts)
        BY <2>1 DEF Assembles, EvaluationIsSound
    <2>2. CASE IsRubric(artifacts)
        <3>1. /\ artifacts = Artifacts(answer, pinned) /\ IsStandard(pinned)
              /\ artifacts.canonical = Canonical(answer, pinned)
              /\ answer.status = "evaluated"
              /\ answer \in ObservationsOf(Names) /\ Valid(answer, pinned, heard)
            BY <2>2, StoredIsOfAnswer
        <3>2. \A s \in Range(Canonical(answer, pinned).categories) : Tidy(s.seen, s.passed)
            BY <2>2, <3>1
        <3>3. PICK n \in 0..Len(transcript) : heard = [i \in 1..n |-> transcript[i].speaker]
            BY <2>2, StoredIsOfAnswer
        <3>4. transcript \in Seq(Lines) /\ Gapless(transcript)
            BY DEF PipelineIInv
        <3> QED BY <3>1, <3>2, <3>3, <3>4, TidyReferences
    <2> QED BY <2>1, <2>2
<1> QED
    BY <1>1, PipelineInvariance, PTL

-----------------------------------------------------------------------------
(* What a reader accepts *)

\* The section of each kind of artifacts (_build_evaluation_section).
LEMMA SectionFields ==
    ASSUME NEW a
    PROVE  LET section == EvaluationSection(a) IN
           /\ a.kind = "none" =>
                 /\ ~section.available /\ section.mode = "none"
                 /\ section.reason = "artifact_missing"
                 /\ ~section.canonical /\ ~section.legacy /\ ~section.scored
           /\ a.kind # "none" /\ a.tooShort =>
                 /\ section.available /\ section.mode = "too_short"
                 /\ section.reason = "session_too_short"
                 /\ ~section.canonical /\ ~section.legacy /\ ~section.scored
           /\ a.kind = "legacy" /\ ~a.tooShort =>
                 /\ section.available /\ section.mode = "legacy"
                 /\ section.reason = "legacy_only"
                 /\ ~section.canonical /\ section.legacy /\ ~section.scored
           /\ a.kind = "rubric" /\ ~a.tooShort /\ a.canonical.status # "not_applicable" =>
                 /\ section.available /\ section.mode = "canonical"
                 /\ section.reason \in {"no_evidence", "none"}
                 /\ section.canonical /\ ~section.legacy
BY DEF EvaluationSection

\* The four sections the artifacts of a session have.
LEMMA SectionCases ==
    ASSUME PipelineIInv
    PROVE  LET section == EvaluationSection(artifacts) IN
           \/ /\ artifacts.kind = "none"
              /\ ~section.available /\ section.mode = "none"
              /\ section.reason = "artifact_missing"
              /\ ~section.canonical /\ ~section.legacy /\ ~section.scored
           \/ /\ artifacts.kind \in {"legacy", "rubric"} /\ artifacts.tooShort
              /\ section.available /\ section.mode = "too_short"
              /\ section.reason = "session_too_short"
              /\ ~section.canonical /\ ~section.legacy /\ ~section.scored
           \/ /\ artifacts.kind = "legacy" /\ ~artifacts.tooShort
              /\ section.available /\ section.mode = "legacy"
              /\ section.reason = "legacy_only"
              /\ ~section.canonical /\ section.legacy /\ ~section.scored
           \/ /\ artifacts.kind = "rubric" /\ ~artifacts.tooShort
              /\ artifacts.canonical.status = "evaluated"
              /\ section.available /\ section.mode = "canonical"
              /\ section.reason \in {"no_evidence", "none"}
              /\ section.canonical /\ ~section.legacy
<1>1. CASE artifacts.kind = "none"
    BY <1>1, SectionFields
<1>2. CASE artifacts.kind = "legacy"
    <2>1. CASE artifacts.tooShort
        BY <1>2, <2>1, SectionFields
    <2>2. CASE ~artifacts.tooShort
        BY <1>2, <2>2, SectionFields
    <2> QED BY <2>1, <2>2
<1>3. CASE IsRubric(artifacts)
    <2>1. artifacts.kind = "rubric"
        BY <1>3 DEF IsRubric
    <2>2. artifacts = Artifacts(answer, pinned) /\ artifacts.canonical.status = answer.status
        BY <1>3, StoredIsOfAnswer
    <2>3. artifacts.tooShort <=> (artifacts.canonical.status = "not_applicable")
        BY <2>2, ArtifactFields
    <2>4. answer.status \in {"evaluated", "not_applicable"}
        BY <1>3, StoredIsOfAnswer DEF ObservationsOf
    <2>5. CASE artifacts.tooShort
        BY <2>1, <2>5, SectionFields
    <2>6. CASE ~artifacts.tooShort
        <3>1. artifacts.canonical.status = "evaluated"
            BY <2>2, <2>3, <2>4, <2>6
        <3> QED BY <2>1, <2>6, <3>1, SectionFields
    <2> QED BY <2>5, <2>6
<1> QED BY <1>1, <1>2, <1>3, KindsOfArtifacts

\* Distinct numbers without a gap are strictly increasing.
LEMMA TranscriptReadable ==
    ASSUME NEW t \in Seq(Lines), Gapless(t), TranscriptIsSound(t)
    PROVE  TranscriptSectionIsValid(t)
<1>1. \A i \in DOMAIN t : t[i].number = i - 1 /\ i \in Nat
    BY NumberedFromZero
<1>2. \A i, j \in DOMAIN t : i < j => t[i].number < t[j].number
    BY <1>1
<1>3. CASE t = <<>>
    BY <1>2, <1>3 DEF TranscriptSectionIsValid, ReasonIsValid, Reasons
<1>4. CASE t # <<>>
    BY <1>2, <1>4 DEF TranscriptSectionIsValid, ReasonIsValid, Reasons
<1> QED BY <1>3, <1>4

\* Every evaluation section is valid, and so is the envelope of its status.
LEMMA SectionReadable ==
    ASSUME PipelineIInv
    PROVE  /\ EvaluationSectionIsValid(EvaluationSection(artifacts))
           /\ \A lines \in Nat :
                 EnvelopeIsValid(ReportStatus(EvaluationSection(artifacts), lines),
                                 EvaluationSection(artifacts), lines)
<1> DEFINE section == EvaluationSection(artifacts)
<1>1. \/ /\ ~section.available /\ section.mode = "none"
         /\ section.reason = "artifact_missing"
         /\ ~section.canonical /\ ~section.legacy /\ ~section.scored
      \/ /\ section.available /\ section.mode = "too_short"
         /\ section.reason = "session_too_short"
         /\ ~section.canonical /\ ~section.legacy /\ ~section.scored
      \/ /\ section.available /\ section.mode = "legacy"
         /\ section.reason = "legacy_only"
         /\ ~section.canonical /\ section.legacy /\ ~section.scored
      \/ /\ section.available /\ section.mode = "canonical"
         /\ section.reason \in {"no_evidence", "none"}
         /\ section.canonical /\ ~section.legacy
    BY SectionCases
<1> HIDE DEF section
<1>2. EvaluationSectionIsValid(section)
    BY <1>1 DEF EvaluationSectionIsValid, ReasonIsValid, Reasons, TerminalModes
<1>3. \A lines \in Nat : EnvelopeIsValid(ReportStatus(section, lines), section, lines)
    BY <1>1 DEF EnvelopeIsValid, ReportStatus, TerminalModes
<1> QED
    BY <1>2, <1>3 DEF section

(* A recommendation is told by its block, criterion and line. *)
LEMMA RecommendedByKey ==
    ASSUME NEW o \in ObservationsOf(Names), NEW st, IsStandard(st), NEW lines,
           Valid(o, st, lines), o.status = "evaluated",
           NEW m \in DOMAIN Recommendations(Canonical(o, st)),
           NEW n \in DOMAIN Recommendations(Canonical(o, st)),
           Recommendations(Canonical(o, st))[m].block = Recommendations(Canonical(o, st))[n].block,
           Recommendations(Canonical(o, st))[m].criterion
               = Recommendations(Canonical(o, st))[n].criterion,
           Recommendations(Canonical(o, st))[m].seq = Recommendations(Canonical(o, st))[n].seq
    PROVE  Recommendations(Canonical(o, st))[m] = Recommendations(Canonical(o, st))[n]
<1> DEFINE r == Recommendations(Canonical(o, st))[m]
           s == Recommendations(Canonical(o, st))[n]
           cs == o.categories
<1>1. PICK i \in DOMAIN cs :
          /\ r.block = cs[i].block
          /\ r = [block |-> cs[i].block, criterion |-> r.criterion, seq |-> r.seq,
                  quotes |-> QuotesOf(cs[i], r.seq)]
    BY RecommendedAreGrounded
<1>2. PICK j \in DOMAIN cs :
          /\ s.block = cs[j].block
          /\ s = [block |-> cs[j].block, criterion |-> s.criterion, seq |-> s.seq,
                  quotes |-> QuotesOf(cs[j], s.seq)]
    BY RecommendedAreGrounded
<1>3. r.block = s.block /\ r.criterion = s.criterion /\ r.seq = s.seq
    OBVIOUS
<1>4. i = j
    <2>1. cs[i].block = cs[j].block
        BY <1>1, <1>2, <1>3
    <2> QED BY <2>1, CategoriesAreApart
<1> HIDE DEF r, s, cs
<1>5. r = s
    BY <1>1, <1>2, <1>3, <1>4
<1> QED
    BY <1>5 DEF r, s

(* The payload's schema accepts the references the assembler accepted. *)
LEMMA ReferencesReadable ==
    ASSUME NEW o \in ObservationsOf(Names), NEW st, IsStandard(st), NEW lines,
           Valid(o, st, lines), o.status = "evaluated",
           NEW t, ReferencesAreSound(Artifacts(o, st), t)
    PROVE  PayloadReferencesAreValid(Artifacts(o, st), t)
<1> DEFINE a  == Artifacts(o, st)
           cs == o.categories
           numbers == {t[i].number : i \in DOMAIN t}
           items == Recommendations(Canonical(o, st))
<1>1. a.canonical = Canonical(o, st) /\ a.recommended = items
    BY ArtifactFields
<1>2. [i \in DOMAIN Canonical(o, st).categories |-> Canonical(o, st).categories[i].seen] = cs
    BY SeenCategories
<1>k. ASSUME NEW m \in DOMAIN items, NEW n \in DOMAIN items,
             items[m].block = items[n].block, items[m].criterion = items[n].criterion,
             items[m].seq = items[n].seq
      PROVE  items[m] = items[n]
    BY <1>k, RecommendedByKey
<1>a. ReferencesAreSound(a, t)
    OBVIOUS
<1> HIDE DEF a, cs, items
<1>3. /\ Unrepeated([i \in DOMAIN cs |-> cs[i].block])
      /\ \A c \in Range(cs) : CategoryIsSound(c, t)
      /\ Unrepeated(items)
    BY <1>1, <1>2, <1>a DEF ReferencesAreSound
<1>4. \A k : Exists(k, t) => k \in numbers
    BY DEF Exists
<1>5. ASSUME NEW c \in Range(cs)
      PROVE  /\ Unrepeated(c.failed) /\ Unrepeated(c.evidence)
             /\ EvidenceNumbers(c) \subseteq numbers
             /\ \A f \in Range(c.strengths) \cup Range(c.violations) :
                    Range(f.seqs) \subseteq numbers
             /\ {i.seq : i \in Range(c.inputs)} \subseteq numbers
    <2>1. CategoryIsSound(c, t)
        BY <1>3
    <2>2. \A e \in Range(c.evidence) : e.seq \in numbers
        BY <2>1 DEF CategoryIsSound, Quotes
    <2> HIDE DEF numbers
    <2>3. \A f \in Range(c.strengths) \cup Range(c.violations) : Range(f.seqs) \subseteq numbers
        BY <1>4, <2>1 DEF CategoryIsSound
    <2>4. \A i \in Range(c.inputs) : i.seq \in numbers
        BY <1>4, <2>1 DEF CategoryIsSound
    <2> QED BY <2>1, <2>2, <2>3, <2>4 DEF CategoryIsSound, EvidenceNumbers
<1>6. Unrepeated([i \in DOMAIN items |->
                     <<items[i].block, items[i].criterion, items[i].seq>>])
    <2>1. ASSUME NEW m \in DOMAIN items, NEW n \in DOMAIN items,
                 <<items[m].block, items[m].criterion, items[m].seq>>
                    = <<items[n].block, items[n].criterion, items[n].seq>>
          PROVE  m = n
        <3>1. items[m].block = items[n].block /\ items[m].criterion = items[n].criterion
              /\ items[m].seq = items[n].seq
            BY <2>1
        <3>2. items[m] = items[n]
            BY <3>1, <1>k
        <3> QED BY <3>2, <1>3 DEF Unrepeated, IsInjective
    <2> QED BY <2>1 DEF Unrepeated, IsInjective
<1>7. PayloadReferencesAreValid(a, t)
    BY <1>1, <1>2, <1>3, <1>5, <1>6 DEF PayloadReferencesAreValid
<1> QED
    BY <1>7 DEF a

\* Coaching that the assembler accepts has unique criteria and evidence.
LEMMA CoachingReadable ==
    ASSUME NEW a, NEW t, CoachingSectionIsSound(a, t)
    PROVE  CoachingSectionIsValid(a)
<1> SUFFICES ASSUME NEW id \in DOMAIN a.coaching.blocks
             PROVE  LET recs == a.coaching.blocks[id] IN
                    /\ \A r \in Range(recs) : r.block = id
                    /\ Unrepeated([i \in DOMAIN recs |-> recs[i].criterion])
                    /\ Unrepeated([i \in DOMAIN recs |-> <<recs[i].criterion, recs[i].seq>>])
    BY DEF CoachingSectionIsValid
<1> DEFINE recs == a.coaching.blocks[id]
<1>1. /\ Unrepeated([i \in DOMAIN recs |-> recs[i].criterion])
      /\ \A r \in Range(recs) : r.block = id
    BY DEF CoachingSectionIsSound
<1> HIDE DEF recs
<1>2. Unrepeated([i \in DOMAIN recs |-> <<recs[i].criterion, recs[i].seq>>])
    BY <1>1 DEF Unrepeated, IsInjective
<1> QED BY <1>1, <1>2 DEF recs

\* What the assembler accepts is a valid payload, and the status endpoint's
\* envelope can carry it (assemble_report_payload, SessionReportPayload,
\* get_report_status).
THEOREM Readability == Spec => []AcceptedIsReadable
<1>1. PipelineIInv => AcceptedIsReadable
    <2> SUFFICES ASSUME PipelineIInv, Assembles(transcript, artifacts)
                 PROVE  /\ PayloadIsValid(transcript, artifacts)
                        /\ EnvelopeIsValid(
                               ReportStatus(EvaluationSection(artifacts), Len(transcript)),
                               EvaluationSection(artifacts), Len(transcript))
        BY DEF AcceptedIsReadable
    <2>1. transcript \in Seq(Lines) /\ Gapless(transcript) /\ Len(transcript) \in Nat
        BY DEF PipelineIInv
    <2>2. TranscriptSectionIsValid(transcript)
        BY <2>1, TranscriptReadable DEF Assembles
    <2>3. /\ EvaluationSectionIsValid(EvaluationSection(artifacts))
          /\ EnvelopeIsValid(ReportStatus(EvaluationSection(artifacts), Len(transcript)),
                             EvaluationSection(artifacts), Len(transcript))
        BY <2>1, SectionReadable
    <2>4. IsRubric(artifacts) => CoachingSectionIsValid(artifacts) /\ PlanSectionIsValid(artifacts)
        <3>1. IsRubric(artifacts) => CoachingSectionIsSound(artifacts, transcript)
                                        /\ PlanSectionIsSound(artifacts)
            BY DEF Assembles
        <3> QED BY <3>1, CoachingReadable DEF PlanSectionIsSound, PlanSectionIsValid
    <2>5. ASSUME EvaluationSection(artifacts).canonical
          PROVE  PayloadReferencesAreValid(artifacts, transcript)
        <3>1. artifacts.kind = "rubric" /\ ~artifacts.tooShort
              /\ artifacts.canonical.status = "evaluated"
            BY <2>5, SectionCases
        <3>2. ReferencesAreSound(artifacts, transcript)
            BY <3>1 DEF Assembles, EvaluationIsSound, IsRubric
        <3>3. /\ artifacts = Artifacts(answer, pinned) /\ IsStandard(pinned)
              /\ answer.status = "evaluated"
              /\ answer \in ObservationsOf(Names) /\ Valid(answer, pinned, heard)
            BY <3>1, StoredIsOfAnswer DEF IsRubric
        <3> QED BY <3>2, <3>3, ReferencesReadable
    <2> QED BY <2>2, <2>3, <2>4, <2>5 DEF PayloadIsValid
<1> QED
    BY <1>1, PipelineInvariance, PTL

-----------------------------------------------------------------------------
(* The views *)

(* A complete aggregate has every section and a score.                     *)
LEMMA CompleteHasAll ==
    ASSUME NEW t, NEW a, NEW failing \in SUBSET Loaded,
           AggregateReport(t, a, failing).completion = "complete"
    PROVE  /\ failing = {} /\ t # <<>>
           /\ AggregateReport(t, a, failing).score = "evaluated"
           /\ AggregateReport(t, a, failing).data[1].scored
<1> DEFINE data   == EvaluationData(t, a, failing)
           states == {"loaded", SummaryState(data)}
                         \cup {LoadSection(name, t, a, failing) : name \in Loaded}
<1>1. /\ AggregateReport(t, a, failing).completion = Completion(states, data)
      /\ AggregateReport(t, a, failing).score = ScoreStatus(data)
      /\ AggregateReport(t, a, failing).data = data
    BY DEF AggregateReport
<1>2. "loaded" \in states /\ SummaryState(data) \in states
      /\ \A name \in Loaded : LoadSection(name, t, a, failing) \in states
    OBVIOUS
<1> HIDE DEF states
<1>3. Completion(states, data) = "complete"
    BY <1>1
<1>4. /\ ScoreStatus(data) # "not_applicable"
      /\ "failed" \notin states /\ "empty" \notin states
    BY <1>2, <1>3 DEF Completion
<1>5. \A name \in Loaded : name \notin failing /\ HasData(name, t, a)
    <2> SUFFICES ASSUME NEW name \in Loaded PROVE name \notin failing /\ HasData(name, t, a)
        OBVIOUS
    <2>1. /\ LoadSection(name, t, a, failing) # "failed"
          /\ LoadSection(name, t, a, failing) # "empty"
        BY <1>2, <1>4
    <2> QED BY <2>1 DEF LoadSection
<1>6. failing = {} /\ t # <<>>
    <2>1. "transcript" \in Loaded
        BY DEF Loaded
    <2> QED BY <1>5, <2>1 DEF HasData
<1>7. data # <<>>
    BY <1>2, <1>4 DEF SummaryState
<1>8. ScoreStatus(data) = "evaluated" /\ ~data[1].short
    <2> HIDE DEF data
    <2> QED BY <1>4, <1>7 DEF ScoreStatus
<1>9. data[1].scored <=> ~data[1].short
    BY <1>7 DEF EvaluationData
<1> QED
    BY <1>1, <1>6, <1>8, <1>9

(* What the aggregate of all sections says of the evaluation.              *)
LEMMA WholeEvaluation ==
    ASSUME NEW t, NEW a
    PROVE  LET data == EvaluationData(t, a, {}) IN
           /\ AggregateReport(t, a, {}).score = ScoreStatus(data)
           /\ AggregateReport(t, a, {}).kind = EvaluationKind(data)
           /\ a.kind = "none" => data = <<>>
           /\ a.kind # "none" =>
                 /\ data # <<>>
                 /\ data[1].short <=>
                        a.tooShort \/ (IsRubric(a) /\ a.canonical.status = "not_applicable")
                 /\ data[1].rubric = IF IsRubric(a) THEN a.canonical.status ELSE "none"
<1>1. LoadSection("evaluation", t, a, {}) = IF a.kind # "none" THEN "loaded" ELSE "empty"
    BY DEF LoadSection, HasData
<1>2. /\ AggregateReport(t, a, {}).score = ScoreStatus(EvaluationData(t, a, {}))
      /\ AggregateReport(t, a, {}).kind = EvaluationKind(EvaluationData(t, a, {}))
    BY DEF AggregateReport
<1>3. a.kind = "none" => EvaluationData(t, a, {}) = <<>>
    BY <1>1 DEF EvaluationData
<1>4. ASSUME a.kind # "none"
      PROVE  LET data == EvaluationData(t, a, {}) IN
             /\ data # <<>>
             /\ data[1].short <=>
                    a.tooShort \/ (IsRubric(a) /\ a.canonical.status = "not_applicable")
             /\ data[1].rubric = IF IsRubric(a) THEN a.canonical.status ELSE "none"
    <2> DEFINE d == EvaluationData(t, a, {})
               short == a.tooShort \/ (IsRubric(a) /\ a.canonical.status = "not_applicable")
               full == <<[short |-> short, scored |-> ~short,
                          rubric |-> IF IsRubric(a) THEN a.canonical.status ELSE "none"]>>
    <2>a. d = IF LoadSection("evaluation", t, a, {}) # "loaded" THEN <<>> ELSE full
        BY DEF EvaluationData
    <2>b. LoadSection("evaluation", t, a, {}) = "loaded"
        BY <1>1, <1>4
    <2> HIDE DEF d
    <2>1. d = full
        <3> HIDE DEF full
        <3> QED BY <2>a, <2>b
    <2>2. d # <<>>
        BY <2>1
    <2>3. d[1].rubric = IF IsRubric(a) THEN a.canonical.status ELSE "none"
        BY <2>1
    <2>4. d[1].short <=> short
        <3> HIDE DEF short
        <3> QED BY <2>1
    <2> QED BY <2>2, <2>3, <2>4 DEF d
<1> QED
    BY <1>2, <1>3, <1>4

\* With lines, artifacts and a score the aggregate is complete.
LEMMA WholeIsComplete ==
    ASSUME NEW t, NEW a, t # <<>>, a.kind # "none",
           AggregateReport(t, a, {}).score # "not_applicable"
    PROVE  AggregateReport(t, a, {}).completion = "complete"
<1> DEFINE data   == EvaluationData(t, a, {})
           states == {"loaded", SummaryState(data)}
                         \cup {LoadSection(name, t, a, {}) : name \in Loaded}
<1>1. /\ AggregateReport(t, a, {}).completion = Completion(states, data)
      /\ AggregateReport(t, a, {}).score = ScoreStatus(data)
    BY DEF AggregateReport
<1>2. \A name \in Loaded : LoadSection(name, t, a, {}) = "loaded"
    BY DEF LoadSection, HasData
<1>3. data # <<>>
    BY WholeEvaluation
<1>4. SummaryState(data) = "loaded"
    BY <1>3 DEF SummaryState
<1> HIDE DEF data
<1>5. states = {"loaded"}
    BY <1>2, <1>4
<1> HIDE DEF states
<1>6. Completion(states, data) = "complete"
    BY <1>1, <1>5 DEF Completion
<1> QED BY <1>1, <1>6

(* The aggregate shows no score exactly when the snapshot's section is     *)
(* terminal, and is of the current kind exactly when a rubric was used.    *)
LEMMA WholeAgreesWithSection ==
    ASSUME PipelineIInv
    PROVE  LET whole == AggregateReport(transcript, artifacts, {}) IN
           /\ (whole.score = "not_applicable")
                  <=> (EvaluationSection(artifacts).mode \in TerminalModes)
           /\ (whole.kind = "current") <=> IsRubric(artifacts)
<1> DEFINE whole == AggregateReport(transcript, artifacts, {})
           data  == EvaluationData(transcript, artifacts, {})
           mode  == EvaluationSection(artifacts).mode
           short == artifacts.tooShort
                        \/ (IsRubric(artifacts) /\ artifacts.canonical.status = "not_applicable")
<1>1. whole.score = ScoreStatus(data) /\ whole.kind = EvaluationKind(data)
    BY WholeEvaluation
<1>2. artifacts.kind = "none" => data = <<>>
    BY WholeEvaluation
<1>3. ASSUME artifacts.kind # "none"
      PROVE  /\ data # <<>>
             /\ data[1].short <=> short
             /\ data[1].rubric = IF IsRubric(artifacts) THEN artifacts.canonical.status
                                 ELSE "none"
    BY <1>3, WholeEvaluation
<1> HIDE DEF data, whole
<1>4. CASE artifacts.kind = "none"
    <2>1. mode = "none" /\ ~IsRubric(artifacts)
        BY <1>4, SectionFields DEF IsRubric
    <2>2. ScoreStatus(data) = "unavailable" /\ EvaluationKind(data) = "legacy"
        BY <1>2, <1>4 DEF ScoreStatus, EvaluationKind
    <2> QED BY <1>1, <2>1, <2>2 DEF TerminalModes, whole, data
<1>5. CASE artifacts.kind = "legacy"
    <2>1. /\ ~IsRubric(artifacts) /\ artifacts.kind # "none"
          /\ artifacts.tooShort => mode = "too_short"
          /\ ~artifacts.tooShort => mode = "legacy"
        BY <1>5, SectionFields DEF IsRubric
    <2>2. data # <<>> /\ (data[1].short <=> artifacts.tooShort) /\ data[1].rubric = "none"
        BY <1>3, <2>1
    <2>3. /\ (ScoreStatus(data) = "not_applicable") <=> artifacts.tooShort
          /\ EvaluationKind(data) = "legacy"
        BY <2>2 DEF ScoreStatus, EvaluationKind
    <2> QED BY <1>1, <2>1, <2>3 DEF TerminalModes, whole, data
<1>6. CASE IsRubric(artifacts)
    <2>1. artifacts.kind = "rubric" /\ artifacts.kind # "none"
        BY <1>6 DEF IsRubric
    <2>2. artifacts = Artifacts(answer, pinned) /\ artifacts.canonical.status = answer.status
        BY <1>6, StoredIsOfAnswer
    <2>3. answer.status \in {"evaluated", "not_applicable"}
        BY <1>6, StoredIsOfAnswer DEF ObservationsOf
    <2>4. artifacts.tooShort <=> (artifacts.canonical.status = "not_applicable")
        BY <2>2, ArtifactFields
    <2>5. /\ data # <<>> /\ (data[1].short <=> artifacts.tooShort)
          /\ data[1].rubric = artifacts.canonical.status
        BY <1>3, <1>6, <2>1, <2>4
    <2>6. /\ (ScoreStatus(data) = "not_applicable") <=> artifacts.tooShort
          /\ EvaluationKind(data) = "current"
        BY <2>2, <2>3, <2>4, <2>5 DEF ScoreStatus, EvaluationKind
    <2>7. (mode \in TerminalModes) <=> artifacts.tooShort
        <3>1. artifacts.tooShort => mode = "too_short"
            BY <2>1, SectionFields
        <3>2. ~artifacts.tooShort => mode = "canonical"
            BY <2>1, SectionCases
        <3> QED BY <3>1, <3>2 DEF TerminalModes
    <2> QED BY <1>1, <1>6, <2>6, <2>7 DEF whole, data
<1> QED
    BY <1>4, <1>5, <1>6, KindsOfArtifacts DEF whole

(* A snapshot that is ready has lines and a section that is no terminal    *)
(* one, so that the aggregate is complete.                                 *)
LEMMA ReadyIsComplete ==
    ASSUME PipelineIInv, artifacts.kind # "none",
           ReportStatus(EvaluationSection(artifacts), Len(transcript)) = "ready"
    PROVE  AggregateReport(transcript, artifacts, {}).completion = "complete"
<1>1. /\ EvaluationSection(artifacts).mode \notin TerminalModes
      /\ Len(transcript) # 0
    BY DEF ReportStatus, TerminalModes
<1>2. transcript # <<>>
    BY <1>1
<1>3. AggregateReport(transcript, artifacts, {}).score # "not_applicable"
    BY <1>1, WholeAgreesWithSection
<1> QED BY <1>2, <1>3, WholeIsComplete

\* At least one finding is shown and at most five.
LEMMA FindingsAreOneToFive ==
    ASSUME NEW n \in Int
    PROVE  OneToFive(n) \in 1..5
<1> DEFINE few == Min({5, n})
<1>1. few = IF 5 <= n THEN 5 ELSE n
    BY LessOfTwo
<1> HIDE DEF few
<1>2. few \in Int /\ few <= 5
    BY <1>1
<1>3. Max({1, few}) = IF 1 <= few THEN few ELSE 1
    BY <1>2, LessOfTwo
<1>4. OneToFive(n) = Max({1, few})
    BY DEF OneToFive, few
<1> QED BY <1>2, <1>3, <1>4

\* So many findings are shown of any categories.
LEMMA CompatibleIsOneToFive ==
    ASSUME NEW T, NEW n \in Nat, NEW found \in [1..n -> Seq(T)]
    PROVE  Compatible(found) \in 1..5
<1> DEFINE lengths == [i \in DOMAIN found |-> Len(found[i])]
<1>1. lengths \in [1..n -> Int]
    BY SeqFacts
<1> HIDE DEF lengths
<1>2. SumOf(lengths) \in Int
    BY <1>1, FunctionIsSeq, SumIsInteger
<1>3. Compatible(found) = OneToFive(SumOf(lengths))
    BY DEF Compatible, lengths
<1> QED BY <1>2, <1>3, FindingsAreOneToFive

(* Nothing is flattened to nothing.                                        *)
LEMMA NothingIsFlattened ==
    ASSUME NEW ss, DOMAIN ss = {}, ss \in Seq(Seq({}))
    PROVE  FlattenSeq(ss) = <<>>
<1>1. /\ FlattenSeq(ss) \in Seq({})
      /\ \E at : FlattenedAt(FlattenSeq(ss), ss, at)
    BY FlattenPlaces
<1> QED BY <1>1

\* Two counts are the same record when their fields are.
LEMMA SameCount ==
    ASSUME NEW m, NEW n, NEW p \in BOOLEAN, NEW q \in BOOLEAN, m = n, p <=> q
    PROVE  [total |-> m, none |-> p] = [total |-> n, none |-> q]
OBVIOUS

(* The endpoint shows the stored rows: without any, there are no blocks.   *)
LEMMA CoachingIsCountedAlike ==
    ASSUME NEW o, NEW st
    PROVE  CoachingShown(Artifacts(o, st)) = CoachingStored(Artifacts(o, st))
<1> DEFINE a     == Artifacts(o, st)
           items == Recommendations(Canonical(o, st))
<1>1. IsRubric(a) /\ a.recommended = items /\ a.coaching = Coaching(Canonical(o, st))
    BY ArtifactFields DEF IsRubric
<1>2. /\ Coaching(Canonical(o, st)).total = Len(items)
      /\ Coaching(Canonical(o, st)).none \in BOOLEAN
      /\ Coaching(Canonical(o, st)).none <=> items = <<>>
      /\ DOMAIN Coaching(Canonical(o, st)).blocks = {r.block : r \in Range(items)}
    BY DEF Coaching
<1> HIDE DEF a, items
<1>3. ShownRecommendations(a) = items
    <2>1. CASE items # <<>>
        BY <1>1, <2>1 DEF ShownRecommendations
    <2>2. CASE items = <<>>
        <3> DEFINE blocks == a.coaching.blocks
                   shown  == [i \in 1..Cardinality(DOMAIN blocks) |->
                                 blocks[Sorted(DOMAIN blocks)[i]]]
        <3>1. DOMAIN blocks = {}
            BY <1>1, <1>2, <2>2 DEF Range
        <3>2. Cardinality(DOMAIN blocks) = 0
            BY <3>1, FS_EmptySet
        <3>3. ShownRecommendations(a) = FlattenSeq(shown)
            BY <1>1, <2>2 DEF ShownRecommendations
        <3> HIDE DEF blocks
        <3>4. DOMAIN shown = {} /\ shown = <<>>
            BY <3>2
        <3> HIDE DEF shown
        <3>5. shown \in Seq(Seq({}))
            BY <3>4
        <3> QED BY <2>2, <3>3, <3>4, <3>5, NothingIsFlattened
    <2> QED BY <2>1, <2>2
<1>4. /\ CoachingShown(a) = [total |-> Len(items), none |-> items = <<>>]
      /\ CoachingStored(a) = [total |-> a.coaching.total, none |-> a.coaching.none]
    BY <1>1, <1>3 DEF CoachingShown, CoachingStored
<1>5. a.coaching.total = Len(items) /\ a.coaching.none \in BOOLEAN
    BY <1>1, <1>2
<1>6. (items = <<>>) <=> a.coaching.none
    BY <1>1, <1>2
<1>7. (items = <<>>) \in BOOLEAN
    OBVIOUS
<1> DEFINE empty == items = <<>>
<1>8. [total |-> Len(items), none |-> empty] = [total |-> a.coaching.total, none |-> a.coaching.none]
    <2>1. empty \in BOOLEAN /\ (empty <=> a.coaching.none)
        BY <1>6, <1>7
    <2> HIDE DEF empty
    <2> QED BY <1>5, <2>1, SameCount
<1> QED BY <1>4, <1>8 DEF a, empty

(* Whoever was evaluated by a rubric has a category.                       *)
LEMMA SomethingIsSeen ==
    ASSUME PipelineIInv, IsRubric(artifacts)
    PROVE  LET cats == artifacts.canonical.categories IN
           \E n \in Nat \ {0} :
              /\ DOMAIN cats = 1..n
              /\ \A i \in 1..n : cats[i].seen.strengths \in Findings
                                    /\ cats[i].seen.violations \in Findings
<1>1. /\ artifacts.canonical = Canonical(answer, pinned)
      /\ pinned \in Standards /\ IsStandard(pinned)
      /\ \/ answer = NotApplicable(pinned)
         \/ answer \in ObservationsOf(Names) /\ Valid(answer, pinned, heard)
    BY StoredIsOfAnswer
<1>2. /\ DOMAIN artifacts.canonical.categories = DOMAIN answer.categories
      /\ \A i \in DOMAIN answer.categories :
             artifacts.canonical.categories[i].seen = answer.categories[i]
    BY <1>1, SeenIsCategory
<1>3. CASE answer = NotApplicable(pinned)
    <2> DEFINE n == Cardinality(pinned.blocks)
    <2>1. n \in Nat \ {0}
        BY <1>1, FS_CardinalityType, FS_EmptySet DEF IsStandard
    <2>2. /\ DOMAIN answer.categories = 1..n
          /\ \A i \in 1..n : answer.categories[i].strengths = <<>>
                                /\ answer.categories[i].violations = <<>>
        BY <1>3 DEF NotApplicable
    <2>3. <<>> \in Findings
        BY DEF Findings
    <2> HIDE DEF n
    <2> QED BY <1>2, <2>1, <2>2, <2>3
<1>4. CASE answer \in ObservationsOf(Names) /\ Valid(answer, pinned, heard)
    <2> DEFINE n == Len(answer.categories)
    <2>1. answer.categories \in Seq(Categories) /\ answer.categories # <<>>
        BY <1>4 DEF ObservationsOf, Valid, WellFormed
    <2>2. n \in Nat \ {0} /\ DOMAIN answer.categories = 1..n
          /\ \A i \in 1..n : answer.categories[i] \in Categories
        BY <2>1
    <2>3. \A i \in 1..n : answer.categories[i].strengths \in Findings
                             /\ answer.categories[i].violations \in Findings
        BY <2>2 DEF Categories
    <2> HIDE DEF n
    <2> QED BY <1>2, <2>2, <2>3
<1> QED BY <1>1, <1>3, <1>4

(* What the evaluation endpoint has to show.                               *)
LEMMA EvaluationIsShown ==
    ASSUME PipelineIInv, artifacts.kind # "none"
    PROVE  LET shown == EvaluationShown(artifacts) IN
           /\ shown.found /\ shown.strengths \in 1..5 /\ shown.weaknesses \in 1..5
           /\ shown.canonical => shown.competencies = {}
<1> DEFINE shown == EvaluationShown(artifacts)
           cats  == artifacts.canonical.categories
<1>1. CASE IsRubric(artifacts)
    <2>1. PICK n \in Nat \ {0} :
              /\ DOMAIN cats = 1..n
              /\ \A i \in 1..n : cats[i].seen.strengths \in Findings
                                    /\ cats[i].seen.violations \in Findings
        BY <1>1, SomethingIsSeen
    <2> DEFINE strengths  == [i \in DOMAIN cats |-> cats[i].seen.strengths]
               violations == [i \in DOMAIN cats |-> cats[i].seen.violations]
    <2>2. cats # <<>>
        BY <2>1
    <2>3. ~IsLegacy(artifacts)
        BY <1>1 DEF IsRubric, IsLegacy
    <2>4. /\ shown.found /\ shown.competencies = {}
          /\ shown.strengths = Compatible(strengths)
          /\ shown.weaknesses = Compatible(violations)
        BY <1>1, <2>2, <2>3, artifacts.kind # "none" DEF EvaluationShown
    <2>5. /\ strengths \in [1..n -> Seq([criterion : Nat, seqs : Seq(Nat)])]
          /\ violations \in [1..n -> Seq([criterion : Nat, seqs : Seq(Nat)])]
        BY <2>1 DEF Findings
    <2> HIDE DEF strengths, violations, shown
    <2>6. Compatible(strengths) \in 1..5 /\ Compatible(violations) \in 1..5
        BY <2>5, CompatibleIsOneToFive
    <2> QED BY <2>4, <2>6 DEF shown
<1>2. CASE artifacts.kind = "legacy"
    <2>1. PICK r \in LegacyAnswers, short \in BOOLEAN : artifacts = LegacyArtifacts(r, short)
        BY <1>2, KindsOfArtifacts DEF NoArtifacts, IsRubric
    <2>2. r.strengths \in Int /\ r.weaknesses \in Int
        BY AnswersAssumption
    <2> DEFINE e == artifacts.evaluation
    <2>3. e = IF short THEN LegacyTooShort ELSE LegacyEvaluation(r)
        BY <2>1 DEF LegacyArtifacts
    <2> HIDE DEF e
    <2>4. e.strengths \in 1..5 /\ e.weaknesses \in 1..5
        <3>1. CASE short
            BY <2>3, <3>1 DEF LegacyTooShort
        <3>2. CASE ~short
            <4>1. /\ e.strengths = OneToFive(r.strengths)
                  /\ e.weaknesses = OneToFive(r.weaknesses)
                BY <2>3, <3>2 DEF LegacyEvaluation
            <4> QED BY <2>2, <4>1, FindingsAreOneToFive
        <3> QED BY <3>1, <3>2
    <2>5. ~IsRubric(artifacts)
        BY <1>2 DEF IsRubric
    <2>6. /\ shown.found /\ ~shown.canonical
          /\ shown.strengths = e.strengths /\ shown.weaknesses = e.weaknesses
        BY <2>5, artifacts.kind # "none" DEF EvaluationShown, e
    <2> QED BY <2>4, <2>6
<1> QED BY <1>1, <1>2, KindsOfArtifacts

(* The views of the same artifacts agree in every reachable state.         *)
THEOREM ViewsAgreement == Spec => []ViewsAgree
<1>1. PipelineIInv => ViewsAgree
    <2> SUFFICES ASSUME PipelineIInv PROVE ViewsAgree
        OBVIOUS
    <2> DEFINE whole   == AggregateReport(transcript, artifacts, {})
               section == EvaluationSection(artifacts)
               shown   == EvaluationShown(artifacts)
               partial(failing) == AggregateReport(transcript, artifacts, failing)
    <2>1. \A failing \in SUBSET Loaded :
              partial(failing).completion = "complete" =>
                  /\ failing = {} /\ transcript # <<>>
                  /\ partial(failing).score = "evaluated"
                  /\ partial(failing).data[1].scored
        BY CompleteHasAll
    <2>2. /\ (whole.score = "not_applicable") <=> (section.mode \in TerminalModes)
          /\ (whole.kind = "current") <=> IsRubric(artifacts)
        BY WholeAgreesWithSection
    <2>3. shown.found => artifacts.kind # "none"
        BY DEF EvaluationShown
    <2>4. shown.found /\ ReportStatus(section, Len(transcript)) = "ready"
              => whole.completion = "complete"
        BY <2>3, ReadyIsComplete
    <2>5. shown.found =>
              /\ shown.strengths \in 1..5 /\ shown.weaknesses \in 1..5
              /\ shown.canonical => shown.competencies = {}
        BY <2>3, EvaluationIsShown
    <2>6. CoachingShown(artifacts) = CoachingStored(artifacts)
        <3>1. CASE IsRubric(artifacts)
            <4>1. artifacts = Artifacts(answer, pinned)
                BY <3>1, StoredIsOfAnswer
            <4> QED BY <4>1, CoachingIsCountedAlike
        <3>2. CASE ~IsRubric(artifacts)
            BY <3>2 DEF CoachingShown, CoachingStored
        <3> QED BY <3>1, <3>2
    <2> HIDE DEF whole, section, shown, partial
    <2>7. /\ \A failing \in SUBSET Loaded :
                 partial(failing).completion = "complete" =>
                     /\ failing = {} /\ transcript # <<>>
                     /\ partial(failing).score = "evaluated"
                     /\ partial(failing).data[1].scored
          /\ Assembles(transcript, artifacts) =>
                 /\ (whole.score = "not_applicable") <=> (section.mode \in TerminalModes)
                 /\ shown.found /\ ReportStatus(section, Len(transcript)) = "ready"
                        => whole.completion = "complete"
          /\ (whole.kind = "current") <=> IsRubric(artifacts)
          /\ shown.found =>
                 /\ CoachingShown(artifacts) = CoachingStored(artifacts)
                 /\ shown.strengths \in 1..5 /\ shown.weaknesses \in 1..5
                 /\ shown.canonical => shown.competencies = {}
        BY <2>1, <2>2, <2>4, <2>5, <2>6
    <2> QED BY <2>7, Zenon DEF ViewsAgree, whole, section, shown, partial
<1> QED
    BY <1>1, PipelineInvariance, PTL

-----------------------------------------------------------------------------
(* Points *)

(* A sum may be taken over any set of places, leaving any of them out      *)
(* first.                                                                  *)
LEMMA SumOverPlaces ==
    ASSUME NEW s \in Seq(Int)
    PROVE  \E G \in [SUBSET (1..Len(s)) -> Int] :
              /\ G[{}] = 0 /\ G[1..Len(s)] = SumOf(s)
              /\ \A S \in SUBSET (1..Len(s)) : \A x \in S : G[S] = G[S \ {x}] + s[x]
<1> DEFINE N == Len(s)
<1>n. N \in Nat /\ \A i \in 1..N : s[i] \in Int
    OBVIOUS
<1>1. PICK p \in [0..N -> Int] :
              /\ p[0] = 0
              /\ \A i \in 1..N : p[i] = p[i-1] + s[i]
              /\ SumOf(s) = p[N]
    BY SumSteps
<1> HIDE DEF N
<1> DEFINE Sums(G, k) ==
              /\ G[{}] = 0 /\ G[1..k] = p[k]
              /\ \A S \in SUBSET (1..k) : \A x \in S : G[S] = G[S \ {x}] + s[x]
           P == {k \in 0..N : \E G \in [SUBSET (1..k) -> Int] : Sums(G, k)}
<1>2. 0 \in P
    <2> DEFINE G == [S \in SUBSET (1..0) |-> 0]
    <2>1. 1..0 = {} /\ {} \in SUBSET (1..0) /\ \A S \in SUBSET (1..0) : S = {}
        OBVIOUS
    <2>2. G \in [SUBSET (1..0) -> Int] /\ G[{}] = 0 /\ G[1..0] = p[0]
        BY <2>1, <1>1
    <2>3. Sums(G, 0)
        BY <2>1, <2>2
    <2> HIDE DEF Sums, G
    <2>4. \E H \in [SUBSET (1..0) -> Int] : Sums(H, 0)
        BY <2>2, <2>3
    <2>5. 0 \in 0..N
        BY <1>n
    <2> QED BY <2>4, <2>5
<1>3. ASSUME NEW k \in Nat, k < N, k \in P PROVE k + 1 \in P
    <2>1. PICK G \in [SUBSET (1..k) -> Int] : Sums(G, k)
        BY <1>3
    <2>2. k + 1 \in 1..N /\ s[k+1] \in Int /\ (k + 1) - 1 = k /\ k + 1 \in 0..N
        BY <1>3, <1>n
    <2>3. /\ \A S \in SUBSET (1..k) : G[S] \in Int
          /\ \A i \in 1..k : i \in 1..N /\ s[i] \in Int
        BY <1>3, <1>n
    <2> DEFINE H == [S \in SUBSET (1..(k+1)) |->
                        IF k + 1 \in S THEN G[S \ {k+1}] + s[k+1] ELSE G[S]]
    <2>4. \A S \in SUBSET (1..(k+1)) :
              /\ S \ {k+1} \in SUBSET (1..k)
              /\ k + 1 \notin S => S \in SUBSET (1..k)
        <3>1. \A i \in 1..(k+1) : i # k + 1 => i \in 1..k
            OBVIOUS
        <3> QED BY <3>1
    <2>5. H \in [SUBSET (1..(k+1)) -> Int]
        BY <2>2, <2>3, <2>4
    <2>h. \A S \in SUBSET (1..(k+1)) :
              H[S] = IF k + 1 \in S THEN G[S \ {k+1}] + s[k+1] ELSE G[S]
        OBVIOUS
    <2> HIDE DEF H
    <2>6. H[{}] = 0
        <3>1. {} \in SUBSET (1..(k+1)) /\ k + 1 \notin {}
            OBVIOUS
        <3> QED BY <3>1, <2>h, <2>1
    <2>7. H[1..(k+1)] = p[k+1]
        <3>1. 1..(k+1) \in SUBSET (1..(k+1)) /\ k + 1 \in 1..(k+1)
              /\ (1..(k+1)) \ {k+1} = 1..k
            OBVIOUS
        <3>2. H[1..(k+1)] = G[1..k] + s[k+1]
            BY <3>1, <2>h
        <3> QED BY <3>2, <2>1, <2>2, <1>1
    <2>8. ASSUME NEW S \in SUBSET (1..(k+1)), NEW x \in S
          PROVE  H[S] = H[S \ {x}] + s[x]
        <3>1. S \ {x} \in SUBSET (1..(k+1))
            OBVIOUS
        <3>2. CASE x = k + 1
            <4>1. k + 1 \notin S \ {x} /\ k + 1 \in S
                BY <3>2
            <4> QED BY <4>1, <3>1, <3>2, <2>h
        <3>3. CASE x # k + 1 /\ k + 1 \in S
            <4> DEFINE R == S \ {k+1}
            <4>1. /\ k + 1 \in S \ {x} /\ (S \ {x}) \ {k+1} = R \ {x}
                  /\ R \in SUBSET (1..k) /\ x \in R /\ x \in 1..k
                  /\ R \ {x} \in SUBSET (1..k)
                BY <3>3
            <4>2. G[R] = G[R \ {x}] + s[x]
                BY <4>1, <2>1
            <4>3. H[S] = G[R] + s[k+1] /\ H[S \ {x}] = G[R \ {x}] + s[k+1]
                BY <4>1, <3>1, <3>3, <2>h
            <4>4. G[R] \in Int /\ G[R \ {x}] \in Int /\ s[x] \in Int /\ s[k+1] \in Int
                BY <4>1, <2>2, <2>3
            <4> HIDE DEF R
            <4> QED BY <4>2, <4>3, <4>4
        <3>4. CASE k + 1 \notin S
            <4>1. S \in SUBSET (1..k) /\ k + 1 \notin S \ {x}
                BY <3>4
            <4>2. G[S] = G[S \ {x}] + s[x]
                BY <4>1, <2>1
            <4> QED BY <4>1, <4>2, <3>1, <3>4, <2>h
        <3> QED BY <3>2, <3>3, <3>4
    <2>9. Sums(H, k + 1)
        BY <2>6, <2>7, <2>8
    <2> HIDE DEF Sums
    <2> QED BY <2>2, <2>5, <2>9
<1>4. N \in P
    <2> HIDE DEF P
    <2>1. \A k \in 0..N : k \in P
        BY <1>n, <1>2, <1>3, Climb
    <2> QED BY <2>1, <1>n
<1>5. PICK G \in [SUBSET (1..N) -> Int] : Sums(G, N)
    BY <1>4
<1>6. /\ G[{}] = 0 /\ G[1..N] = SumOf(s)
      /\ \A S \in SUBSET (1..N) : \A x \in S : G[S] = G[S \ {x}] + s[x]
    BY <1>5, <1>1
<1> QED BY <1>5, <1>6 DEF N

(* The sum over a set is the sum over any sequence of its elements.        *)
LEMMA SumOfBlocks ==
    ASSUME NEW blocks, IsFiniteSet(blocks), NEW n \in Nat, NEW f \in [1..n -> blocks],
           \A i, j \in 1..n : f[i] = f[j] => i = j,
           \A b \in blocks : \E i \in 1..n : f[i] = b,
           \A b \in blocks : b.weight \in Int
    PROVE  WeightTotal(blocks) = SumOf([i \in 1..n |-> f[i].weight])
<1> DEFINE s == [i \in 1..n |-> f[i].weight]
           First(S) == CHOOSE b \in S : TRUE
           F(h) == [S \in SUBSET blocks |->
                       IF S = {} THEN 0 ELSE h[S \ {First(S)}] + First(S).weight]
           At(S) == {i \in 1..n : f[i] \in S}
<1>s. s \in Seq(Int) /\ Len(s) = n /\ \A i \in 1..n : s[i] = f[i].weight
    <2>1. s \in [1..n -> Int]
        OBVIOUS
    <2> QED BY <2>1, FunctionIsSeq
<1> HIDE DEF s
<1>1. PICK G \in [SUBSET (1..n) -> Int] :
              /\ G[{}] = 0 /\ G[1..n] = SumOf(s)
              /\ \A S \in SUBSET (1..n) : \A x \in S : G[S] = G[S \ {x}] + s[x]
    BY <1>s, SumOverPlaces
<1> DEFINE g == [S \in SUBSET blocks |-> G[At(S)]]
<1>2. ASSUME NEW S \in SUBSET blocks, NEW b \in S
      PROVE  g[S] = g[S \ {b}] + b.weight
    <2>1. PICK i \in 1..n : f[i] = b
        OBVIOUS
    <2>2. /\ At(S) \in SUBSET (1..n) /\ i \in At(S) /\ S \ {b} \in SUBSET blocks
          /\ At(S \ {b}) = At(S) \ {i}
        BY <2>1
    <2>3. G[At(S)] = G[At(S) \ {i}] + s[i]
        BY <1>1, <2>2
    <2> HIDE DEF At
    <2> QED BY <2>1, <2>2, <2>3, <1>s
<1>3. g[{}] = 0 /\ g[blocks] = SumOf(s)
    <2>1. At({}) = {} /\ At(blocks) = 1..n
        OBVIOUS
    <2> HIDE DEF At
    <2> QED BY <2>1, <1>1
<1> HIDE DEF g, At
<1>f. \A S \in SUBSET blocks : S # {} => First(S) \in S
    OBVIOUS
<1>g. DOMAIN g = SUBSET blocks /\ g = [S \in SUBSET blocks |-> g[S]]
    BY DEF g
<1> HIDE DEF First
<1>4. g = F(g)
    <2>1. ASSUME NEW S \in SUBSET blocks
          PROVE  g[S] = IF S = {} THEN 0 ELSE g[S \ {First(S)}] + First(S).weight
        BY <1>2, <1>3, <1>f
    <2> QED BY <2>1, <1>g
<1> DEFINE iter == CHOOSE h : h = F(h)
<1>5. iter = F(iter)
    BY <1>4
<1>6. WeightTotal(blocks) = iter[blocks]
    BY DEF WeightTotal, FoldSet, MapThenFoldSet, First
<1>7. \A S \in SUBSET blocks :
          iter[S] = IF S = {} THEN 0 ELSE iter[S \ {First(S)}] + First(S).weight
    <2> HIDE DEF iter
    <2> QED BY <1>5
<1> HIDE DEF iter, F
<1>8. \A S \in SUBSET blocks : iter[S] = g[S]
    <2> DEFINE differ == {S \in SUBSET blocks : iter[S] # g[S]}
               sizes  == {Cardinality(S) : S \in differ}
    <2> SUFFICES ASSUME differ # {} PROVE FALSE
        OBVIOUS
    <2>1. \A S \in SUBSET blocks : IsFiniteSet(S) /\ Cardinality(S) \in Nat
        BY FS_Subset, FS_CardinalityType
    <2>2. sizes \in SUBSET Nat /\ sizes # {}
        BY <2>1
    <2>3. Min(sizes) \in sizes /\ \A m \in sizes : Min(sizes) <= m
        BY <2>2, LeastExists
    <2>4. PICK S \in differ : Cardinality(S) = Min(sizes)
        BY <2>3
    <2>5. CASE S = {}
        BY <2>4, <2>5, <1>3, <1>7
    <2>6. CASE S # {}
        <3> DEFINE b == First(S)
        <3>1. b \in S /\ S \in SUBSET blocks /\ S \ {b} \in SUBSET blocks
            BY <2>6, <1>f
        <3>2. Cardinality(S \ {b}) = Cardinality(S) - 1
            BY <3>1, <2>1, FS_RemoveElement
        <3>3. S \ {b} \notin differ
            <4> SUFFICES ASSUME S \ {b} \in differ PROVE FALSE
                OBVIOUS
            <4>1. Cardinality(S \ {b}) \in sizes
                OBVIOUS
            <4>2. Cardinality(S) <= Cardinality(S \ {b})
                BY <4>1, <2>3, <2>4
            <4> QED BY <4>2, <3>1, <3>2, <2>1
        <3>4. iter[S \ {b}] = g[S \ {b}]
            BY <3>1, <3>3
        <3>5. iter[S] = iter[S \ {b}] + b.weight
            BY <2>6, <3>1, <1>7
        <3>6. g[S] = g[S \ {b}] + b.weight
            BY <3>1, <1>2
        <3> QED BY <3>4, <3>5, <3>6
    <2> QED BY <2>5, <2>6
<1> QED BY <1>3, <1>6, <1>8 DEF s

\* A factor distributes over a sum.
LEMMA Distributes ==
    ASSUME NEW d \in Int, NEW x \in Int, NEW y \in Int
    PROVE  d * (x + y) = d * x + d * y /\ d * x \in Int /\ d * y \in Int
OBVIOUS

(* A common factor of all summands is one of the sum.                      *)
LEMMA SumIsScaled ==
    ASSUME NEW s \in Seq(Int), NEW d \in Int
    PROVE  SumOf([i \in 1..Len(s) |-> d * s[i]]) = d * SumOf(s)
<1> DEFINE N == Len(s)
           t == [i \in 1..N |-> d * s[i]]
<1>n. N \in Nat /\ \A i \in 1..N : s[i] \in Int
    OBVIOUS
<1>1. PICK p \in [0..N -> Int] :
              /\ p[0] = 0
              /\ \A i \in 1..N : p[i] = p[i-1] + s[i]
              /\ SumOf(s) = p[N]
    BY SumSteps
<1> HIDE DEF N
<1>2. t \in Seq(Int) /\ Len(t) = N /\ \A i \in 1..N : t[i] = d * s[i]
    <2>1. t \in [1..N -> Int]
        <3>1. \A i \in 1..N : d * s[i] \in Int
            BY <1>n, Distributes
        <3> QED BY <3>1
    <2> QED BY <1>n, <2>1, FunctionIsSeq
<1> HIDE DEF t
<1>3. PICK q \in [0..N -> Int] :
              /\ q[0] = 0
              /\ \A i \in 1..N : q[i] = q[i-1] + t[i]
              /\ SumOf(t) = q[N]
    BY <1>2, SumSteps
<1> DEFINE P == {i \in 0..N : q[i] = d * p[i]}
<1>4. 0 \in P
    BY <1>1, <1>3, <1>n
<1>5. ASSUME NEW k \in Nat, k < N, k \in P PROVE k + 1 \in P
    <2>1. k + 1 \in 1..N /\ (k + 1) - 1 = k /\ k \in 0..N /\ k + 1 \in 0..N
        BY <1>5, <1>n
    <2>2. p[k+1] = p[k] + s[k+1] /\ q[k+1] = q[k] + d * s[k+1] /\ q[k] = d * p[k]
        BY <2>1, <1>1, <1>2, <1>3, <1>5
    <2>3. p[k] \in Int /\ s[k+1] \in Int
        BY <2>1, <1>n
    <2>4. d * (p[k] + s[k+1]) = d * p[k] + d * s[k+1]
        BY <2>3, Distributes
    <2> QED BY <2>1, <2>2, <2>4
<1>6. N \in P
    <2> HIDE DEF P
    <2>1. \A k \in 0..N : k \in P
        BY <1>n, <1>4, <1>5, Climb
    <2> QED BY <2>1, <1>n
<1>7. SumOf(t) = d * SumOf(s)
    BY <1>1, <1>3, <1>6
<1> QED BY <1>7 DEF t, N

(* A sum of terms that are none below zero is not below zero.              *)
LEMMA SumIsNatural ==
    ASSUME NEW s \in Seq(Int), \A i \in 1..Len(s) : 0 <= s[i]
    PROVE  0 <= SumOf(s)
<1> DEFINE z == [i \in 1..Len(s) |-> 0 * s[i]]
<1>1. SumOf(z) = 0 * SumOf(s) /\ SumOf(s) \in Int
    BY SumIsScaled, SumIsInteger
<1>2. Len(s) \in Nat /\ \A i \in 1..Len(s) : s[i] \in Int
    OBVIOUS
<1>3. z \in [1..Len(s) -> Int] /\ \A i \in 1..Len(s) : z[i] = 0
    BY <1>2
<1> HIDE DEF z
<1>4. z \in Seq(Int) /\ Len(z) = Len(s)
    BY <1>2, <1>3, FunctionIsSeq
<1>5. SumOf(z) <= SumOf(s)
    BY <1>2, <1>3, <1>4, SumIsMonotone
<1> QED BY <1>1, <1>5

\* A product of natural numbers is one.
LEMMA ProductIsNatural ==
    ASSUME NEW a \in Nat, NEW b \in Nat
    PROVE  a * b \in Nat
OBVIOUS

(* Penalties never add points.                                             *)
LEMMA PenaltyIsNatural ==
    ASSUME NEW c \in Categories, NEW b,
           b.penalties \in Seq([violation : Nat, deduction : 0..100, max : 0..100])
    PROVE  PenaltyTotal(c, b) \in Int /\ 0 <= PenaltyTotal(c, b)
<1> DEFINE ps == b.penalties
           Cost(p) == Min({Occurrences(c, p), p.max}) * p.deduction
           of == [k \in DOMAIN ps |-> Cost(ps[k])]
<1>1. PenaltyTotal(c, b) = SumOf(of)
    BY DEF PenaltyTotal
<1>2. /\ DOMAIN ps = 1..Len(ps) /\ Len(ps) \in Nat
      /\ \A k \in 1..Len(ps) : ps[k].max \in Nat /\ ps[k].deduction \in Nat
    <2> DEFINE P == [violation : Nat, deduction : 0..100, max : 0..100]
    <2>1. ps \in Seq(P)
        OBVIOUS
    <2> HIDE DEF ps, P
    <2>2. /\ DOMAIN ps = 1..Len(ps) /\ Len(ps) \in Nat
          /\ \A k \in 1..Len(ps) : ps[k] \in P
        BY <2>1, SeqFacts
    <2>3. \A x \in P : x.max \in 0..100 /\ x.deduction \in 0..100
        BY DEF P
    <2>4. \A n \in 0..100 : n \in Nat
        OBVIOUS
    <2> QED BY <2>2, <2>3, <2>4
<1> HIDE DEF ps
<1>3. ASSUME NEW k \in 1..Len(ps) PROVE Cost(ps[k]) \in Nat
    <2> DEFINE p == ps[k]
               m == Min({Occurrences(c, p), p.max})
    <2>1. p.max \in Nat /\ p.deduction \in Nat /\ Occurrences(c, p) \in Nat
        BY <1>2, OccurrencesRise
    <2> HIDE DEF p
    <2>2. m = IF Occurrences(c, p) <= p.max THEN Occurrences(c, p) ELSE p.max
        BY <2>1, LessOfTwo
    <2> HIDE DEF m
    <2>3. m \in Nat
        BY <2>1, <2>2
    <2>4. m * p.deduction \in Nat
        BY <2>1, <2>3, ProductIsNatural
    <2> QED BY <2>4 DEF m, p
<1> HIDE DEF Cost
<1>4. of \in [1..Len(ps) -> Int] /\ \A k \in 1..Len(ps) : 0 <= of[k]
    BY <1>2, <1>3
<1> HIDE DEF of
<1>5. of \in Seq(Int) /\ Len(of) = Len(ps)
    BY <1>2, <1>4, FunctionIsSeq
<1> QED
    BY <1>1, <1>4, <1>5, SumIsInteger, SumIsNatural

(* A category has at most the points of its block's weight.                *)
LEMMA PointsAreWithinWeight ==
    ASSUME NEW c \in Categories, NEW b,
           b.penalties \in Seq([violation : Nat, deduction : 0..100, max : 0..100]),
           b.weight \in 0..100
    PROVE  LET points == ScoreCategory(c, b).points IN
           points \in Int /\ 0 <= points /\ points <= 100 * b.weight
<1>p. \A k \in 0..100 : k \in Nat /\ k \in Int /\ k <= 100
    OBVIOUS
<1>1. c.raw \in {Unscored} \cup 0..100 /\ b.weight \in Nat
    BY <1>p DEF Categories
<1>2. PenaltyTotal(c, b) \in Int /\ 0 <= PenaltyTotal(c, b)
    BY PenaltyIsNatural
<1>3. CASE c.raw = Unscored
    BY <1>1, <1>3 DEF ScoreCategory
<1>4. CASE c.raw # Unscored
    <2> DEFINE left == Max({0, c.raw - PenaltyTotal(c, b)})
    <2>r. c.raw \in Nat /\ c.raw <= 100
        BY <1>p, <1>1, <1>4
    <2>1. c.raw - PenaltyTotal(c, b) \in Int
        BY <2>r, <1>2
    <2>2. left = IF 0 <= c.raw - PenaltyTotal(c, b) THEN c.raw - PenaltyTotal(c, b) ELSE 0
        <3>1. 0 \in Int
            OBVIOUS
        <3> QED BY <3>1, <2>1, LessOfTwo
    <2>3. ScoreCategory(c, b).points = left * b.weight
        BY <1>4 DEF ScoreCategory
    <2> HIDE DEF left
    <2>4. left \in Nat /\ left \in Int /\ left <= 100
        BY <2>r, <2>1, <2>2, <1>2
    <2>5. left * b.weight \in Nat
        BY <1>1, <2>4, ProductIsNatural
    <2>6. left * b.weight <= 100 * b.weight
        <3>1. 100 \in Int
            OBVIOUS
        <3> QED BY <3>1, <1>1, <2>4, ProductIsMonotone
    <2> QED BY <2>3, <2>5, <2>6
<1> QED BY <1>3, <1>4

(* The total of an observation without scores is zero.                     *)
LEMMA NothingIsScored ==
    ASSUME NEW o, NEW st, NEW n \in Nat, DOMAIN o.categories = 1..n,
           \A i \in 1..n : o.categories[i].raw = Unscored
    PROVE  Canonical(o, st).total = 0
<1> DEFINE points == [i \in DOMAIN o.categories |->
               ScoreCategory(o.categories[i], Block(st, o.categories[i].block)).points]
           zero   == [i \in 1..n |-> 0]
<1>1. Canonical(o, st).total = SumOf(points)
    BY CanonicalTotal
<1>2. points = zero
    BY DEF ScoreCategory
<1>3. zero \in Seq(Int) /\ Len(zero) = n /\ \A i \in 1..n : zero[i] = 0
    <2>1. zero \in [1..n -> Int]
        OBVIOUS
    <2> QED BY <2>1, FunctionIsSeq
<1>4. zero = [i \in 1..Len(zero) |-> 0 * zero[i]]
    BY <1>3
<1> HIDE DEF points, zero
<1>5. SumOf(zero) = 0 * SumOf(zero) /\ SumOf(zero) \in Int
    BY <1>3, <1>4, SumIsScaled, SumIsInteger
<1> QED BY <1>1, <1>2, <1>5

(* A grounded observation has one category of each block, so that its      *)
(* total has at most the weights' hundred points.                          *)
LEMMA TotalIsBounded ==
    ASSUME NEW o \in ObservationsOf(Names), NEW st, IsStandard(st), NEW lines,
           Valid(o, st, lines)
    PROVE  LET total == Canonical(o, st).total IN
           total \in Int /\ 0 <= total /\ total <= 10000
<1> DEFINE cs == o.categories
           n  == Len(cs)
           f  == [i \in 1..n |-> Block(st, cs[i].block)]
           w  == [i \in 1..n |-> f[i].weight]
           points == [i \in 1..n |-> ScoreCategory(cs[i], f[i]).points]
<1>1. /\ n \in Nat /\ DOMAIN cs = 1..n
      /\ \A i \in 1..n : cs[i] \in Categories
    <2>1. cs \in Seq(Categories)
        BY DEF ObservationsOf
    <2> HIDE DEF cs
    <2> QED BY <2>1, SeqFacts
<1>2. /\ \A i \in 1..n : cs[i].block \in {b.id : b \in st.blocks}
      /\ \A i, j \in 1..n : cs[i].block = cs[j].block => i = j
      /\ \A b \in st.blocks : \E i \in 1..n : cs[i].block = b.id
    <2> DEFINE ids == [i \in DOMAIN cs |-> cs[i].block]
    <2>1. IsInjective(ids) /\ Range(ids) = {b.id : b \in st.blocks}
        BY DEF Valid
    <2>2. DOMAIN ids = 1..n /\ \A i \in 1..n : ids[i] = cs[i].block
        BY <1>1
    <2> HIDE DEF ids, cs, n
    <2>3. \A i \in 1..n : cs[i].block \in {b.id : b \in st.blocks}
        BY <2>1, <2>2 DEF Range
    <2>4. \A i, j \in 1..n : cs[i].block = cs[j].block => i = j
        BY <2>1, <2>2 DEF IsInjective
    <2>5. ASSUME NEW b \in st.blocks PROVE \E i \in 1..n : cs[i].block = b.id
        <3>1. b.id \in Range(ids)
            BY <2>1
        <3> QED BY <3>1, <2>2 DEF Range
    <2> QED BY <2>3, <2>4, <2>5
<1> HIDE DEF cs, n
<1>3. \A i \in 1..n : f[i] \in st.blocks /\ f[i].id = cs[i].block
    BY <1>2, BlockExists
<1>4. /\ IsFiniteSet(st.blocks)
      /\ WeightTotal(st.blocks) = 100
      /\ \A b, c \in st.blocks : b.id = c.id => b = c
    BY DEF IsStandard
<1>5. \A b \in st.blocks :
          /\ b.penalties \in Seq([violation : Nat, deduction : 0..100, max : 0..100])
          /\ b.weight \in 0..100 /\ b.weight \in Int
    <2>1. \A k \in 0..100 : k \in Int
        OBVIOUS
    <2> QED BY <2>1, BlocksAreTyped
<1>6. points = [i \in DOMAIN cs |-> ScoreCategory(cs[i], Block(st, cs[i].block)).points]
    BY <1>1
<1>7. Canonical(o, st).total = SumOf(points)
    BY <1>6, CanonicalTotal DEF cs
<1> DEFINE scaled == [i \in 1..n |-> 100 * w[i]]
<1>8. SumOf(w) = 100
    <2>1. f \in [1..n -> st.blocks]
        BY <1>3
    <2>2. \A i, j \in 1..n : f[i] = f[j] => i = j
        <3> HIDE DEF f
        <3> QED BY <1>2, <1>3
    <2>3. \A b \in st.blocks : \E i \in 1..n : f[i] = b
        <3> HIDE DEF f
        <3>1. ASSUME NEW b \in st.blocks PROVE \E i \in 1..n : f[i] = b
            <4>1. PICK i \in 1..n : cs[i].block = b.id
                BY <1>2
            <4>2. f[i] \in st.blocks /\ f[i].id = b.id
                BY <4>1, <1>3
            <4>3. f[i] = b
                BY <4>2, <1>4
            <4> QED BY <4>3
        <3> QED BY <3>1
    <2>4. \A b \in st.blocks : b.weight \in Int
        BY <1>5
    <2> HIDE DEF f
    <2>5. WeightTotal(st.blocks) = SumOf(w)
        BY <1>1, <1>4, <2>1, <2>2, <2>3, <2>4, SumOfBlocks
    <2> QED BY <2>5, <1>4
<1>9. \A i \in 1..n : /\ w[i] \in Int /\ scaled[i] = 100 * w[i]
                      /\ points[i] \in Int /\ 0 <= points[i] /\ points[i] <= scaled[i]
    <2> SUFFICES ASSUME NEW i \in 1..n
                 PROVE  /\ w[i] \in Int /\ scaled[i] = 100 * w[i]
                        /\ points[i] \in Int /\ 0 <= points[i] /\ points[i] <= scaled[i]
        OBVIOUS
    <2>1. w[i] = f[i].weight /\ scaled[i] = 100 * w[i]
          /\ points[i] = ScoreCategory(cs[i], f[i]).points
        OBVIOUS
    <2> HIDE DEF f, w, scaled, points
    <2>2. f[i] \in st.blocks /\ cs[i] \in Categories
        BY <1>1, <1>3
    <2> QED BY <2>1, <2>2, <1>5, PointsAreWithinWeight
<1>10. w \in Seq(Int) /\ Len(w) = n
    <2>1. w \in [1..n -> Int]
        BY <1>9
    <2> HIDE DEF w
    <2> QED BY <2>1, <1>1, FunctionIsSeq
<1>11. scaled \in Seq(Int) /\ Len(scaled) = n
    <2>1. \A i \in 1..n : 100 * w[i] \in Int
        <3> HIDE DEF w
        <3> QED BY <1>9
    <2>2. scaled \in [1..n -> Int]
        BY <2>1
    <2> HIDE DEF scaled
    <2> QED BY <2>2, <1>1, FunctionIsSeq
<1>12. points \in Seq(Int) /\ Len(points) = n
    <2>1. points \in [1..n -> Int]
        BY <1>9
    <2> HIDE DEF points
    <2> QED BY <2>1, <1>1, FunctionIsSeq
<1> HIDE DEF points, w
<1>13. SumOf(scaled) = 10000
    <2>1. SumOf(scaled) = 100 * SumOf(w)
        BY <1>10, SumIsScaled
    <2> QED BY <2>1, <1>8
<1> HIDE DEF scaled
<1>14. SumOf(points) <= SumOf(scaled) /\ 0 <= SumOf(points) /\ SumOf(points) \in Int
    <2>1. \A i \in 1..Len(points) : points[i] <= scaled[i] /\ 0 <= points[i]
        BY <1>9, <1>12
    <2>2. SumOf(points) <= SumOf(scaled)
        BY <2>1, <1>11, <1>12, SumIsMonotone
    <2>3. 0 <= SumOf(points)
        BY <2>1, <1>12, SumIsNatural
    <2>4. SumOf(points) \in Int
        BY <1>12, SumIsInteger
    <2> QED BY <2>2, <2>3, <2>4
<1> QED BY <1>7, <1>13, <1>14

-----------------------------------------------------------------------------
(* The pipeline's types *)

(* Attempts, the request's budget and the report's status.                 *)
RunTypeOK ==
    /\ attempt \in 0..MaxAttempts
    /\ budget \in {OutputTokens, RetryOutputTokens}
    /\ report \in Reports

\* Every step keeps the types.
LEMMA RunTypeKept == RunTypeOK /\ [Next]_vars => RunTypeOK'
<1> SUFFICES ASSUME RunTypeOK, [Next]_vars PROVE RunTypeOK'
    OBVIOUS
<1> USE DEF RunTypeOK, MaxAttempts, OutputTokens, RetryOutputTokens
<1>t. ASSUME NEW tokens \in {OutputTokens, RetryOutputTokens}, Retry(tokens),
             report' = report
      PROVE  RunTypeOK'
    BY <1>t DEF Retry
<1>1. CASE StartUnpinned
    BY <1>1 DEF StartUnpinned
<1>2. CASE StartShort
    BY <1>2 DEF StartShort
<1>3. CASE Start
    BY <1>3 DEF Start
<1>4. CASE RequestFails
    BY <1>4 DEF RequestFails
<1>5. CASE Truncated
    <2>1. 2 * budget \in Int /\ RetryOutputTokens \in Int
        OBVIOUS
    <2> DEFINE double == 2 * budget
    <2>2. Min({double, RetryOutputTokens})
              = IF double <= RetryOutputTokens THEN double ELSE RetryOutputTokens
        <3> HIDE DEF RetryOutputTokens
        <3> QED BY <2>1, LessOfTwo
    <2>3. Min({double, RetryOutputTokens}) \in {OutputTokens, RetryOutputTokens}
        BY <2>2
    <2>4. Retry(Min({double, RetryOutputTokens})) /\ report' = report
        BY <1>5 DEF Truncated
    <2> HIDE DEF double, OutputTokens, RetryOutputTokens
    <2> QED BY <2>3, <2>4, <1>t
<1>6. CASE Rejected
    <2>1. Retry(budget) /\ report' = report
        BY <1>6 DEF Rejected
    <2> QED BY <2>1, <1>t
<1>7. ASSUME NEW o \in Observations, Accepted(o) PROVE RunTypeOK'
    BY <1>7 DEF Accepted
<1>8. CASE Store
    BY <1>8 DEF Store
<1>9. CASE StoreFails
    BY <1>9 DEF StoreFails
<1>10. CASE LateLine
    BY <1>10 DEF LateLine
<1>11. CASE GenerateReport
    <2>1. \A section, lines : ReportStatus(section, lines) \in Reports
        BY DEF ReportStatus, TerminalModes, Reports
    <2>2. report' \in Reports
        BY <1>11, <2>1 DEF GenerateReport, Reports
    <2> QED BY <1>11, <2>2 DEF GenerateReport
<1>12. CASE UNCHANGED vars
    BY <1>12 DEF vars
<1> QED
    BY <1>1, <1>2, <1>3, <1>4, <1>5, <1>6, <1>7, <1>8, <1>9, <1>10, <1>11, <1>12 DEF Next

(* The stored score lies between 0 and 100 points, and passes only from    *)
(* the standard's own threshold on.                                        *)
LEMMA StoredScore ==
    ASSUME PipelineIInv, IsRubric(artifacts)
    PROVE  LET total == artifacts.canonical.total IN
           /\ total \in Int /\ 0 <= total /\ total <= 10000
           /\ artifacts.canonical.passed => total >= 100 * pinned.overall
<1>1. /\ artifacts.canonical = Canonical(answer, pinned) /\ IsStandard(pinned)
      /\ \/ answer = NotApplicable(pinned)
         \/ answer \in ObservationsOf(Names) /\ Valid(answer, pinned, heard)
    BY StoredIsOfAnswer
<1>2. Canonical(answer, pinned).passed => Canonical(answer, pinned).total >= 100 * pinned.overall
    BY CanonicalFields
<1> DEFINE total == Canonical(answer, pinned).total
<1>3. total \in Int /\ 0 <= total /\ total <= 10000
    <2>1. CASE answer = NotApplicable(pinned)
        <3>1. Cardinality(pinned.blocks) \in Nat
            BY <1>1, FS_CardinalityType DEF IsStandard
        <3>2. total = 0
            BY <2>1, <3>1, StatusOfNotApplicable, NothingIsScored
        <3> QED BY <3>2
    <2>2. CASE answer \in ObservationsOf(Names) /\ Valid(answer, pinned, heard)
        BY <1>1, <2>2, TotalIsBounded
    <2> QED BY <1>1, <2>1, <2>2
<1> QED BY <1>1, <1>2, <1>3

(* An accepted answer is one.                                              *)
LEMMA AcceptedIsAnswer ==
    ASSUME PipelineIInv, phase \in {"accepted", "stored"}
    PROVE  answer # NoAnswer
<1>1. answer.status \in {"evaluated", "not_applicable"}
    BY StatusOfNotApplicable DEF PipelineIInv, AnswerIsGrounded, ObservationsOf
<1> QED BY <1>1 DEF NoAnswer

(* The pipeline's variables have their types, and a stored score is one of *)
(* 0 to 100 points that passes only from the threshold on.                 *)
THEOREM EvaluationTypes == Spec => []EvaluationTypeOK
<1>1. Init => RunTypeOK
    BY DEF Init, RunTypeOK, MaxAttempts, Reports
<1>2. RunTypeOK /\ [Next]_vars => RunTypeOK'
    BY RunTypeKept
<1>3. PipelineIInv /\ RunTypeOK => EvaluationTypeOK
    <2> SUFFICES ASSUME PipelineIInv, RunTypeOK PROVE EvaluationTypeOK
        OBVIOUS
    <2>1. phase \in Phases
        BY DEF PipelineIInv
    <2>2. attempt \in 0..MaxAttempts /\ budget \in {OutputTokens, RetryOutputTokens}
          /\ report \in Reports
        BY DEF RunTypeOK
    <2>3. phase \in {"accepted", "stored"} => answer # NoAnswer
        BY AcceptedIsAnswer
    <2> DEFINE points == 0..10000
    <2>p. \A n \in Int : 0 <= n /\ n <= 10000 => n \in points
        OBVIOUS
    <2>4. ASSUME IsRubric(artifacts)
          PROVE  /\ artifacts.canonical.total \in points
                 /\ artifacts.canonical.passed =>
                        artifacts.canonical.total >= 100 * pinned.overall
        <3> HIDE DEF points
        <3> QED BY <2>4, <2>p, StoredScore
    <2>5. EvaluationTypeOK <=>
              /\ phase \in Phases
              /\ attempt \in 0..MaxAttempts
              /\ budget \in {OutputTokens, RetryOutputTokens}
              /\ report \in Reports
              /\ phase \in {"accepted", "stored"} => answer # NoAnswer
              /\ IsRubric(artifacts) =>
                     /\ artifacts.canonical.total \in points
                     /\ artifacts.canonical.passed =>
                            artifacts.canonical.total >= 100 * pinned.overall
        BY DEF EvaluationTypeOK
    <2> HIDE DEF points
    <2> QED BY <2>1, <2>2, <2>3, <2>4, <2>5
<1> QED
    BY <1>1, <1>2, <1>3, PipelineInvariance, PTL DEF Spec

-----------------------------------------------------------------------------
(* The simulated debtor: choices *)

\* The places of a list are numbers.
LEMMA IndicesAreNumbers ==
    ASSUME NEW s, s \in Seq(ToSet(s))
    PROVE  DOMAIN s \subseteq Nat
OBVIOUS

\* Every safe line is tried before a prohibited one is said.
LEMMA SafeLineIsChecked ==
    ASSUME NEW contract
    PROVE  \/ ~Prohibited(contract, SafeLine(contract))
           \/ \A i \in DOMAIN SafeLines : Prohibited(contract, SafeLines[i])
<1> DEFINE clean == {i \in DOMAIN SafeLines : ~Prohibited(contract, SafeLines[i])}
<1>1. CASE clean = {}
    BY <1>1
<1>2. CASE clean # {}
    <2>1. clean \in SUBSET Nat
        BY SafeLinesAssumption, IndicesAreNumbers
    <2>2. Min(clean) \in clean
        BY <1>2, <2>1, LeastExists
    <2> QED
        BY <1>2, <2>2 DEF SafeLine
<1> QED
    BY <1>1, <1>2

\* Only an answer that was checked is given, or a safe line.
LEMMA ReplyIsChecked ==
    ASSUME NEW contract, NEW answers \in Answers
    PROVE  \/ ~Prohibited(contract, Reply(contract, answers))
           \/ \A i \in DOMAIN SafeLines : Prohibited(contract, SafeLines[i])
<1> DEFINE stops == {i \in DOMAIN answers :
                        answers[i] = Fails \/ ~Prohibited(contract, answers[i])}
<1>1. CASE stops = {} \/ answers[Min(stops)] = Fails
    <2>1. Reply(contract, answers) = SafeLine(contract)
        BY <1>1 DEF Reply
    <2> QED
        BY <2>1, SafeLineIsChecked
<1>2. CASE ~(stops = {} \/ answers[Min(stops)] = Fails)
    <2>1. stops \in SUBSET Nat
        BY ModelAnswersAssumption, IndicesAreNumbers
    <2>2. Min(stops) \in stops
        BY <1>2, <2>1, LeastExists
    <2>3. Reply(contract, answers) = answers[Min(stops)]
        BY <1>2 DEF Reply
    <2> QED
        BY <1>2, <2>2, <2>3
<1> QED
    BY <1>1, <1>2

\* The mood of a persona stays on the scale.
LEMMA MoodsStay ==
    ASSUME NEW mood \in Moods, NEW rules, NEW message
    PROVE  NextMood(mood, rules, message) \in Moods
<1>1. ASSUME NEW direction PROVE Step(mood, direction) \in Moods
    <2>1. mood + 1 \in Nat /\ mood - 1 \in Nat /\ mood \in Nat
        BY DEF Moods
    <2>2. Min({mood + 1, 5}) \in Moods
        <3>1. Min({mood + 1, 5}) = IF mood + 1 <= 5 THEN mood + 1 ELSE 5
            BY <2>1 DEF Min
        <3> QED
            BY <2>1, <3>1 DEF Moods
    <2>3. Max({mood - 1, 1}) \in Moods
        <3>1. Max({mood - 1, 1}) = IF mood - 1 >= 1 THEN mood - 1 ELSE 1
            BY <2>1 DEF Max
        <3> QED
            BY <2>1, <3>1 DEF Moods
    <2> QED
        BY <2>2, <2>3 DEF Step
<1> QED
    BY <1>1 DEF NextMood

\* What the message of the agent ends a scripted call with.
Ending(message) == EndingEscalation(Script, message) \/ GoalIsMet(Script, message)

\* What the text endpoint answers, and when it leaves it to the model.
LEMMA TextChoice ==
    ASSUME NEW first \in BOOLEAN, NEW system \in BOOLEAN, NEW message,
           NEW kind, kind = TextAnswer(first, system, message)
    PROVE  /\ kind \in {"opening", "escalation", "goal", "model"}
           /\ kind \in {"escalation", "goal"} => Ending(message)
           /\ kind = "model" /\ Scripted /\ ~system => ~Ending(message)
BY DEF TextAnswer, Ending

\* What the voice pipeline answers, and when it leaves it to the model.
LEMMA VoiceChoice ==
    ASSUME NEW count, NEW message, NEW kind, kind = VoiceAnswer(count, message)
    PROVE  /\ kind \in {"opening", "escalation", "goal", "model"}
           /\ kind \in {"escalation", "goal"} => Ending(message)
           /\ kind = "model" /\ Scripted => ~Ending(message)
BY DEF VoiceAnswer, Ending

\* What matches first is one of the list.
LEMMA MatchIsListed ==
    ASSUME NEW entries, entries \in Seq(ToSet(entries)), NEW message,
           NEW entry \in ToSet(FirstMatch(entries, message))
    PROVE  entry \in ToSet(entries)
<1> DEFINE met == {i \in DOMAIN entries : Says(message, entries[i].when)}
<1>1. FirstMatch(entries, message) = IF met = {} THEN <<>> ELSE <<entries[Min(met)]>>
    BY DEF FirstMatch
<1>2. met # {}
    <2>1. ToSet(<<>>) = {}
        BY DEF ToSet
    <2> QED
        BY <1>1, <2>1
<1>3. Min(met) \in met
    <2>1. met \in SUBSET Nat
        BY IndicesAreNumbers
    <2> QED
        BY <1>2, <2>1, LeastExists
<1> HIDE DEF met
<1>4. entry = entries[Min(met)]
    BY <1>1, <1>2 DEF ToSet
<1> QED
    BY <1>3, <1>4 DEF ToSet, met

\* An escalation the model is told of does not end the call.
LEMMA ToldIsHarmless ==
    ASSUME Script \in Definitions, NEW message,
           NEW told \in Instructions(Script, message), told \in ToSet(Script.escalations)
    PROVE  ~told.ends
<1>1. PICK contract \in Definitions : contract = Script
    OBVIOUS
<1>2. /\ \A entry \in ToSet(contract.escalations) :
             entry \notin ToSet(contract.triggers) /\ entry \notin ToSet(contract.payments)
      /\ contract.triggers \in Seq(ToSet(contract.triggers))
      /\ contract.payments \in Seq(ToSet(contract.payments))
    BY DefinitionsAssumption
<1>3. /\ told \notin ToSet(FirstMatch(contract.triggers, message))
      /\ told \notin ToSet(FirstMatch(contract.payments, message))
    BY <1>1, <1>2, MatchIsListed
<1> QED
    BY <1>1, <1>3 DEF Instructions

-----------------------------------------------------------------------------
(* Submissions *)

\* The prohibitions are put back as they were.
LEMMA RebuiltIsSame ==
    ASSUME NEW definition \in Definitions
    PROVE  Rebuilt(definition) = definition
<1>1. definition = [field \in DOMAIN NoScript |-> definition[field]]
    BY DefinitionsAssumption
<1>2. "prohibited" \in DOMAIN NoScript
    BY DEF NoScript
<1> QED
    BY <1>1, <1>2 DEF Rebuilt

\* A definition that misses no field is answered with its conflicts and limits.
LEMMA FullVerdict ==
    ASSUME NEW definition \in Definitions, definition.missing = {}
    PROVE  Violations(definition) = Conflicts(definition) \cup LimitViolations(definition)
<1>1. CASE Conflicts(definition) = {}
    <2>1. StructuralErrors(definition) = {}
        BY <1>1 DEF StructuralErrors
    <2> QED
        BY <2>1 DEF Violations, ConflictOnly
<1>2. CASE Conflicts(definition) # {}
    <2>1. StructuralErrors(definition) = {[kind |-> "value_error", at |-> {}]}
        BY <1>2 DEF StructuralErrors
    <2>2. ConflictOnly(StructuralErrors(definition))
        BY <2>1 DEF ConflictOnly
    <2> QED
        BY <2>1, <2>2, RebuiltIsSame DEF Violations
<1> QED
    BY <1>1, <1>2

\* Duplicates and limits are reported together, and all of them.
LEMMA FullReport ==
    ASSUME NEW definition \in Definitions, definition.missing = {}
    PROVE  LET reported(kind) ==
                  {v.at : v \in {w \in Violations(definition) : w.kind = kind}}
           IN  /\ reported("conflict") =
                     {t \in ToSet(definition.replies) : t \in ToSet(definition.prohibited)}
               /\ reported("length") =
                     {t \in FreeTexts(definition) : Cardinality(t) > Limits.text}
               /\ (reported("size") # {}) <=> (definition.size > Limits.size)
<1> DEFINE reported(kind) == {v.at : v \in {w \in Violations(definition) : w.kind = kind}}
           conflicts == ToSet(definition.prohibited) \cap ToSet(definition.replies)
           long == {t \in FreeTexts(definition) : Cardinality(t) > Limits.text}
           full == {f \in {"triggers", "replies", "escalations"} :
                       Len(definition[f]) > Limits[f]}
           large == definition.size > Limits.size
<1>1. \A w : w \in Violations(definition) <=>
          \/ \E t \in conflicts : w = [kind |-> "conflict", at |-> t]
          \/ large /\ w = [kind |-> "size", at |-> {}]
          \/ \E f \in full : w = [kind |-> "count", at |-> {f}]
          \/ \E t \in long : w = [kind |-> "length", at |-> t]
    BY FullVerdict DEF Conflicts, LimitViolations
<1> HIDE DEF conflicts, long, full, large
<1>2. reported("conflict") = conflicts
    <2>1. ASSUME NEW t \in conflicts PROVE t \in reported("conflict")
        <3>1. PICK v : v = [kind |-> "conflict", at |-> t]
            OBVIOUS
        <3>2. v \in Violations(definition) /\ v.kind = "conflict" /\ v.at = t
            BY <1>1, <3>1
        <3> QED
            BY <3>2
    <2>2. ASSUME NEW v \in Violations(definition), v.kind = "conflict"
          PROVE  v.at \in conflicts
        BY <1>1, <2>2
    <2> QED
        BY <2>1, <2>2
<1>3. reported("length") = long
    <2>1. ASSUME NEW t \in long PROVE t \in reported("length")
        <3>1. PICK v : v = [kind |-> "length", at |-> t]
            OBVIOUS
        <3>2. v \in Violations(definition) /\ v.kind = "length" /\ v.at = t
            BY <1>1, <3>1
        <3> QED
            BY <3>2
    <2>2. ASSUME NEW v \in Violations(definition), v.kind = "length"
          PROVE  v.at \in long
        BY <1>1, <2>2
    <2> QED
        BY <2>1, <2>2
<1>4. (reported("size") # {}) <=> large
    <2>1. ASSUME large PROVE reported("size") # {}
        <3>1. PICK v : v = [kind |-> "size", at |-> {}]
            OBVIOUS
        <3>2. v \in Violations(definition) /\ v.kind = "size"
            BY <1>1, <2>1, <3>1
        <3> QED
            BY <3>2
    <2>2. ASSUME NEW v \in Violations(definition), v.kind = "size"
          PROVE  large
        BY <1>1, <2>2
    <2> QED
        BY <2>1, <2>2
<1> QED
    BY <1>2, <1>3, <1>4 DEF conflicts, long, large

\* A submission keeps the invariant: nobody has spoken yet.
LEMMA SubmitStep ==
    ASSUME DebtorIInv, NEW definition \in Definitions, Submit(definition)
    PROVE  DebtorIInv'
<1>1. /\ context = 0 /\ ~Scripted
      /\ verdict' = <<definition, Violations(definition)>>
      /\ script' = <<definition>> \/ script' = <<>>
      /\ UNCHANGED <<context, status, text, voice, turn>>
    BY DEF Submit
<1>2. text = <<>> /\ voice = <<>> /\ turn = NoTurn
    BY <1>1 DEF DebtorIInv, SpeechFollowsSession
<1>3. DebtorTypeOK'
    <2>1. script' = <<>> \/ (Scripted' /\ Script' \in Definitions)
        BY <1>1 DEF Scripted, Script
    <2> QED
        BY <1>1, <1>2, <2>1 DEF DebtorIInv, DebtorTypeOK
<1>4. SpeechFollowsSession'
    BY <1>1, <1>2 DEF SpeechFollowsSession
<1>5. VerdictIsComplete'
    BY <1>1, FullReport DEF VerdictIsComplete
<1>6. GeneratedIsClean' /\ EndingsAreObeyed'
    BY <1>1, <1>2 DEF GeneratedIsClean, EndingsAreObeyed, NoTurn
<1> QED
    BY <1>3, <1>4, <1>5, <1>6 DEF DebtorIInv

-----------------------------------------------------------------------------
(* Turns *)

\* A step after which the last turn is the same.
LEMMA SilentStep ==
    ASSUME DebtorIInv, DebtorTypeOK', SpeechFollowsSession', UNCHANGED <<script, verdict, turn>>
    PROVE  DebtorIInv'
<1>1. VerdictIsComplete'
    BY DEF DebtorIInv, VerdictIsComplete
<1>2. Scripted' = Scripted /\ Script' = Script
    BY DEF Scripted, Script
<1>3. GeneratedIsClean' /\ EndingsAreObeyed'
    BY <1>2 DEF DebtorIInv, GeneratedIsClean, EndingsAreObeyed
<1> QED
    BY <1>1, <1>3 DEF DebtorIInv

\* A turn that is answered as it should be.
LEMMA AnswerStep ==
    ASSUME DebtorIInv, DebtorTypeOK', UNCHANGED <<script, verdict>>, context' # 0,
           NEW kind, NEW message, NEW line, NEW shown, NEW ends \in BOOLEAN,
           turn' = Turn(kind, message, line, shown, ends),
           kind \in {"model", "system"} /\ Scripted =>
               \/ ~Prohibited(Script, line)
               \/ \A i \in DOMAIN SafeLines : Prohibited(Script, SafeLines[i]),
           kind = "model" /\ Scripted => ~Ending(message),
           ends /\ Scripted => Ending(message)
    PROVE  DebtorIInv'
<1>1. /\ turn'.kind = kind /\ turn'.message = message /\ turn'.line = line
      /\ turn'.ends = ends
    BY DEF Turn
<1>2. Scripted' = Scripted /\ Script' = Script
    BY DEF Scripted, Script
<1>3. VerdictIsComplete'
    BY DEF DebtorIInv, VerdictIsComplete
<1>4. SpeechFollowsSession'
    BY DEF SpeechFollowsSession
<1>5. GeneratedIsClean'
    BY <1>1, <1>2 DEF GeneratedIsClean
<1>6. EndingsAreObeyed'
    <2> SUFFICES ASSUME Scripted
                 PROVE  /\ kind = "model" => ~Ending(message)
                        /\ ends => Ending(message)
                        /\ \A told \in Instructions(Script, message) :
                               told \in ToSet(Script.escalations) => ~told.ends
        BY <1>1, <1>2 DEF EndingsAreObeyed, Ending
    <2>1. Script \in Definitions
        BY DEF DebtorIInv, DebtorTypeOK, Scripted
    <2> QED
        BY <2>1, ToldIsHarmless
<1> QED
    BY <1>3, <1>4, <1>5, <1>6 DEF DebtorIInv

\* A new session keeps the invariant.
LEMMA CreateSessionStep ==
    ASSUME DebtorIInv, NEW named \in Personas, CreateSession(named)
    PROVE  DebtorIInv'
<1>1. /\ context = 0 /\ context' = PersonaMood(named)
      /\ UNCHANGED <<script, verdict, status, text, voice, turn>>
    BY DEF CreateSession
<1>2. context' \in Moods /\ context' # 0
    BY <1>1 DEF PersonaMood, Moods, Neutral
<1>3. DebtorTypeOK' /\ SpeechFollowsSession'
    BY <1>1, <1>2 DEF DebtorIInv, DebtorTypeOK, SpeechFollowsSession, Scripted, Script
<1> QED
    BY <1>1, <1>3, SilentStep

\* Calls begin and end and a process restarts without a word.
LEMMA PersonasComeAndGo ==
    ASSUME DebtorIInv, StartCall \/ EndCall \/ Restart
    PROVE  DebtorIInv'
<1>1. /\ UNCHANGED <<script, verdict, context, status, turn>>
      /\ text' = text \/ text' = <<>>
      /\ voice' \in {voice, <<>>} \/ voice' = <<[mood |-> context, count |-> 0]>>
      /\ context # 0
    BY DEF StartCall, EndCall, Restart, DebtorIInv, SpeechFollowsSession
<1>2. context \in Moods
    BY <1>1 DEF DebtorIInv, DebtorTypeOK
<1>3. voice' = <<>> \/ voice'[1] \in [mood : Moods, count : 0..1]
    BY <1>1, <1>2 DEF DebtorIInv, DebtorTypeOK
<1>4. DebtorTypeOK' /\ SpeechFollowsSession'
    BY <1>1, <1>3 DEF DebtorIInv, DebtorTypeOK, SpeechFollowsSession, Scripted, Script
<1> QED
    BY <1>1, <1>4, SilentStep

\* An answer of the text endpoint keeps the invariant.
LEMMA SendMessageStep ==
    ASSUME DebtorIInv, NEW system \in BOOLEAN, NEW message, NEW answers \in Answers,
           SendMessage(system, message, answers)
    PROVE  DebtorIInv'
<1>1. context # 0 /\ status' = "active" /\ UNCHANGED <<script, verdict, context, voice>>
    BY DEF SendMessage
<1>2. PICK persona : persona = TextPersona
    OBVIOUS
<1>3. persona \in [mood : Moods, spoken : BOOLEAN] /\ persona.mood \in Moods
    BY <1>1, <1>2 DEF DebtorIInv, DebtorTypeOK, TextPersona
<1>4. PICK first \in BOOLEAN : first = TextIsFirst
    BY DEF TextIsFirst
<1>5. PICK kind : kind = TextAnswer(first, system, message)
    OBVIOUS
<1>6. /\ kind \in {"opening", "escalation", "goal", "model"}
      /\ kind \in {"escalation", "goal"} => Ending(message)
      /\ kind = "model" /\ Scripted /\ ~system => ~Ending(message)
    BY <1>5, TextChoice
<1>7. ASSUME text' = <<>> \/ (\E row \in [mood : Moods, spoken : BOOLEAN] : text' = <<row>>)
      PROVE  DebtorTypeOK'
    <2>1. text' = <<>> \/ text'[1] \in [mood : Moods, spoken : BOOLEAN]
        BY <1>7
    <2> QED
        BY <1>1, <2>1 DEF DebtorIInv, DebtorTypeOK, Scripted, Script
<1>8. CASE TextScripted(system, message)
    <2>1. PICK line : line = ScriptedLine(kind, message)
        OBVIOUS
    <2>2. PICK ends \in BOOLEAN : ends = (kind # "opening")
        OBVIOUS
    <2>3. /\ kind # "model" /\ turn' = Turn(kind, message, line, line, ends)
          /\ text' = IF kind = "opening"
                     THEN <<[persona EXCEPT !.spoken = TRUE]>> ELSE <<>>
        BY <1>2, <1>4, <1>5, <1>8, <2>1, <2>2 DEF TextScripted
    <2>4. [persona EXCEPT !.spoken = TRUE] \in [mood : Moods, spoken : BOOLEAN]
        BY <1>3
    <2>5. DebtorTypeOK'
        BY <1>7, <2>3, <2>4
    <2>6. kind \notin {"model", "system"}
        BY <1>6, <2>3
    <2>7. ends => Ending(message)
        BY <1>6, <2>2, <2>3
    <2> QED
        BY <1>1, <2>3, <2>5, <2>6, <2>7, AnswerStep
<1>9. CASE TextModel(system, message, answers)
    <2>1. PICK line : line = Reply(Script, answers)
        OBVIOUS
    <2>2. PICK mood : mood = NextMood(persona.mood, Script.rules, message)
        OBVIOUS
    <2>3. PICK ends \in BOOLEAN : ends = HangsUp(line)
        BY DEF HangsUp
    <2>4. PICK how : how = IF system THEN "system" ELSE "model"
        OBVIOUS
    <2>5. PICK shown : shown = Shown(line)
        OBVIOUS
    <2>6. /\ kind = "model" /\ turn' = Turn(how, message, line, shown, ends)
          /\ text' = IF ends THEN <<>> ELSE <<[mood |-> mood, spoken |-> TRUE]>>
        BY <1>2, <1>4, <1>5, <1>9, <2>1, <2>2, <2>3, <2>4, <2>5 DEF TextModel
    <2>7. [mood |-> mood, spoken |-> TRUE] \in [mood : Moods, spoken : BOOLEAN]
        BY <1>3, <2>2, MoodsStay
    <2>8. DebtorTypeOK'
        BY <1>7, <2>6, <2>7
    <2>9. \/ ~Prohibited(Script, line)
          \/ \A i \in DOMAIN SafeLines : Prohibited(Script, SafeLines[i])
        BY <2>1, ReplyIsChecked
    <2>10. how = "model" /\ Scripted => ~Ending(message)
        BY <1>6, <2>4, <2>6
    <2>11. ends => ~Scripted
        BY <2>3 DEF HangsUp
    <2> QED
        BY <1>1, <2>6, <2>8, <2>9, <2>10, <2>11, AnswerStep
<1> QED
    BY <1>8, <1>9 DEF SendMessage

\* An answer over voice keeps the invariant.
LEMMA UtteranceStep ==
    ASSUME DebtorIInv, NEW message, NEW answers \in Answers, NEW spoken \in BOOLEAN,
           Utterance(message, answers, spoken)
    PROVE  DebtorIInv'
<1>1. voice # <<>> /\ UNCHANGED <<script, verdict, context, status, text>>
    BY DEF Utterance
<1>2. context # 0
    BY <1>1 DEF DebtorIInv, SpeechFollowsSession
<1>3. PICK persona : persona = voice[1]
    OBVIOUS
<1>4. persona \in [mood : Moods, count : 0..1]
    BY <1>1, <1>3 DEF DebtorIInv, DebtorTypeOK
<1>5. PICK count : count = Counted(spoken)
    OBVIOUS
<1>6. count \in 0..1
    BY <1>3, <1>4, <1>5 DEF Counted
<1>7. PICK kind : kind = VoiceAnswer(persona.count, message)
    OBVIOUS
<1>8. /\ kind \in {"opening", "escalation", "goal", "model"}
      /\ kind \in {"escalation", "goal"} => Ending(message)
      /\ kind = "model" /\ Scripted => ~Ending(message)
    BY <1>7, VoiceChoice
<1>9. ASSUME voice' = <<>> \/ (\E row \in [mood : Moods, count : 0..1] : voice' = <<row>>)
      PROVE  DebtorTypeOK'
    <2>1. voice' = <<>> \/ voice'[1] \in [mood : Moods, count : 0..1]
        BY <1>9
    <2> QED
        BY <1>1, <2>1 DEF DebtorIInv, DebtorTypeOK, Scripted, Script
<1>10. CASE VoiceScripted(message, spoken)
    <2>1. PICK line : line = ScriptedLine(kind, message)
        OBVIOUS
    <2>2. PICK ends \in BOOLEAN : ends = (kind # "opening")
        OBVIOUS
    <2>3. /\ kind # "model" /\ turn' = Turn(kind, message, line, line, ends)
          /\ voice' = IF kind = "opening"
                      THEN <<[persona EXCEPT !.count = count]>> ELSE <<>>
        BY <1>3, <1>5, <1>7, <1>10, <2>1, <2>2 DEF VoiceScripted
    <2>4. [persona EXCEPT !.count = count] \in [mood : Moods, count : 0..1]
        BY <1>4, <1>6
    <2>5. DebtorTypeOK'
        BY <1>9, <2>3, <2>4
    <2>6. kind \notin {"model", "system"}
        BY <1>8, <2>3
    <2>7. ends => Ending(message)
        BY <1>8, <2>2, <2>3
    <2> QED
        BY <1>1, <1>2, <2>3, <2>5, <2>6, <2>7, AnswerStep
<1>11. CASE VoiceModel(message, answers, spoken)
    <2>1. PICK line : line = Reply(Script, answers)
        OBVIOUS
    <2>2. PICK mood : mood = NextMood(persona.mood, Script.rules, message)
        OBVIOUS
    <2>3. PICK ends \in BOOLEAN : ends = FALSE
        OBVIOUS
    <2>4. /\ kind = "model" /\ turn' = Turn(kind, message, line, line, ends)
          /\ voice' = <<[mood |-> mood, count |-> count]>>
        BY <1>3, <1>5, <1>7, <1>11, <2>1, <2>2, <2>3 DEF VoiceModel
    <2>5. [mood |-> mood, count |-> count] \in [mood : Moods, count : 0..1]
        BY <1>4, <1>6, <2>2, MoodsStay
    <2>6. DebtorTypeOK'
        BY <1>9, <2>4, <2>5
    <2>7. \/ ~Prohibited(Script, line)
          \/ \A i \in DOMAIN SafeLines : Prohibited(Script, SafeLines[i])
        BY <2>1, ReplyIsChecked
    <2> QED
        BY <1>1, <1>2, <1>8, <2>3, <2>4, <2>6, <2>7, AnswerStep
<1> QED
    BY <1>10, <1>11 DEF Utterance

-----------------------------------------------------------------------------
(* The theorems *)

\* The invariant holds before anything is submitted.
LEMMA DebtorStarts == DebtorInit => DebtorIInv
BY DEF DebtorInit, DebtorIInv, DebtorTypeOK, SpeechFollowsSession, VerdictIsComplete,
       GeneratedIsClean, EndingsAreObeyed, Scripted, NoTurn

\* Every step of the debtor's keeps it.
LEMMA DebtorKeeps == DebtorIInv /\ [DebtorNext]_debtorVars => DebtorIInv'
<1> SUFFICES ASSUME DebtorIInv, [DebtorNext]_debtorVars PROVE DebtorIInv'
    OBVIOUS
<1>1. CASE UNCHANGED debtorVars
    <2>1. DebtorTypeOK' /\ SpeechFollowsSession' /\ UNCHANGED <<script, verdict, turn>>
        BY <1>1 DEF debtorVars, DebtorIInv, DebtorTypeOK, SpeechFollowsSession, Scripted, Script
    <2> QED
        BY <2>1, SilentStep
<1> QED
    BY <1>1, SubmitStep, CreateSessionStep, SendMessageStep, UtteranceStep,
       PersonasComeAndGo DEF DebtorNext

\* What the debtor says follows the script of its session, whatever transport
\* carries it and whatever the model answers (api/sessions.py:
\* _send_message_locked; voice_pipeline.py: _process_utterance).
THEOREM DebtorInvariance == DebtorSpec => []DebtorIInv
<1> QED
    BY DebtorStarts, DebtorKeeps, PTL DEF DebtorSpec

\* Personas keep a mood of the scale, only an accepted definition is pinned.
THEOREM DebtorTypes == DebtorSpec => []DebtorTypeOK
<1>1. DebtorIInv => DebtorTypeOK
    BY DEF DebtorIInv
<1> QED
    BY <1>1, DebtorInvariance, PTL

\* validate_script reports every conflict and every exceeded limit at once, of
\* any definition whose fields are in order.
THEOREM CompleteVerdict == DebtorSpec => []VerdictIsComplete
<1>1. DebtorIInv => VerdictIsComplete
    BY DEF DebtorIInv
<1> QED
    BY <1>1, DebtorInvariance, PTL

\* Whatever the model answers, no line of a scripted turn contains what the
\* script prohibits, unless it prohibits all safe lines
\* (_select_safe_debtor_response).
THEOREM CleanLines == DebtorSpec => []GeneratedIsClean
<1>1. DebtorIInv => GeneratedIsClean
    BY DEF DebtorIInv
<1> QED
    BY <1>1, DebtorInvariance, PTL

\* A scripted call ends only by what its script says ends it, over text and
\* over voice, and the model is never asked to answer such a message
\* (_send_message_locked; _process_utterance).
THEOREM ObeyedEndings == DebtorSpec => []EndingsAreObeyed
<1>1. DebtorIInv => EndingsAreObeyed
    BY DEF DebtorIInv
<1> QED
    BY <1>1, DebtorInvariance, PTL

\* The two transports, which decide independently of each other, choose the
\* same kind of answer to every message at the same point of a call.
THEOREM AgreeingChannels == DebtorSpec => []ChannelsAgree
<1>1. ChannelsAgree
    BY DEF ChannelsAgree, TextAnswer, VoiceAnswer
<1> QED
    BY <1>1, PTL
===============================================================================
