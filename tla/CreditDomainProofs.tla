------------------------- MODULE CreditDomainProofs -------------------------
(***************************************************************************)
(* What the statements on the credit tables preserve, whoever executes      *)
(* them: facts about one database image, cited by the proofs about the      *)
(* modules that change it.  Sums over finite sets come first: that they     *)
(* exist, and how one more or one changed member changes them, is shown by  *)
(* looking at a smallest counterexample.                                    *)
(***************************************************************************)
EXTENDS CreditDomain, FiniteSetsExt, FiniteSetTheorems, TLAPS

-----------------------------------------------------------------------------
(* Sums over finite sets *)

Pick(s) == CHOOSE x \in s : TRUE

\* f sums the weights w over every subset of S, the way MapThenSumSet does.
Sums(w, S, f) ==
    f = [s \in SUBSET S |->
            IF s = {} THEN 0 ELSE w[Pick(s)] + f[s \ {Pick(s)}]]

Total(w, S) == MapThenSumSet(LAMBDA x : w[x], S)

LEMMA PickIsIn == \A s : s # {} => Pick(s) \in s
BY DEF Pick

\* Induction on finite sets, as the existence of a smallest counterexample.
LEMMA SmallestCounterexample ==
    ASSUME NEW S, IsFiniteSet(S), NEW Bad \in SUBSET SUBSET S, Bad # {}
    PROVE  \E V \in Bad : /\ IsFiniteSet(V)
                          /\ \A U \in Bad : U \subseteq V => U = V
<1>1. FiniteSubsetsOf(S) = SUBSET S
  BY FS_FiniteSubsetsOfFinite
<1>2. IsWellFoundedOn(StrictSubsetOrdering(S), FiniteSubsetsOf(S))
  BY FS_StrictSubsetOrderingWellFounded
<1>3. PICK V \in Bad : \A U \in Bad : <<U, V>> \notin StrictSubsetOrdering(S)
  <2>1. Bad \subseteq FiniteSubsetsOf(S)
    BY <1>1
  <2> QED
    BY <1>2, <2>1, WFMin
<1>4. IsFiniteSet(V)
  BY FS_Subset
<1> QED
  BY <1>3, <1>4 DEF StrictSubsetOrdering

\* Two such functions agree on a set on which their weights do.
LEMMA SumsAgree ==
    ASSUME NEW S, NEW T, NEW v, NEW w, NEW f, NEW g,
           Sums(v, S, f), Sums(w, T, g),
           NEW C, IsFiniteSet(C), C \subseteq S, C \subseteq T,
           \A x \in C : v[x] = w[x]
    PROVE  f[C] = g[C]
<1> DEFINE Bad == {V \in SUBSET C : f[V] # g[V]}
<1>1. SUFFICES ASSUME Bad # {} PROVE FALSE
  OBVIOUS
<1>2. PICK V \in Bad : \A U \in Bad : U \subseteq V => U = V
  <2>1. Bad \in SUBSET SUBSET C
    OBVIOUS
  <2> HIDE DEF Bad
  <2> QED
    BY <1>1, <2>1, SmallestCounterexample
<1>3. /\ V \in SUBSET S /\ V \in SUBSET T
      /\ f[V] = IF V = {} THEN 0 ELSE v[Pick(V)] + f[V \ {Pick(V)}]
      /\ g[V] = IF V = {} THEN 0 ELSE w[Pick(V)] + g[V \ {Pick(V)}]
  BY DEF Sums
<1>4. V # {} /\ Pick(V) \in V
  BY <1>3, PickIsIn
<1>5. f[V \ {Pick(V)}] = g[V \ {Pick(V)}]
  BY <1>2, <1>4
<1> QED
  BY <1>3, <1>4, <1>5

LEMMA SumsExist ==
    ASSUME NEW S, IsFiniteSet(S), NEW w
    PROVE  \E f : Sums(w, S, f)
<1> DEFINE Bad == {V \in SUBSET S : ~ \E f : Sums(w, V, f)}
<1>1. SUFFICES ASSUME Bad # {} PROVE FALSE
  BY <1>1
<1>2. PICK V \in Bad : \A U \in Bad : U \subseteq V => U = V
  <2>1. Bad \in SUBSET SUBSET S
    OBVIOUS
  <2> HIDE DEF Bad
  <2> QED
    BY <1>1, <2>1, SmallestCounterexample
<1> DEFINE G(U) == CHOOSE f : Sums(w, U, f)
           h == [s \in SUBSET V |-> IF s = {} THEN 0
                   ELSE w[Pick(s)] + G(s \ {Pick(s)})[s \ {Pick(s)}]]
<1>3. \A U \in SUBSET V : U # V => Sums(w, U, G(U))
  BY <1>2
<1>4. \A U \in SUBSET V : U # V => h[U] = G(U)[U]
  <2> SUFFICES ASSUME NEW U \in SUBSET V, U # V PROVE h[U] = G(U)[U]
    OBVIOUS
  <2>1. Sums(w, U, G(U))
    BY <1>3
  <2>2. G(U)[U] = IF U = {} THEN 0 ELSE w[Pick(U)] + G(U)[U \ {Pick(U)}]
    <3> HIDE DEF G
    <3> QED
      BY <2>1 DEF Sums
  <2>3. CASE U = {}
    BY <2>2, <2>3
  <2>4. CASE U # {}
    <3> DEFINE W == U \ {Pick(U)}
    <3>1. W \in SUBSET V /\ W # V /\ W \subseteq U /\ IsFiniteSet(W)
      <4>1. IsFiniteSet(V)
        BY FS_Subset
      <4> QED
        BY <2>4, <4>1, PickIsIn, FS_Subset
    <3>2. Sums(w, W, G(W))
      BY <1>3, <3>1
    <3>3. G(U)[W] = G(W)[W]
      <4> HIDE DEF G, W
      <4> QED
        BY <2>1, <3>1, <3>2, SumsAgree
    <3> QED
      BY <2>2, <2>4, <3>3
  <2> QED
    BY <2>3, <2>4
<1>5. \A s \in SUBSET V :
         h[s] = IF s = {} THEN 0 ELSE w[Pick(s)] + h[s \ {Pick(s)}]
  <2>1. ASSUME NEW s \in SUBSET V, s = {} PROVE h[s] = 0
    BY <2>1
  <2>2. ASSUME NEW s \in SUBSET V, s # {}
        PROVE  h[s] = w[Pick(s)] + h[s \ {Pick(s)}]
    <3>1. s \ {Pick(s)} \in SUBSET V /\ s \ {Pick(s)} # V
      BY <2>2, PickIsIn
    <3>2. h[s] = w[Pick(s)] + G(s \ {Pick(s)})[s \ {Pick(s)}]
      BY <2>2
    <3> QED
      BY <3>1, <3>2, <1>4
  <2> HIDE DEF h
  <2> QED
    BY <2>1, <2>2
<1>6. Sums(w, V, h)
  <2> h = [s \in SUBSET V |-> h[s]]
    OBVIOUS
  <2> HIDE DEF h
  <2> QED
    BY <1>5 DEF Sums
<1> QED
  BY <1>6

\* Total obeys the recursion, whatever element is taken first.
LEMMA TotalIsSum ==
    ASSUME NEW w, NEW S, IsFiniteSet(S)
    PROVE  \E f : Sums(w, S, f) /\ Total(w, S) = f[S]
<1>1. Total(w, S) = (CHOOSE f : Sums(w, S, f))[S]
  BY DEF Total, MapThenSumSet, MapThenFoldSet, Sums, Pick
<1> QED
  BY <1>1, SumsExist

\* Totals depend on the weights of their elements only.
LEMMA TotalAgrees ==
    ASSUME NEW S, IsFiniteSet(S), NEW v, NEW w, \A x \in S : v[x] = w[x]
    PROVE  Total(v, S) = Total(w, S)
<1>1. PICK f : Sums(v, S, f) /\ Total(v, S) = f[S]
  BY TotalIsSum
<1>2. PICK g : Sums(w, S, g) /\ Total(w, S) = g[S]
  BY TotalIsSum
<1> QED
  BY <1>1, <1>2, SumsAgree

LEMMA TotalUnfolds ==
    ASSUME NEW S, IsFiniteSet(S), NEW w
    PROVE  Total(w, S) = IF S = {} THEN 0
                         ELSE w[Pick(S)] + Total(w, S \ {Pick(S)})
<1>1. PICK f : Sums(w, S, f) /\ Total(w, S) = f[S]
  BY TotalIsSum
<1>2. f[S] = IF S = {} THEN 0 ELSE w[Pick(S)] + f[S \ {Pick(S)}]
  BY <1>1 DEF Sums
<1> DEFINE T == S \ {Pick(S)}
<1>3. IsFiniteSet(T)
  BY FS_Subset
<1>4. PICK g : Sums(w, T, g) /\ Total(w, T) = g[T]
  BY <1>3, TotalIsSum
<1>5. f[T] = g[T]
  <2>1. T \subseteq S
    OBVIOUS
  <2> HIDE DEF T
  <2> QED
    BY <2>1, <1>1, <1>3, <1>4, SumsAgree
<1> QED
  BY <1>1, <1>2, <1>4, <1>5

\* A set closed under addition contains the totals of its elements.
LEMMA TotalIsIn ==
    ASSUME NEW S, IsFiniteSet(S), NEW w, NEW D,
           0 \in D, \A m, n \in D : m + n \in D, \A x \in S : w[x] \in D
    PROVE  Total(w, S) \in D
<1> DEFINE Bad == {V \in SUBSET S : Total(w, V) \notin D}
<1>1. SUFFICES ASSUME Bad # {} PROVE FALSE
  BY <1>1
<1>2. PICK V \in Bad : IsFiniteSet(V) /\ \A U \in Bad : U \subseteq V => U = V
  <2>1. Bad \in SUBSET SUBSET S
    OBVIOUS
  <2> HIDE DEF Bad
  <2> QED
    BY <1>1, <2>1, SmallestCounterexample
<1>3. Total(w, V) = IF V = {} THEN 0 ELSE w[Pick(V)] + Total(w, V \ {Pick(V)})
  BY <1>2, TotalUnfolds
<1>4. V # {} /\ Pick(V) \in V
  BY <1>3, PickIsIn
<1>5. Total(w, V \ {Pick(V)}) \in D
  BY <1>2, <1>4
<1> QED
  BY <1>3, <1>4, <1>5

LEMMA TotalIsInt ==
    ASSUME NEW S, IsFiniteSet(S), NEW w, \A x \in S : w[x] \in Int
    PROVE  Total(w, S) \in Int
<1>1. 0 \in Int /\ \A m, n \in Int : m + n \in Int
  OBVIOUS
<1> QED
  BY <1>1, TotalIsIn

LEMMA TotalIsNat ==
    ASSUME NEW S, IsFiniteSet(S), NEW w, \A x \in S : w[x] \in Nat
    PROVE  Total(w, S) \in Nat
<1>1. 0 \in Nat /\ \A m, n \in Nat : m + n \in Nat
  OBVIOUS
<1> QED
  BY <1>1, TotalIsIn

\* It does not matter which element is added first.
LEMMA TotalAdds ==
    ASSUME NEW S, IsFiniteSet(S), NEW w, \A x \in S : w[x] \in Int,
           NEW x \in S
    PROVE  Total(w, S) = w[x] + Total(w, S \ {x})
<1> DEFINE Bad == {V \in SUBSET S : \E y \in V : Total(w, V) # w[y] + Total(w, V \ {y})}
<1>1. SUFFICES ASSUME Bad # {} PROVE FALSE
  OBVIOUS
<1>2. PICK V \in Bad : IsFiniteSet(V) /\ \A U \in Bad : U \subseteq V => U = V
  <2>1. Bad \in SUBSET SUBSET S
    OBVIOUS
  <2> HIDE DEF Bad
  <2> QED
    BY <1>1, <2>1, SmallestCounterexample
<1>3. PICK y \in V : Total(w, V) # w[y] + Total(w, V \ {y})
  BY <1>2
<1> DEFINE z == Pick(V)
<1>4. z \in V /\ Total(w, V) = w[z] + Total(w, V \ {z})
  BY <1>2, TotalUnfolds, PickIsIn
<1> HIDE DEF z
<1>5. z # y
  BY <1>3, <1>4
<1> DEFINE W == V \ {y, z}
<1>6. W \in SUBSET S /\ IsFiniteSet(W)
  BY <1>2, FS_Subset
<1>7. Total(w, V \ {z}) = w[y] + Total(w, W)
  <2>1. V \ {z} \notin Bad /\ (V \ {z}) \ {y} = W
    BY <1>2, <1>4
  <2> QED
    BY <2>1, <1>3, <1>5
<1>8. Total(w, V \ {y}) = w[z] + Total(w, W)
  <2>1. V \ {y} \notin Bad /\ (V \ {y}) \ {z} = W
    BY <1>2, <1>3
  <2> QED
    BY <2>1, <1>4, <1>5
<1>9. w[y] \in Int /\ w[z] \in Int /\ Total(w, W) \in Int
  BY <1>4, <1>6, TotalIsInt
<1> HIDE DEF W
<1> QED
  BY <1>3, <1>4, <1>7, <1>8, <1>9
\* x joins S to make T; the weights, w before and v after, agree on S.
Joins(x, S, T, v, w) ==
    /\ IsFiniteSet(S) /\ x \notin S /\ T = S \cup {x}
    /\ \A y \in S : w[y] \in Int /\ v[y] = w[y]
    /\ v[x] \in Int

\* A total before and after an element joins its set, or leaves it.
LEMMA TotalGrows ==
    ASSUME NEW S, NEW T, NEW x, NEW v, NEW w, Joins(x, S, T, v, w)
    PROVE  /\ IsFiniteSet(T)
           /\ Total(w, S) \in Int
           /\ Total(v, T) = Total(w, S) + v[x]
<1> USE DEF Joins
<1>1. IsFiniteSet(T) /\ T \ {x} = S /\ x \in T /\ \A y \in T : v[y] \in Int
  BY FS_AddElement
<1>2. Total(v, T) = v[x] + Total(v, S)
  BY <1>1, TotalAdds
<1>3. Total(v, S) = Total(w, S) /\ Total(w, S) \in Int
  BY TotalAgrees, TotalIsInt
<1> QED
  BY <1>1, <1>2, <1>3

-----------------------------------------------------------------------------
(* The statements *)

\* The rows that the operations build obey the sign rules of the domain.
LEMMA TransactionTypes ==
    ASSUME NEW a \in Accounts, NEW note \in Notes
    PROVE  /\ \A m \in Amounts : m \in Nat /\ m > 0
           /\ \A m \in Int : m > 0 =>
                Transaction("ADMIN_GRANT", a, m, NoRequest, note) \in CreditTransaction
           /\ \A m \in Int : m # 0 =>
                Transaction("ADJUSTMENT", a, m, NoRequest, note) \in CreditTransaction
           /\ \A m \in Int, r \in Requests : m > 0 =>
                /\ Transaction("USAGE", a, -m, r, note) \in CreditTransaction
                /\ Transaction("REFUND", a, m, r, note) \in CreditTransaction
  BY AmountsAreCredits, NoRequestIsNull
     DEF Transaction, CreditTransaction, TransactionType, KeyedTypes

\* Appending a row keeps the image well typed and the other rows where they were.
LEMMA AppendTransactionTypes ==
    ASSUME NEW d \in Database, NEW t \in CreditTransaction
    PROVE  LET e == AppendTransaction(d, t)
           IN  /\ e \in Database
               /\ e.idempotency = d.idempotency
               /\ Len(e.transactions) = Len(d.transactions) + 1
               /\ \A n \in 1..Len(d.transactions) :
                    e.transactions[n] = d.transactions[n]
               /\ e.transactions[Len(d.transactions) + 1] = t
               /\ e.balance[t.account] = d.balance[t.account] + t.amount
               /\ \A a \in Accounts \ {t.account} : e.balance[a] = d.balance[a]
  <1> DEFINE e == AppendTransaction(d, t)
  <1>1. /\ d.transactions \in Seq(CreditTransaction)
        /\ d.idempotency \in [Keys -> Nat]
        /\ d.balance \in [Accounts -> Int]
    BY DEF Database
  <1>2. t.account \in Accounts /\ t.amount \in Int
    BY DEF CreditTransaction
  <1>3. /\ e.transactions = Append(d.transactions, t)
        /\ e.idempotency = d.idempotency
        /\ e.balance = [d.balance EXCEPT ![t.account] = @ + t.amount]
    BY DEF AppendTransaction
  <1>4. e \in Database
    BY <1>1, <1>2 DEF AppendTransaction, Database
  <1> HIDE DEF e
  <1>5. /\ Len(e.transactions) = Len(d.transactions) + 1
        /\ \A n \in 1..Len(d.transactions) :
             e.transactions[n] = d.transactions[n]
        /\ e.transactions[Len(d.transactions) + 1] = t
    BY <1>1, <1>3
  <1>6. /\ e.balance[t.account] = d.balance[t.account] + t.amount
        /\ \A a \in Accounts \ {t.account} : e.balance[a] = d.balance[a]
    BY <1>1, <1>2, <1>3
  <1> QED
    BY <1>3, <1>4, <1>5, <1>6 DEF e

\* A row without a key leaves the idempotency table in agreement with the log.
LEMMA UnkeyedAppend ==
    ASSUME NEW d \in Database, NEW t \in CreditTransaction,
           KeysMatch(d), t.type \notin KeyedTypes
    PROVE  LET e == AppendTransaction(d, t)
           IN  e \in Database /\ KeysMatch(e) /\ Extends(e, d)
  <1> DEFINE e == AppendTransaction(d, t)
  <1>1. /\ e \in Database
        /\ e.idempotency = d.idempotency
        /\ Len(e.transactions) = Len(d.transactions) + 1
        /\ \A n \in 1..Len(d.transactions) :
             e.transactions[n] = d.transactions[n]
        /\ e.transactions[Len(d.transactions) + 1] = t
    BY AppendTransactionTypes
  <1> HIDE DEF e
  <1>2. Len(d.transactions) \in Nat
    BY DEF Database
  <1>3. Extends(e, d)
    BY <1>1, <1>2 DEF Extends
  <1>4. ASSUME NEW k \in Keys, HasKey(e, k)
        PROVE  /\ e.idempotency[k] \in 1..Len(e.transactions)
               /\ KeyOf(Existing(e, k)) = k
    BY <1>1, <1>2, <1>4 DEF KeysMatch, HasKey, Existing
  <1>5. ASSUME NEW n \in 1..Len(e.transactions),
               e.transactions[n].type \in KeyedTypes
        PROVE  e.idempotency[KeyOf(e.transactions[n])] = n
    <2>1. n \in 1..Len(d.transactions)
      BY <1>1, <1>2, <1>5
    <2> QED
      BY <2>1, <1>1, <1>5 DEF KeysMatch
  <1> QED
    BY <1>1, <1>3, <1>4, <1>5 DEF KeysMatch, e

\* A keyed row under a fresh key, with its idempotency record, does too.
LEMMA KeyedAppend ==
    ASSUME NEW d \in Database, NEW t \in CreditTransaction,
           KeysMatch(d), t.type \in KeyedTypes, ~HasKey(d, KeyOf(t))
    PROVE  LET e == AppendKeyed(d, t)
           IN  /\ e \in Database /\ KeysMatch(e) /\ Extends(e, d)
               /\ e.balance = AppendTransaction(d, t).balance
               /\ e.idempotency[KeyOf(t)] = Len(d.transactions) + 1
               /\ e.transactions[Len(d.transactions) + 1] = t
               /\ \A k \in Keys \ {KeyOf(t)} : e.idempotency[k] = d.idempotency[k]
  <1> DEFINE b == AppendTransaction(d, t)
             e == AppendKeyed(d, t)
             L == Len(d.transactions)
  <1>1. /\ b \in Database
        /\ b.idempotency = d.idempotency
        /\ Len(b.transactions) = L + 1
        /\ \A n \in 1..L : b.transactions[n] = d.transactions[n]
        /\ b.transactions[L + 1] = t
    BY AppendTransactionTypes
  <1>2. L \in Nat
    BY DEF Database
  <1>3. KeyOf(t) \in Keys
    BY DEF KeyOf, Keys, CreditTransaction, KeyedTypes
  <1>4. /\ e.transactions = b.transactions
        /\ e.idempotency = [b.idempotency EXCEPT ![KeyOf(t)] = Len(b.transactions)]
        /\ e.balance = b.balance
    BY DEF AppendKeyed, AppendIdempotencyRecord
  <1>5. e = [transactions |-> b.transactions,
             idempotency |-> [b.idempotency EXCEPT ![KeyOf(t)] = Len(b.transactions)],
             balance |-> b.balance]
    BY DEF AppendKeyed, AppendIdempotencyRecord
  <1> HIDE DEF b, e
  <1>6. d.idempotency \in [Keys -> Nat] /\ b.idempotency \in [Keys -> Nat]
    BY <1>1 DEF Database
  <1>7. /\ e.idempotency[KeyOf(t)] = L + 1
        /\ \A k \in Keys \ {KeyOf(t)} : e.idempotency[k] = d.idempotency[k]
    BY <1>1, <1>2, <1>3, <1>4, <1>6
  <1>8. e \in Database
    BY <1>1, <1>2, <1>3, <1>5, <1>6 DEF Database
  <1>9. Extends(e, d)
    BY <1>1, <1>2, <1>4, <1>7 DEF Extends, HasKey
  <1>10. ASSUME NEW k \in Keys, HasKey(e, k)
         PROVE  /\ e.idempotency[k] \in 1..Len(e.transactions)
                /\ KeyOf(Existing(e, k)) = k
    <2>1. CASE k = KeyOf(t)
      BY <2>1, <1>1, <1>2, <1>4, <1>7 DEF Existing
    <2>2. CASE k # KeyOf(t)
      BY <2>2, <1>1, <1>2, <1>4, <1>7, <1>10 DEF KeysMatch, HasKey, Existing
    <2> QED
      BY <2>1, <2>2
  <1>11. ASSUME NEW n \in 1..Len(e.transactions),
                e.transactions[n].type \in KeyedTypes
         PROVE  e.idempotency[KeyOf(e.transactions[n])] = n
    <2>1. CASE n = L + 1
      BY <2>1, <1>1, <1>4, <1>7
    <2>2. CASE n # L + 1
      <3>1. n \in 1..L /\ e.transactions[n] = d.transactions[n]
        BY <2>2, <1>1, <1>2, <1>4
      <3>2. d.transactions[n] \in CreditTransaction
        BY <3>1 DEF Database
      <3>3. KeyOf(d.transactions[n]) \in Keys
        BY <3>1, <3>2, <1>11 DEF KeyOf, Keys, CreditTransaction, KeyedTypes
      <3>4. d.idempotency[KeyOf(d.transactions[n])] = n
        BY <3>1, <1>11 DEF KeysMatch
      <3>5. KeyOf(d.transactions[n]) # KeyOf(t)
        BY <3>1, <3>4 DEF HasKey, NoRow
      <3> QED
        BY <3>1, <3>3, <3>4, <3>5, <1>7
    <2> QED
      BY <2>1, <2>2
  <1> QED
    BY <1>1, <1>4, <1>7, <1>8, <1>9, <1>10, <1>11 DEF KeysMatch, b, e

-----------------------------------------------------------------------------
(* Sets of rows *)

\* Sets of positions of rows are finite.
LEMMA RowsAreFinite ==
    ASSUME NEW d \in Database, NEW S \in SUBSET (1..Len(d.transactions))
    PROVE  /\ IsFiniteSet(S)
           /\ Len(d.transactions) + 1 \notin S
           /\ \A n \in S : /\ n \in 1..Len(d.transactions)
                           /\ d.transactions[n] \in CreditTransaction
                           /\ d.transactions[n].amount \in Int
<1>1. d.transactions \in Seq(CreditTransaction) /\ Len(d.transactions) \in Nat
  BY DEF Database
<1>2. IsFiniteSet(1..Len(d.transactions))
  BY <1>1, FS_Interval
<1>3. IsFiniteSet(S)
  BY <1>2, FS_Subset
<1>4. Len(d.transactions) + 1 \notin S
  BY <1>1
<1>5. \A n \in S : d.transactions[n] \in CreditTransaction
  BY <1>1
<1> QED
  BY <1>3, <1>4, <1>5 DEF CreditTransaction
=============================================================================
