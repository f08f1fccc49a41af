--------------------------- MODULE CommentRunProofs ---------------------------
(***************************************************************************)
(* A run with any number of symbols and workers: no provider call outlives   *)
(* the stages that collect and drain them, a run that nobody cancelled has   *)
(* commented every symbol it delivers, or says in its log that it failed,    *)
(* and the insertions take nothing from the program but what shares a line   *)
(* with a comment, and put every new comment in its place.                   *)
(*                                                                          *)
(* The last is about slices of sequences and about the positions that the   *)
(* parsed source gives.  Induction over a sequence is done by looking at    *)
(* the smallest counterexample (LeastExists).                               *)
(***************************************************************************)
EXTENDS CommentRun, SequenceTheorems, WellFoundedInduction, TLAPS

\* NoWorkOutlivesTheRun is inductive once the futures are known to be a
\* function: only SubmitAll queues one, and it enters the collection stage.
PoolInv ==
    /\ future \in [Symbols -> {"none", "queued", "running", "done", "cancelled"}]
    /\ NoWorkOutlivesTheRun

\* A step that leaves the pool's futures and the stage alone.
LEMMA PoolStutters ==
    ASSUME PoolInv, UNCHANGED <<future, stage>>
    PROVE  PoolInv'
BY DEF PoolInv, NoWorkOutlivesTheRun, In

\* A step between two stages neither of which has work in the pool.
LEMMA StageChanges ==
    ASSUME PoolInv, UNCHANGED future, stage \notin {"collect", "drain"}
    PROVE  PoolInv'
BY DEF PoolInv, NoWorkOutlivesTheRun, In

\* Initially no future exists.
LEMMA PoolInit == ASSUME Init PROVE PoolInv
BY DEF Init, PoolInv, NoWorkOutlivesTheRun, In

\* Steps before the pool is created.
LEMMA BeforePool ==
    ASSUME PoolInv,
           NothingToDo \/ Parse \/ EnterTranslation \/ TranslateCall
               \/ TranslateReturns \/ EndTranslation \/ SkipGeneration
    PROVE  PoolInv'
<1>1. UNCHANGED future
  BY DEF NothingToDo, Parse, EnterTranslation, TranslateCall, TranslateReturns,
         EndTranslation, SkipGeneration, pool
<1>2. stage \notin {"collect", "drain"}
  BY DEF NothingToDo, Parse, EnterTranslation, TranslateCall, TranslateReturns,
         EndTranslation, SkipGeneration
<1> QED BY <1>1, <1>2, StageChanges

\* Steps after the pool was shut down.
LEMMA AfterPool ==
    ASSUME PoolInv,
           InsertNext \/ InsertSkips \/ InsertRaises \/ EndInsertion \/ ReportFailure
               \/ Present \/ WriteMarkdown \/ WriteSource \/ WriteFails
    PROVE  PoolInv'
<1>1. UNCHANGED future
  BY DEF InsertNext, InsertSkips, InsertRaises, EndInsertion, ReportFailure,
         Present, WriteMarkdown, WriteSource, WriteFails, pool
<1>2. stage \notin {"collect", "drain"}
  BY DEF InsertNext, InsertSkips, InsertRaises, EndInsertion, ReportFailure,
         Present, WriteMarkdown, WriteSource, WriteFails
<1> QED BY <1>1, <1>2, StageChanges

\* Creating the pool, collecting from it and shutting it down.
LEMMA DuringPool ==
    ASSUME PoolInv,
           \/ SubmitAll \/ EndCollection \/ Shutdown
           \/ \E s \in Symbols : Collect(s) \/ CancelFuture(s)
    PROVE  PoolInv'
<1>1. CASE SubmitAll
  BY <1>1 DEF SubmitAll, PoolInv, NoWorkOutlivesTheRun
<1>2. CASE EndCollection
  BY <1>2 DEF EndCollection, pool, PoolInv, NoWorkOutlivesTheRun
<1>3. CASE Shutdown
  BY <1>3 DEF Shutdown, pool, PoolInv, NoWorkOutlivesTheRun, In
<1>4. ASSUME NEW s \in Symbols, Collect(s) PROVE PoolInv'
  BY <1>4, PoolStutters DEF Collect
<1>5. ASSUME NEW s \in Symbols, CancelFuture(s) PROVE PoolInv'
  BY <1>5 DEF CancelFuture, PoolInv, NoWorkOutlivesTheRun
<1> QED BY <1>1, <1>2, <1>3, <1>4, <1>5

\* A worker can only take a future that is queued, so that the run is still
\* in its pool's stages.
LEMMA WorkerSteps ==
    ASSUME PoolInv, NEW s \in Symbols, WorkerStarts(s) \/ WorkerReturns(s)
    PROVE  PoolInv'
<1>1. stage \in {"collect", "drain"}
  BY DEF WorkerStarts, WorkerReturns, PoolInv, NoWorkOutlivesTheRun, In
<1>2. stage' = stage
  BY DEF WorkerStarts, WorkerReturns
<1>3. future' \in [Symbols -> {"none", "queued", "running", "done", "cancelled"}]
  BY DEF WorkerStarts, WorkerReturns, PoolInv
<1> QED BY <1>1, <1>2, <1>3 DEF PoolInv, NoWorkOutlivesTheRun

\* Cancelling, closing the generator and the next run.
LEMMA Surroundings ==
    ASSUME PoolInv, Cancel \/ Close \/ NextRun
    PROVE  PoolInv'
<1>1. CASE Cancel
  BY <1>1, PoolStutters DEF Cancel, pool
<1>2. CASE Close
  <2>1. UNCHANGED future
    BY <1>2 DEF Close, pool
  <2>2. CASE stage = "collect"
    BY <1>2, <2>1, <2>2 DEF Close, PoolInv, NoWorkOutlivesTheRun
  <2>3. CASE stage # "collect"
    BY <1>2, <2>1, <2>3, StageChanges DEF Close
  <2> QED BY <2>2, <2>3
<1>3. CASE NextRun
  BY <1>3 DEF NextRun, PoolInv, NoWorkOutlivesTheRun, In
<1> QED BY <1>1, <1>2, <1>3

LEMMA PoolNext == ASSUME PoolInv, [Next]_vars PROVE PoolInv'
<1>1. CASE UNCHANGED vars
  BY <1>1, PoolStutters DEF vars
<1>2. CASE Next
  BY <1>2, BeforePool, AfterPool, DuringPool, WorkerSteps, Surroundings
     DEF Next, Run, Generator, Worker
<1> QED BY <1>1, <1>2

\* However _process_*_with_progress leaves its collection loop, cancelled,
\* closed or to the end, no provider call of the run is queued or running
\* afterwards (_shutdown_executor_safe in the finally).
THEOREM NoWorkOutlives == Spec => []NoWorkOutlivesTheRun
<1>1. Init => PoolInv
  BY PoolInit
<1>2. PoolInv /\ [Next]_vars => PoolInv'
  BY PoolNext
<1>3. PoolInv => NoWorkOutlivesTheRun
  BY DEF PoolInv
<1> QED BY <1>1, <1>2, <1>3, PTL DEF Spec
-----------------------------------------------------------------------------
(* What became of each symbol *)

Handled == documented \cup failed

RunTypes ==
    /\ kind \in [Symbols -> {"none", "translate", "keep", "blank", "generate"}]
    /\ stage \notin {"idle", "ended"} => \A s \in Symbols : kind[s] # "none"
    /\ todo \subseteq Symbols
    /\ errors \subseteq failed

\* What a run that nobody cancelled has dealt with so far: each loop leaves a
\* symbol of its kind only when it is documented or marked in the log.
Progress ==
    ~token =>
        /\ stage \in {"translate", "translating"} =>
               Doing("translate") \subseteq todo \cup Handled
        /\ stage \in {"translated", "collect", "drain", "insert", "finish", "package"} =>
               Doing("translate") \subseteq Handled
        /\ (stage = "drain" /\ ~closed) \/ stage = "insert" =>
               Doing("generate") \subseteq results \cup errors
        /\ stage = "insert" => Doing("generate") \subseteq todo \cup Handled
        /\ stage \in {"finish", "package"} => Doing("generate") \subseteq Handled

Delivered ==
    /\ outcome = "result" => stage = "ended"
    /\ NothingIsLost

RunInv == RunTypes /\ Progress /\ Delivered

LEMMA RunInit == Init => RunInv
BY DEF Init, RunInv, RunTypes, Progress, Delivered, NothingIsLost

LEMMA TranslationSteps ==
    ASSUME RunInv,
           \/ NothingToDo \/ Parse \/ EnterTranslation \/ TranslateCall
           \/ TranslateReturns \/ EndTranslation
    PROVE  RunInv'
<1> USE DEF RunInv, RunTypes, Progress, Delivered, NothingIsLost, Handled, Doing,
            source, pool, document, End
<1>1. CASE NothingToDo
  BY <1>1 DEF NothingToDo
<1>2. CASE Parse
  <2>1. \A s \in Symbols : kind'[s] \in {"translate", "keep", "blank", "generate"}
    BY <1>2 DEF Parse
  <2> QED
    BY <1>2, <2>1 DEF Parse
<1>3. CASE EnterTranslation
  BY <1>3 DEF EnterTranslation
<1>4. CASE TranslateCall
  BY <1>4 DEF TranslateCall
<1>5. CASE TranslateReturns
  <2> DEFINE s == NextSymbol(todo)
  <2>1. /\ stage = "translating" /\ stage' = "translate"
        /\ todo' = todo \ {s}
        /\ \/ documented' = documented \cup {s} /\ failed' = failed
           \/ documented' = documented /\ failed' = failed \cup {s}
        /\ UNCHANGED <<token, closed, kind, results, errors, outcome>>
    BY <1>5 DEF TranslateReturns, Log
  <2> HIDE DEF s
  <2> QED
    BY <2>1
<1>6. CASE EndTranslation
  BY <1>6 DEF EndTranslation
<1> QED
  BY <1>1, <1>2, <1>3, <1>4, <1>5, <1>6

LEMMA GenerationSteps ==
    ASSUME RunInv,
           \/ SkipGeneration \/ SubmitAll \/ EndCollection \/ Shutdown
           \/ \E s \in Symbols : \/ Collect(s) \/ CancelFuture(s)
                                 \/ WorkerStarts(s) \/ WorkerReturns(s)
    PROVE  RunInv'
<1> USE DEF RunInv, RunTypes, Progress, Delivered, NothingIsLost, Handled, Doing,
            source, pool, document, End
<1>1. CASE SkipGeneration
  BY <1>1 DEF SkipGeneration
<1>2. CASE SubmitAll
  BY <1>2 DEF SubmitAll
<1>3. CASE EndCollection
  BY <1>3 DEF EndCollection
<1>4. CASE Shutdown
  BY <1>4 DEF Shutdown
<1>5. ASSUME NEW s \in Symbols, Collect(s) PROVE RunInv'
  BY <1>5 DEF Collect, Log
<1>6. ASSUME NEW s \in Symbols, CancelFuture(s) \/ WorkerStarts(s) \/ WorkerReturns(s)
      PROVE  RunInv'
  BY <1>6 DEF CancelFuture, WorkerStarts, WorkerReturns
<1> QED
  BY <1>1, <1>2, <1>3, <1>4, <1>5, <1>6

LEMMA InsertionSteps ==
    ASSUME RunInv, InsertNext \/ InsertSkips \/ InsertRaises \/ EndInsertion
    PROVE  RunInv'
<1> USE DEF RunInv, RunTypes, Progress, Delivered, NothingIsLost, Handled, Doing,
            source, pool, document, End
<1>1. CASE InsertNext
  <2> DEFINE s == NextSymbol(todo)
  <2>1. /\ stage = "insert" /\ stage' = stage
        /\ todo' = todo \ {s}
        /\ \/ documented' = documented \cup {s} /\ failed' = failed
           \/ documented' = documented /\ failed' = failed \cup {s}
        /\ UNCHANGED <<token, closed, kind, results, errors, outcome>>
    BY <1>1 DEF InsertNext, Log
  <2> HIDE DEF s
  <2> QED
    BY <2>1
<1>2. CASE InsertSkips
  <2> DEFINE s == NextSymbol(todo)
  <2>1. /\ stage = "insert" /\ stage' = stage
        /\ todo' = todo \ {s} /\ s \notin results
        /\ UNCHANGED <<token, closed, kind, results, errors, outcome, documented, failed>>
    BY <1>2 DEF InsertSkips
  <2> HIDE DEF s
  <2> QED
    BY <2>1
<1>3. CASE InsertRaises
  BY <1>3 DEF InsertRaises
<1>4. CASE EndInsertion
  BY <1>4 DEF EndInsertion
<1> QED
  BY <1>1, <1>2, <1>3, <1>4

LEMMA ResultSteps ==
    ASSUME RunInv,
           \/ ReportFailure \/ Present \/ WriteMarkdown \/ WriteSource \/ WriteFails
           \/ Cancel \/ Close \/ NextRun
    PROVE  RunInv'
<1> USE DEF RunInv, RunTypes, Progress, Delivered, NothingIsLost, Handled, Doing,
            source, pool, document, End
<1>1. CASE ReportFailure
  BY <1>1 DEF ReportFailure
<1>2. CASE Present
  BY <1>2 DEF Present
<1>3. CASE WriteMarkdown
  BY <1>3 DEF WriteMarkdown
<1>4. CASE WriteSource
  BY <1>4 DEF WriteSource
<1>5. CASE WriteFails
  BY <1>5 DEF WriteFails
<1>6. CASE Cancel
  BY <1>6 DEF Cancel
<1>7. CASE Close
  BY <1>7 DEF Close
<1>8. CASE NextRun
  BY <1>8 DEF NextRun
<1> QED
  BY <1>1, <1>2, <1>3, <1>4, <1>5, <1>6, <1>7, <1>8

LEMMA RunNext == RunInv /\ [Next]_vars => RunInv'
<1>1. ASSUME RunInv, UNCHANGED vars PROVE RunInv'
  BY <1>1 DEF vars, RunInv, RunTypes, Progress, Delivered, NothingIsLost, Handled,
              Doing
<1> QED
  BY <1>1, TranslationSteps, GenerationSteps, InsertionSteps, ResultSteps
     DEF Next, Run, Generator, Worker

\* A run that nobody cancelled and that delivers its files has every symbol
\* commented or marked as failed in its log, however its provider calls were
\* scheduled and whichever of them, of the insertions and of the syntax checks
\* failed (_process_*_with_progress).
THEOREM RunLosesNothing == Spec => []NothingIsLost
<1>1. RunInv => NothingIsLost
  BY DEF RunInv, Delivered
<1> QED
  BY RunInit, RunNext, <1>1, PTL DEF Spec
-----------------------------------------------------------------------------
(* The lines of the program in a text *)

LEMMA LeastExists ==
    ASSUME NEW S, S \subseteq Nat, S # {}
    PROVE  \E m \in S : \A k \in S : m <= k
<1>1. PICK R : R = OpToRel(<, Nat)
  OBVIOUS
<1>2. \A k, m \in Nat : <<k, m>> \in R <=> k < m
  BY <1>1 DEF OpToRel
<1>3. IsWellFoundedOn(R, Nat)
  BY <1>1, NatLessThanWellFounded
<1>4. PICK m \in S : \A k \in S : <<k, m>> \notin R
  BY <1>3, WFMin
<1>5. ASSUME NEW k \in S PROVE m <= k
  <2>1. k \in Nat /\ m \in Nat
    OBVIOUS
  <2>2. ~ (k < m)
    BY <1>2, <1>4, <2>1
  <2> QED BY <2>1, <2>2
<1> QED BY <1>5

\* The function inside Only, for the first n lines.
Gathers(t, S, f, n) ==
    f = [i \in 0..n |-> IF i = 0 THEN << >>
                        ELSE IF t[i] \in S THEN Append(f[i - 1], t[i]) ELSE f[i - 1]]

LEMMA GatheringExists ==
    ASSUME NEW t, NEW S, NEW n \in Nat
    PROVE  \E f : Gathers(t, S, f, n)
<1> SUFFICES ASSUME ~ \E f : Gathers(t, S, f, n) PROVE FALSE
  OBVIOUS
<1>1. PICK bad : bad = {k \in Nat : ~ \E f : Gathers(t, S, f, k)}
  OBVIOUS
<1>2. PICK m \in bad : \A k \in bad : m <= k
  <2>1. bad \subseteq Nat /\ n \in bad
    BY <1>1
  <2> HIDE DEF Gathers
  <2> QED BY <2>1, LeastExists
<1>3. m # 0
  <2>1. Gathers(t, S, [i \in 0..0 |-> << >>], 0)
    BY DEF Gathers
  <2> QED BY <1>1, <1>2, <2>1
<1>4. m \in Nat /\ m - 1 \in Nat /\ m - 1 \notin bad
  BY <1>1, <1>2, <1>3
<1>5. PICK f : Gathers(t, S, f, m - 1)
  BY <1>1, <1>4
<1>6. /\ DOMAIN f = 0..(m - 1)
      /\ \A i \in 0..(m - 1) :
            f[i] = IF i = 0 THEN << >>
                   ELSE IF t[i] \in S THEN Append(f[i - 1], t[i]) ELSE f[i - 1]
  BY <1>5 DEF Gathers
<1>7. PICK last : last = IF t[m] \in S THEN Append(f[m - 1], t[m]) ELSE f[m - 1]
  OBVIOUS
<1> DEFINE g == [i \in 0..m |-> IF i = m THEN last ELSE f[i]]
           h == [i \in 0..m |-> IF i = 0 THEN << >>
                 ELSE IF t[i] \in S THEN Append(g[i - 1], t[i]) ELSE g[i - 1]]
<1>8. \A i \in 0..m : g[i] = h[i]
  <2> SUFFICES ASSUME NEW i \in 0..m
               PROVE  g[i] = IF i = 0 THEN << >>
                      ELSE IF t[i] \in S THEN Append(g[i - 1], t[i]) ELSE g[i - 1]
    OBVIOUS
  <2>1. \A j \in 0..(m - 1) : g[j] = f[j]
    BY <1>4
  <2>2. g[m] = last
    BY <1>4
  <2> HIDE DEF g
  <2>3. CASE i = m
    <3>1. g[i - 1] = f[m - 1] /\ i # 0
      BY <1>3, <1>4, <2>1, <2>3
    <3> QED BY <1>7, <2>2, <2>3, <3>1
  <2>4. CASE i # m
    <3>1. i \in 0..(m - 1) /\ (i # 0 => i - 1 \in 0..(m - 1))
      BY <1>4, <2>4
    <3>2. g[i] = f[i] /\ (i # 0 => g[i - 1] = f[i - 1])
      BY <2>1, <3>1
    <3> QED BY <1>6, <3>1, <3>2
  <2> QED BY <2>3, <2>4
<1>9. g = h
  <2>1. g = [i \in 0..m |-> g[i]] /\ h = [i \in 0..m |-> h[i]]
    OBVIOUS
  <2> HIDE DEF g, h
  <2> QED BY <1>8, <2>1
<1>10. Gathers(t, S, g, m)
  <2> HIDE DEF g
  <2> QED BY <1>9 DEF Gathers
<1> QED BY <1>1, <1>2, <1>10

\* What Only gathers, line by line.
Gathered(t, S, f) ==
    /\ f[0] = << >>
    /\ \A n \in 1..Len(t) :
          f[n] = IF t[n] \in S THEN Append(f[n - 1], t[n]) ELSE f[n - 1]
    /\ Only(t, S) = f[Len(t)]

LEMMA OnlyUnfolds ==
    ASSUME NEW t, NEW S, Len(t) \in Nat
    PROVE  \E f : Gathered(t, S, f)
<1> DEFINE u == CHOOSE f : f = [n \in 0..Len(t) |-> IF n = 0 THEN << >>
                      ELSE IF t[n] \in S THEN Append(f[n - 1], t[n]) ELSE f[n - 1]]
<1>1. \E f : Gathers(t, S, f, Len(t))
  BY GatheringExists
<1>2. u = [n \in 0..Len(t) |-> IF n = 0 THEN << >>
                      ELSE IF t[n] \in S THEN Append(u[n - 1], t[n]) ELSE u[n - 1]]
  BY <1>1 DEF Gathers
<1>3. Only(t, S) = u[Len(t)]
  BY DEF Only
<1> HIDE DEF u
<1>4. \A n \in 0..Len(t) : u[n] = IF n = 0 THEN << >>
                      ELSE IF t[n] \in S THEN Append(u[n - 1], t[n]) ELSE u[n - 1]
  BY <1>2
<1>5. /\ u[0] = << >>
      /\ \A n \in 1..Len(t) :
            u[n] = IF t[n] \in S THEN Append(u[n - 1], t[n]) ELSE u[n - 1]
  BY <1>4
<1> QED BY <1>3, <1>5 DEF Gathered

\* Lines that are not in S add nothing.
Blank(t, S, a, k) == \A i \in 1..k : t[a + i] \notin S

LEMMA SkipLines ==
    ASSUME NEW t, NEW S, Len(t) \in Nat, NEW f, Gathered(t, S, f),
           NEW a \in Nat, NEW k \in Nat, NEW c \in Nat, c = a + k, c <= Len(t),
           Blank(t, S, a, k)
    PROVE  f[c] = f[a]
<1> DEFINE Same(i) == f[a + i] = f[a]
<1> SUFFICES ASSUME ~ Same(k) PROVE FALSE
  OBVIOUS
<1>1. PICK bad : bad = {i \in 0..k : ~ Same(i)}
  OBVIOUS
<1>2. PICK m \in bad : \A i \in bad : m <= i
  <2>1. bad \subseteq Nat /\ k \in bad
    BY <1>1
  <2> HIDE DEF Same
  <2> QED BY <2>1, LeastExists
<1>3. m # 0 /\ m \in 1..k
  BY <1>1, <1>2
<1>4. Same(m - 1)
  <2>1. m - 1 \in 0..k /\ m - 1 \notin bad
    BY <1>2, <1>3
  <2> HIDE DEF Same
  <2> QED BY <1>1, <2>1
<1>5. a + m \in 1..Len(t) /\ t[a + m] \notin S /\ (a + m) - 1 = a + (m - 1)
  BY <1>3 DEF Blank
<1>6. f[a + m] = f[(a + m) - 1]
  BY <1>5 DEF Gathered
<1>7. Same(m)
  BY <1>4, <1>5, <1>6
<1> HIDE DEF Same
<1> QED BY <1>1, <1>2, <1>7

\* The same lines add the same, if S and T have the same of them.
Alike(t, a, u, b, k) == \A i \in 1..k : t[a + i] = u[b + i]

Agree(t, S, T, a, k) == \A i \in 1..k : t[a + i] \in S <=> t[a + i] \in T

LEMMA SameLines ==
    ASSUME NEW t, NEW S, Len(t) \in Nat, NEW f, Gathered(t, S, f),
           NEW u, NEW T, Len(u) \in Nat, NEW g, Gathered(u, T, g),
           NEW a \in Nat, NEW b \in Nat, NEW k \in Nat,
           NEW c \in Nat, c = a + k, c <= Len(t),
           NEW d \in Nat, d = b + k, d <= Len(u),
           Alike(t, a, u, b, k), Agree(t, S, T, a, k),
           f[a] = g[b]
    PROVE  f[c] = g[d]
<1> DEFINE Same(i) == f[a + i] = g[b + i]
<1> SUFFICES ASSUME ~ Same(k) PROVE FALSE
  OBVIOUS
<1>1. PICK bad : bad = {i \in 0..k : ~ Same(i)}
  OBVIOUS
<1>2. PICK m \in bad : \A i \in bad : m <= i
  <2>1. bad \subseteq Nat /\ k \in bad
    BY <1>1
  <2> HIDE DEF Same
  <2> QED BY <2>1, LeastExists
<1>3. m # 0 /\ m \in 1..k
  <2>1. Same(0)
    OBVIOUS
  <2>2. m \in 0..k /\ ~ Same(m)
    BY <1>1, <1>2
  <2> HIDE DEF Same
  <2> QED BY <2>1, <2>2
<1>4. Same(m - 1)
  <2>1. m - 1 \in 0..k /\ m - 1 \notin bad
    BY <1>2, <1>3
  <2> HIDE DEF Same
  <2> QED BY <1>1, <2>1
<1>5. /\ a + m \in 1..Len(t) /\ (a + m) - 1 = a + (m - 1)
      /\ b + m \in 1..Len(u) /\ (b + m) - 1 = b + (m - 1)
      /\ t[a + m] = u[b + m] /\ (t[a + m] \in S <=> u[b + m] \in T)
  <2>1. t[a + m] = u[b + m] /\ (t[a + m] \in S <=> t[a + m] \in T)
    BY <1>3 DEF Alike, Agree
  <2>2. /\ a + m \in 1..Len(t) /\ (a + m) - 1 = a + (m - 1)
        /\ b + m \in 1..Len(u) /\ (b + m) - 1 = b + (m - 1)
    BY <1>3
  <2> QED BY <2>1, <2>2
<1>6. /\ f[a + m] = IF t[a + m] \in S THEN Append(f[a + (m - 1)], t[a + m])
                    ELSE f[a + (m - 1)]
      /\ g[b + m] = IF u[b + m] \in T THEN Append(g[b + (m - 1)], u[b + m])
                    ELSE g[b + (m - 1)]
  BY <1>5 DEF Gathered
<1>7. Same(m)
  BY <1>4, <1>5, <1>6
<1> HIDE DEF Same
<1> QED BY <1>1, <1>2, <1>7

-----------------------------------------------------------------------------
(* An insertion *)

Parts == {"head", "shared", "old", "new", "body"}

Line == Symbols \X Parts

\* The first n lines of t are those of u after line a.
Begins(t, u, a, n) == \A i \in 1..n : t[i] = u[a + i]

Finishes(t, a, u, n) == \A i \in 1..n : t[a + i] = u[i]

LEMMA Joined ==
    ASSUME NEW p \in Seq(Line), NEW q \in Seq(Line), NEW n \in Nat, n = Len(p) + Len(q)
    PROVE  /\ p \o q \in Seq(Line)
           /\ Len(p \o q) = n
           /\ Begins(p \o q, p, 0, Len(p))
           /\ Finishes(p \o q, Len(p), q, Len(q))
<1>1. /\ p \o q \in Seq(Line)
      /\ Len(p \o q) = Len(p) + Len(q)
      /\ \A i \in 1..(Len(p) + Len(q)) :
            (p \o q)[i] = IF i <= Len(p) THEN p[i] ELSE q[i - Len(p)]
  BY ConcatProperties
<1>2. PICK w : w = p \o q
  OBVIOUS
<1>3. PICK l \in Nat, m \in Nat : l = Len(p) /\ m = Len(q)
  BY LenProperties
<1>4. \A i \in 1..(l + m) : w[i] = IF i <= l THEN p[i] ELSE q[i - l]
  BY <1>1, <1>2, <1>3
<1>5. \A i \in 1..m : l + i \in 1..(l + m) /\ ~ (l + i <= l) /\ (l + i) - l = i
  BY <1>3
<1>6. \A i \in 1..m : w[l + i] = q[i]
  BY <1>4, <1>5
<1>7. \A i \in 1..l : w[i] = p[0 + i]
  BY <1>4
<1> QED BY <1>1, <1>2, <1>3, <1>6, <1>7 DEF Begins, Finishes

LEMMA Cut ==
    ASSUME NEW t \in Seq(Line), NEW first \in Nat \ {0}, NEW last \in Nat,
           last <= Len(t), NEW n \in Nat, n = IF first <= last THEN last - first + 1 ELSE 0
    PROVE  /\ SubSeq(t, first, last) \in Seq(Line)
           /\ Len(SubSeq(t, first, last)) = n
           /\ Begins(SubSeq(t, first, last), t, first - 1, n)
<1>1. \A i \in first..last : t[i] \in Line
  BY ElementOfSeq
<1>2. /\ SubSeq(t, first, last) \in Seq(Line)
      /\ Len(SubSeq(t, first, last)) = IF first <= last THEN last - first + 1 ELSE 0
      /\ \A i \in 1..(last - first + 1) : SubSeq(t, first, last)[i] = t[first + i - 1]
  BY <1>1, SubSeqProperties
<1>3. \A i \in 1..n : i \in 1..(last - first + 1) /\ first + i - 1 = (first - 1) + i
  OBVIOUS
<1>4. PICK w : w = SubSeq(t, first, last)
  OBVIOUS
<1>5. \A i \in 1..n : w[i] = t[(first - 1) + i]
  BY <1>2, <1>3, <1>4
<1> QED BY <1>2, <1>4, <1>5 DEF Begins

\* u is t with the n lines after line a replaced by a new comment for s.
Replaces(t, u, s, a, n) ==
    /\ t \in Seq(Line) /\ u \in Seq(Line)
    /\ a \in Nat /\ n \in Nat /\ a + n <= Len(t)
    /\ Len(u) = Len(t) - n + NewLength
    /\ \A i \in 1..a : u[i] = t[i]
    /\ \A i \in 1..NewLength : u[a + i] = <<s, "new">>
    /\ Alike(t, a + n, u, a + NewLength, Len(t) - (a + n))

\* Of the lines in C, an insertion takes away those in X and no other, if the
\* lines that it replaces are in X or not in C, and all that are in X.
LEMMA ReplacingKeepsLines ==
    ASSUME NEW t, NEW u, NEW s, NEW a, NEW n, Replaces(t, u, s, a, n),
           NEW C, NEW X, <<s, "new">> \notin C, Blank(t, C \ X, a, n),
           Blank(t, X, 0, a), Blank(t, X, a + n, Len(t) - (a + n))
    PROVE  Only(u, C) = Only(t, C \ X)
<1>1. /\ Len(t) \in Nat /\ Len(u) \in Nat /\ a \in Nat /\ n \in Nat /\ NewLength \in Nat
      /\ a + n <= Len(t) /\ Len(u) = Len(t) - n + NewLength
  BY SizesAreNatural DEF Replaces
<1>2. PICK D : D = C \ X
  OBVIOUS
<1>3. PICK f : Gathered(t, D, f)
  BY <1>1, OnlyUnfolds
<1>4. PICK g : Gathered(u, C, g)
  BY <1>1, OnlyUnfolds
<1>5. PICK k \in Nat : k = Len(t) - (a + n)
  <2>1. \A x, y, z \in Nat : y + z <= x => x - (y + z) \in Nat
    OBVIOUS
  <2> QED BY <1>1, <2>1
<1>6. PICK c \in Nat, e \in Nat : c = a + n /\ e = a + NewLength
  BY <1>1
<1>7. f[a] = g[a]
  <2>1. f[0] = g[0]
    BY <1>3, <1>4 DEF Gathered
  <2>2. 0 \in Nat /\ a = 0 + a /\ a <= Len(t) /\ a <= Len(u)
    BY <1>1
  <2>3. Alike(t, 0, u, 0, a)
    BY <2>2 DEF Replaces, Alike
  <2>4. Agree(t, D, C, 0, a)
    BY <1>2 DEF Blank, Agree
  <2> QED BY <1>1, <1>3, <1>4, <2>1, <2>2, <2>3, <2>4, SameLines
<1>8. f[c] = f[a]
  <2>1. c <= Len(t) /\ Blank(t, D, a, n)
    BY <1>1, <1>2, <1>6
  <2> QED BY <1>1, <1>3, <1>6, <2>1, SkipLines
<1>9. g[e] = g[a]
  <2>1. Blank(u, C, a, NewLength)
    BY DEF Replaces, Blank
  <2>2. e <= Len(u)
    BY <1>1, <1>6
  <2> QED BY <1>1, <1>4, <1>6, <2>1, <2>2, SkipLines
<1>10. Len(t) = c + k /\ Len(u) = e + k
  BY <1>1, <1>5, <1>6
<1>11. f[Len(t)] = g[Len(u)]
  <2>1. Alike(t, c, u, e, k)
    BY <1>5, <1>6 DEF Replaces
  <2>2. Agree(t, D, C, c, k)
    <3>1. Blank(t, X, c, k)
      BY <1>5, <1>6
    <3> QED BY <1>2, <3>1 DEF Blank, Agree
  <2>3. f[c] = g[e]
    BY <1>7, <1>8, <1>9
  <2>4. PICK lt \in Nat, lu \in Nat : lt = Len(t) /\ lu = Len(u)
    BY <1>1
  <2>5. lt = c + k /\ lu = e + k /\ lt <= Len(t) /\ lu <= Len(u)
    BY <1>10, <2>4
  <2>6. f[lt] = g[lu]
    BY <1>1, <1>3, <1>4, <2>1, <2>2, <2>3, <2>5, SameLines
  <2> QED BY <2>4, <2>6
<1> QED BY <1>2, <1>3, <1>4, <1>11 DEF Gathered

\* insert_docstring_into_code and insert_javadoc_into_code replace what the
\* line numbers name, or append when the text has become too short for them.
LEMMA InsertReplaces ==
    ASSUME NEW t \in Seq(Line), NEW s \in Symbols,
           old[s] \in Nat, DocLine(s) \in Nat \ {0},
           (DocLine(s) + old[s]) - 1 <= Len(t) \/ old[s] = 0
    PROVE  Replaces(t, Insert(t, s), s,
                    IF DocLine(s) <= Len(t) THEN DocLine(s) - 1 ELSE Len(t), old[s])
<1>1. PICK p \in Nat \ {0} : p = DocLine(s)
  OBVIOUS
<1>2. PICK n \in Nat : n = old[s]
  OBVIOUS
<1>3. PICK L \in Nat : L = Len(t)
  BY LenProperties
<1>4. PICK a \in 0..L : a = IF p <= L THEN p - 1 ELSE L
  BY <1>1, <1>3
<1>5. NewLength \in Nat
  BY SizesAreNatural
<1>6. PICK front : front = SubSeq(t, 1, a)
  OBVIOUS
<1>7. PICK new : new = Lines(s, "new", NewLength)
  OBVIOUS
<1>8. PICK back : back = SubSeq(t, p + n, L)
  OBVIOUS
<1>9. Insert(t, s) = (front \o new) \o back
  BY <1>1, <1>2, <1>3, <1>4, <1>6, <1>7, <1>8 DEF Insert
<1>10. a + n <= L /\ (L - (a + n) = 0 \/ a + n = (p + n) - 1)
  <2>1. (p + n) - 1 <= L \/ n = 0
    BY <1>1, <1>2, <1>3
  <2>2. CASE p <= L
    <3>1. a = p - 1
      BY <1>4, <2>2
    <3>2. (p - 1) + n = (p + n) - 1
      OBVIOUS
    <3>3. n = 0 => (p + n) - 1 <= L
      BY <2>2
    <3> QED BY <2>1, <3>1, <3>2, <3>3
  <2>3. CASE ~ (p <= L)
    <3>1. a = L /\ n = 0
      BY <1>4, <2>1, <2>3
    <3> QED BY <3>1
  <2> QED BY <2>2, <2>3
<1>11. PICK k \in Nat : k = L - (a + n)
  BY <1>2, <1>10
<1>12. /\ front \in Seq(Line) /\ Len(front) = a
       /\ \A i \in 1..a : front[i] = t[i]
  <2>1. a \in Nat /\ a <= L /\ a = IF 1 <= a THEN a - 1 + 1 ELSE 0
    BY <1>3, <1>4
  <2>2. /\ SubSeq(t, 1, a) \in Seq(Line) /\ Len(SubSeq(t, 1, a)) = a
        /\ Begins(SubSeq(t, 1, a), t, 1 - 1, a)
    BY <1>3, <2>1, Cut
  <2>3. \A i \in 1..a : front[i] = t[i]
    BY <1>6, <2>2 DEF Begins
  <2> QED BY <1>6, <2>2, <2>3
<1>13. /\ new \in Seq(Line) /\ Len(new) = NewLength
       /\ \A i \in 1..NewLength : new[i] = <<s, "new">>
  <2>1. <<s, "new">> \in Line
    BY DEF Line, Parts
  <2> QED BY <1>5, <1>7, <2>1 DEF Lines
<1>14. /\ back \in Seq(Line) /\ Len(back) = k
       /\ \A i \in 1..k : back[i] = t[(a + n) + i]
  <2>1. PICK first \in Nat \ {0} : first = p + n
    BY <1>1, <1>2
  <2>2. k = IF first <= L THEN L - first + 1 ELSE 0
    <3>1. CASE p <= L
      <4>1. a = p - 1 /\ k = L - (a + n) /\ a + n <= L
        BY <1>4, <1>10, <1>11, <3>1
      <4>2. a + n = first - 1
        BY <2>1, <4>1
      <4> QED BY <2>1, <4>1, <4>2
    <3>2. CASE ~ (p <= L)
      <4>1. a = L /\ k = L - (a + n) /\ a + n <= L
        BY <1>4, <1>10, <1>11, <3>2
      <4>2. k = 0 /\ first > L
        BY <2>1, <3>2, <4>1
      <4> QED BY <4>2
    <3> QED BY <3>1, <3>2
  <2>3. /\ SubSeq(t, first, L) \in Seq(Line) /\ Len(SubSeq(t, first, L)) = k
        /\ Begins(SubSeq(t, first, L), t, first - 1, k)
    <3>1. L <= Len(t)
      BY <1>3
    <3>2. first \in Nat \ {0} /\ L \in Nat /\ k \in Nat
      OBVIOUS
    <3> QED BY <2>2, <3>1, <3>2, Cut
  <2>4. \A i \in 1..k : (first - 1) + i = (a + n) + i
    BY <1>1, <1>2, <1>3, <1>4, <1>10, <1>11, <2>1
  <2> QED BY <1>8, <2>1, <2>3, <2>4 DEF Begins
<1>15. PICK w : w = front \o new
  OBVIOUS
<1>16. PICK e \in Nat : e = a + NewLength
  BY <1>5
<1>17. /\ w \in Seq(Line) /\ Len(w) = e
       /\ \A i \in 1..a : w[i] = front[i]
       /\ \A i \in 1..NewLength : w[a + i] = new[i]
  <2>1. e = Len(front) + Len(new)
    BY <1>12, <1>13, <1>16
  <2>2. /\ w \in Seq(Line) /\ Len(w) = e
        /\ Begins(w, front, 0, Len(front)) /\ Finishes(w, Len(front), new, Len(new))
    BY <1>12, <1>13, <1>15, <2>1, Joined
  <2>3. \A i \in 1..a : w[i] = front[0 + i]
    BY <1>12, <2>2 DEF Begins
  <2>4. \A i \in 1..a : 0 + i = i
    OBVIOUS
  <2> QED BY <1>12, <1>13, <2>2, <2>3, <2>4 DEF Finishes
<1>18. PICK u : u = w \o back
  OBVIOUS
<1>19. /\ u \in Seq(Line) /\ Len(u) = e + k
       /\ \A i \in 1..e : u[i] = w[i]
       /\ \A i \in 1..k : u[e + i] = back[i]
  <2>1. PICK l \in Nat : l = e + k
    OBVIOUS
  <2>2. l = Len(w) + Len(back)
    BY <1>14, <1>17, <2>1
  <2>3. /\ u \in Seq(Line) /\ Len(u) = l
        /\ Begins(u, w, 0, Len(w)) /\ Finishes(u, Len(w), back, Len(back))
    BY <1>14, <1>17, <1>18, <2>2, Joined
  <2>4. \A i \in 1..e : u[i] = w[0 + i]
    BY <1>17, <2>3 DEF Begins
  <2>5. \A i \in 1..e : 0 + i = i
    OBVIOUS
  <2> QED BY <1>14, <1>17, <2>1, <2>3, <2>4, <2>5 DEF Finishes
<1>20. \A i \in 1..a : u[i] = t[i]
  <2>1. \A i \in 1..a : i \in 1..e
    BY <1>5, <1>16
  <2> QED BY <1>12, <1>17, <1>19, <2>1
<1>21. \A i \in 1..NewLength : u[a + i] = <<s, "new">>
  <2>1. \A i \in 1..NewLength : a + i \in 1..e
    BY <1>5, <1>16
  <2> QED BY <1>13, <1>17, <1>19, <2>1
<1>22. \A i \in 1..k : u[(a + NewLength) + i] = t[(a + n) + i]
  BY <1>14, <1>16, <1>19
<1>23. Len(u) = L - n + NewLength
  <2>1. Len(u) = (a + NewLength) + (L - (a + n))
    BY <1>11, <1>16, <1>19
  <2>2. a \in Int /\ n \in Int /\ L \in Int /\ NewLength \in Int
    BY <1>5
  <2>3. \A x, y, z, v \in Int : (x + y) + (z - (x + v)) = z - v + y
    OBVIOUS
  <2> QED BY <2>1, <2>2, <2>3
<1>24. Replaces(t, u, s, a, n)
  <2>1. a \in Nat /\ n \in Nat /\ a + n <= L
    BY <1>4, <1>10
  <2> QED BY <1>3, <1>11, <1>19, <1>20, <1>21, <1>22, <1>23, <2>1 DEF Replaces, Alike
<1> QED BY <1>1, <1>2, <1>3, <1>4, <1>9, <1>15, <1>18, <1>24
-----------------------------------------------------------------------------
(* The source that was parsed *)

Languages == {"Python", "Java"}

\* The part of line j of the block of s.
PartAt(s, lang, lens, ends, j) ==
    LET d == lens[s]
        own == OwnLines(s, lang, lens, ends)
    IN  IF lang = "Java"
        THEN IF j <= d THEN CommentPart(s, lang, lens, ends, j)
             ELSE IF j <= d + own THEN "head" ELSE "body"
        ELSE IF j <= own THEN "head"
             ELSE IF j <= d + own THEN CommentPart(s, lang, lens, ends, j - own) ELSE "body"

Size(s, lang, lens, ends) == (lens[s] + OwnLines(s, lang, lens, ends)) + BodyLength

LEMMA LinesOfPart ==
    ASSUME NEW s \in Symbols, NEW part \in Parts, NEW n \in Nat
    PROVE  /\ Lines(s, part, n) \in Seq(Line) /\ Len(Lines(s, part, n)) = n
           /\ \A i \in 1..n : Lines(s, part, n)[i] = <<s, part>>
<1>1. <<s, part>> \in Line
  BY DEF Line
<1> QED BY <1>1 DEF Lines

\* w is p and its m lines followed by q and its n lines.
Consists(w, p, m, q, n) ==
    /\ w \in Seq(Line) /\ Len(w) = m + n
    /\ \A i \in 1..m : w[i] = p[i]
    /\ \A i \in 1..n : w[m + i] = q[i]

LEMMA Concatenated ==
    ASSUME NEW p \in Seq(Line), NEW q \in Seq(Line), NEW m \in Nat, NEW n \in Nat,
           m = Len(p), n = Len(q)
    PROVE  Consists(p \o q, p, m, q, n)
<1>1. PICK l \in Nat : l = m + n
  OBVIOUS
<1>2. PICK w : w = p \o q
  OBVIOUS
<1>3. l = Len(p) + Len(q)
  BY <1>1
<1>4. w \in Seq(Line) /\ Len(w) = l /\ Begins(w, p, 0, Len(p)) /\ Finishes(w, Len(p), q, Len(q))
  BY <1>2, <1>3, Joined
<1>5. \A i \in 1..m : w[i] = p[0 + i]
  BY <1>4 DEF Begins
<1>6. \A i \in 1..m : 0 + i = i
  OBVIOUS
<1>7. \A i \in 1..n : w[m + i] = q[i]
  BY <1>4 DEF Finishes
<1> QED BY <1>1, <1>2, <1>4, <1>5, <1>6, <1>7 DEF Consists

LEMMA Sizes ==
    ASSUME NEW lang \in Languages, NEW lens \in [Symbols -> Nat], NEW ends, NEW s \in Symbols
    PROVE  /\ lens[s] \in Nat /\ OwnLines(s, lang, lens, ends) \in {0, 1}
           /\ lens[s] + OwnLines(s, lang, lens, ends) \in Nat \ {0}
           /\ Size(s, lang, lens, ends) \in Nat \ {0}
           /\ lens[s] + OwnLines(s, lang, lens, ends) <= Size(s, lang, lens, ends)
<1>1. PICK d \in Nat, B \in Nat : d = lens[s] /\ B = BodyLength
  BY SizesAreNatural
<1>2. PICK own \in {0, 1} : own = OwnLines(s, lang, lens, ends)
  BY DEF OwnLines
<1>3. d > 0 \/ own = 1
  BY <1>1, <1>2 DEF OwnLines
<1>4. Size(s, lang, lens, ends) = (d + own) + B
  BY <1>1, <1>2 DEF Size
<1> QED BY <1>1, <1>2, <1>3, <1>4

\* Block is the declaration and the comment, in the order of the language, and
\* a body.
LEMMA BlockLines ==
    ASSUME NEW lang \in Languages, NEW lens \in [Symbols -> Nat], NEW ends, NEW s \in Symbols,
           NEW size \in Nat, size = Size(s, lang, lens, ends)
    PROVE  /\ Block(s, lang, lens, ends) \in Seq(Line)
           /\ Len(Block(s, lang, lens, ends)) = size
           /\ \A j \in 1..size :
                 Block(s, lang, lens, ends)[j] = <<s, PartAt(s, lang, lens, ends, j)>>
<1>1. PICK B \in Nat, d \in Nat : B = BodyLength /\ d = lens[s]
  BY SizesAreNatural
<1>2. PICK own \in Nat : own = OwnLines(s, lang, lens, ends)
  BY DEF OwnLines
<1> DEFINE P(j) == PartAt(s, lang, lens, ends, j)
           K(j) == CommentPart(s, lang, lens, ends, j)
<1>3. PICK doc : doc = [k \in 1..d |-> <<s, K(k)>>]
  OBVIOUS
<1>4. PICK head : head = Lines(s, "head", own)
  OBVIOUS
<1>5. PICK body : body = Lines(s, "body", B)
  OBVIOUS
<1>6. /\ doc \in Seq(Line) /\ d = Len(doc) /\ \A i \in 1..d : doc[i] = <<s, K(i)>>
      /\ head \in Seq(Line) /\ own = Len(head) /\ \A i \in 1..own : head[i] = <<s, "head">>
      /\ body \in Seq(Line) /\ B = Len(body) /\ \A i \in 1..B : body[i] = <<s, "body">>
  <2>1. "head" \in Parts /\ "body" \in Parts
    BY DEF Parts
  <2>2. \A i \in 1..d : <<s, K(i)>> \in Line
    BY DEF CommentPart, Line, Parts
  <2> HIDE DEF K
  <2>3. doc \in Seq(Line) /\ d = Len(doc) /\ \A i \in 1..d : doc[i] = <<s, K(i)>>
    BY <1>3, <2>2
  <2>4. head \in Seq(Line) /\ own = Len(head) /\ \A i \in 1..own : head[i] = <<s, "head">>
    BY <1>4, <2>1, LinesOfPart
  <2>5. body \in Seq(Line) /\ B = Len(body) /\ \A i \in 1..B : body[i] = <<s, "body">>
    BY <1>5, <2>1, LinesOfPart
  <2> QED BY <2>3, <2>4, <2>5
<1>7. \A j \in Nat \ {0} :
         P(j) = IF lang = "Java"
                THEN IF j <= d THEN K(j) ELSE IF j <= d + own THEN "head" ELSE "body"
                ELSE IF j <= own THEN "head" ELSE IF j <= d + own THEN K(j - own) ELSE "body"
  BY <1>1, <1>2 DEF PartAt
<1> HIDE DEF P, K
<1>8. PICK m \in Nat : m = d + own
  OBVIOUS
<1>9. PICK top : top = IF lang = "Java" THEN doc \o head ELSE head \o doc
  OBVIOUS
<1>10. top \in Seq(Line) /\ m = Len(top) /\ \A i \in 1..m : top[i] = <<s, P(i)>>
  <2>1. CASE lang = "Java"
    <3>1. Consists(top, doc, d, head, own)
      BY <1>6, <1>9, <2>1, Concatenated
    <3>2. /\ top \in Seq(Line) /\ Len(top) = d + own
          /\ \A i \in 1..d : top[i] = doc[i]
          /\ \A i \in 1..own : top[d + i] = head[i]
      BY <3>1 DEF Consists
    <3>3. ASSUME NEW i \in 1..m PROVE top[i] = <<s, P(i)>>
      <4>1. CASE i <= d
        <5>1. i \in 1..d /\ P(i) = K(i)
          BY <1>7, <2>1, <4>1
        <5> QED BY <1>6, <3>2, <5>1
      <4>2. CASE ~ (i <= d)
        <5>1. i - d \in 1..own /\ d + (i - d) = i /\ P(i) = "head"
          BY <1>7, <1>8, <2>1, <4>2
        <5>2. top[d + (i - d)] = head[i - d]
          BY <3>2, <5>1
        <5>3. head[i - d] = <<s, "head">>
          BY <1>6, <5>1
        <5> QED BY <5>1, <5>2, <5>3
      <4> QED BY <4>1, <4>2
    <3> QED BY <1>8, <3>2, <3>3
  <2>2. CASE lang # "Java"
    <3>1. Consists(top, head, own, doc, d)
      BY <1>6, <1>9, <2>2, Concatenated
    <3>2. /\ top \in Seq(Line) /\ Len(top) = own + d
          /\ \A i \in 1..own : top[i] = head[i]
          /\ \A i \in 1..d : top[own + i] = doc[i]
      BY <3>1 DEF Consists
    <3>3. ASSUME NEW i \in 1..m PROVE top[i] = <<s, P(i)>>
      <4>1. CASE i <= own
        <5>1. i \in 1..own /\ P(i) = "head"
          BY <1>7, <2>2, <4>1
        <5> QED BY <1>6, <3>2, <5>1
      <4>2. CASE ~ (i <= own)
        <5>1. i - own \in 1..d /\ own + (i - own) = i /\ P(i) = K(i - own)
          BY <1>7, <1>8, <2>2, <4>2
        <5>2. top[own + (i - own)] = doc[i - own]
          BY <3>2, <5>1
        <5>3. doc[i - own] = <<s, K(i - own)>>
          BY <1>6, <5>1
        <5> QED BY <5>1, <5>2, <5>3
      <4> QED BY <4>1, <4>2
    <3> QED BY <1>8, <3>2, <3>3
  <2> QED BY <2>1, <2>2
<1>11. PICK w : w = Block(s, lang, lens, ends)
  OBVIOUS
<1>12. w = top \o body
  BY <1>1, <1>2, <1>3, <1>4, <1>5, <1>9, <1>11 DEF Block, K
<1>13. Consists(w, top, m, body, B)
  BY <1>6, <1>10, <1>12, Concatenated
<1>14. /\ w \in Seq(Line) /\ Len(w) = m + B
       /\ \A j \in 1..m : w[j] = top[j]
       /\ \A j \in 1..B : w[m + j] = body[j]
  BY <1>13 DEF Consists
<1>15. size = m + B
  BY <1>1, <1>2, <1>8 DEF Size
<1>16. ASSUME NEW j \in 1..size PROVE w[j] = <<s, P(j)>>
  <2>1. CASE j <= m
    <3>1. j \in 1..m
      BY <2>1
    <3> QED BY <1>10, <1>14, <3>1
  <2>2. CASE ~ (j <= m)
    <3>1. j - m \in 1..B /\ m + (j - m) = j
      BY <1>15, <2>2
    <3>2. P(j) = "body"
      BY <1>7, <1>8, <2>2
    <3>3. w[m + (j - m)] = body[j - m]
      BY <1>14, <3>1
    <3>4. body[j - m] = <<s, "body">>
      BY <1>6, <3>1
    <3> QED BY <3>1, <3>2, <3>3, <3>4
  <2> QED BY <2>1, <2>2
<1> QED BY <1>11, <1>14, <1>15, <1>16 DEF P

\* t is the text of the first k symbols; a[s] lines are those of 1..s.
Laid(t, lang, lens, ends, a, k) ==
    /\ t \in Seq(Line) /\ Len(t) = a[k]
    /\ \A s \in 1..k : \A j \in 1..Size(s, lang, lens, ends) :
          a[s - 1] + j <= a[k] /\ t[a[s - 1] + j] = <<s, PartAt(s, lang, lens, ends, j)>>

Offsets(lang, lens, ends, a) ==
    /\ a[0] = 0
    /\ \A s \in Symbols : a[s] \in Nat /\ a[s] = a[s - 1] + Size(s, lang, lens, ends)

\* The function inside FlattenSeq, for the first k sequences.
Flattens(seqs, f, k) ==
    f = [i \in 1..k |-> IF i = 1 THEN seqs[i] ELSE f[i - 1] \o seqs[i]]

LEMMA FlatteningExists ==
    ASSUME NEW seqs, NEW n \in Nat \ {0}
    PROVE  \E f : Flattens(seqs, f, n)
<1> SUFFICES ASSUME ~ \E f : Flattens(seqs, f, n) PROVE FALSE
  OBVIOUS
<1>1. PICK bad : bad = {k \in Nat \ {0} : ~ \E f : Flattens(seqs, f, k)}
  OBVIOUS
<1>2. PICK m \in bad : \A k \in bad : m <= k
  <2>1. bad \subseteq Nat /\ n \in bad
    BY <1>1
  <2> HIDE DEF Flattens
  <2> QED BY <2>1, LeastExists
<1>3. m # 1
  <2>1. Flattens(seqs, [i \in 1..1 |-> seqs[i]], 1)
    BY DEF Flattens
  <2> HIDE DEF Flattens
  <2> QED BY <1>1, <1>2, <2>1
<1>4. m \in Nat \ {0} /\ m - 1 \in Nat \ {0} /\ m - 1 \notin bad
  BY <1>1, <1>2, <1>3
<1>5. PICK f : Flattens(seqs, f, m - 1)
  BY <1>1, <1>4
<1>6. \A i \in 1..(m - 1) : f[i] = IF i = 1 THEN seqs[i] ELSE f[i - 1] \o seqs[i]
  BY <1>5 DEF Flattens
<1>7. PICK last : last = f[m - 1] \o seqs[m]
  OBVIOUS
<1> DEFINE g == [i \in 1..m |-> IF i = m THEN last ELSE f[i]]
           h == [i \in 1..m |-> IF i = 1 THEN seqs[i] ELSE g[i - 1] \o seqs[i]]
<1>8. \A i \in 1..m : g[i] = h[i]
  <2> SUFFICES ASSUME NEW i \in 1..m
               PROVE  g[i] = IF i = 1 THEN seqs[i] ELSE g[i - 1] \o seqs[i]
    OBVIOUS
  <2>1. \A j \in 1..(m - 1) : g[j] = f[j]
    BY <1>4
  <2>2. g[m] = last
    BY <1>4
  <2> HIDE DEF g
  <2>3. CASE i = m
    <3>1. g[i - 1] = f[m - 1] /\ i # 1
      BY <1>3, <1>4, <2>1, <2>3
    <3> QED BY <1>7, <2>2, <2>3, <3>1
  <2>4. CASE i # m
    <3>1. i \in 1..(m - 1) /\ (i # 1 => i - 1 \in 1..(m - 1))
      BY <1>4, <2>4
    <3>2. g[i] = f[i] /\ (i # 1 => g[i - 1] = f[i - 1])
      BY <2>1, <3>1
    <3> QED BY <1>6, <3>1, <3>2
  <2> QED BY <2>3, <2>4
<1>9. g = h
  <2>1. g = [i \in 1..m |-> g[i]] /\ h = [i \in 1..m |-> h[i]]
    OBVIOUS
  <2> HIDE DEF g, h
  <2> QED BY <1>8, <2>1
<1>10. Flattens(seqs, g, m)
  <2> HIDE DEF g
  <2> QED BY <1>9 DEF Flattens
<1> QED BY <1>1, <1>2, <1>10

\* The texts of the first symbols, one block after the other.
Assembles(F, lang, lens, ends) ==
    /\ F[0] = << >>
    /\ \A k \in Symbols : F[k] = F[k - 1] \o Block(k, lang, lens, ends)
    /\ Source(lang, lens, ends) = F[SymbolCount]

LEMMA SourceAssembles ==
    ASSUME NEW lang \in Languages, NEW lens \in [Symbols -> Nat], NEW ends
    PROVE  \E F : Assembles(F, lang, lens, ends)
<1>1. PICK N \in Nat \ {0} : N = SymbolCount
  BY SizesAreNatural
<1>2. \A s \in Symbols : Block(s, lang, lens, ends) \in Seq(Line)
  <2> SUFFICES ASSUME NEW s \in Symbols PROVE Block(s, lang, lens, ends) \in Seq(Line)
    OBVIOUS
  <2>1. PICK size \in Nat : size = Size(s, lang, lens, ends)
    BY Sizes
  <2> QED BY <2>1, BlockLines
<1>3. PICK seqs : seqs = [s \in Symbols |-> Block(s, lang, lens, ends)]
  OBVIOUS
<1>4. Len(seqs) = N
  <2>1. seqs \in [1..N -> Seq(Line)]
    BY <1>1, <1>2, <1>3 DEF Symbols
  <2> QED BY <2>1
<1> DEFINE f == CHOOSE f : f = [i \in 1..Len(seqs) |->
                                  IF i = 1 THEN seqs[i] ELSE f[i - 1] \o seqs[i]]
<1>5. Source(lang, lens, ends) = f[N]
  <2>1. Source(lang, lens, ends) = FlattenSeq(seqs)
    BY <1>3 DEF Source
  <2>2. FlattenSeq(seqs) = f[Len(seqs)]
    BY <1>4 DEF FlattenSeq
  <2> QED BY <1>4, <2>1, <2>2
<1>6. Flattens(seqs, f, N)
  <2>1. \E g : Flattens(seqs, g, N)
    BY FlatteningExists
  <2>2. \E g : g = [i \in 1..Len(seqs) |-> IF i = 1 THEN seqs[i] ELSE g[i - 1] \o seqs[i]]
    BY <1>4, <2>1 DEF Flattens
  <2>3. f = [i \in 1..Len(seqs) |-> IF i = 1 THEN seqs[i] ELSE f[i - 1] \o seqs[i]]
    BY <2>2
  <2> QED BY <1>4, <2>3 DEF Flattens
<1> HIDE DEF f
<1>7. \A i \in 1..N : f[i] = IF i = 1 THEN seqs[i] ELSE f[i - 1] \o seqs[i]
  BY <1>6 DEF Flattens
<1> DEFINE F == [i \in 0..N |-> IF i = 0 THEN << >> ELSE f[i]]
<1>8. F[0] = << >> /\ \A i \in 1..N : F[i] = f[i]
  OBVIOUS
<1> HIDE DEF F
<1>9. ASSUME NEW k \in Symbols PROVE F[k] = F[k - 1] \o Block(k, lang, lens, ends)
  <2>1. k \in 1..N /\ seqs[k] = Block(k, lang, lens, ends)
    BY <1>1, <1>3 DEF Symbols
  <2>2. CASE k = 1
    <3>1. << >> \o seqs[k] = seqs[k]
      BY <1>2, <2>1, ConcatEmptySeq
    <3>2. k - 1 = 0
      BY <2>2
    <3> QED BY <1>7, <1>8, <2>1, <2>2, <3>1, <3>2
  <2>3. CASE k # 1
    <3>1. k - 1 \in 1..N
      BY <2>1, <2>3
    <3> QED BY <1>7, <1>8, <2>1, <2>3, <3>1
  <2> QED BY <2>2, <2>3
<1>10. N \in 1..N
  OBVIOUS
<1> QED BY <1>1, <1>5, <1>8, <1>9, <1>10 DEF Assembles

LEMMA LaidGrows ==
    ASSUME NEW lang \in Languages, NEW lens \in [Symbols -> Nat], NEW ends, NEW a,
           NEW k \in Symbols, \A s \in 1..k : a[s - 1] \in Nat,
           NEW t, Laid(t, lang, lens, ends, a, k - 1), NEW size \in Nat,
           size = Size(k, lang, lens, ends), a[k] = a[k - 1] + size,
           NEW u, Consists(u, t, a[k - 1], Block(k, lang, lens, ends), size)
    PROVE  Laid(u, lang, lens, ends, a, k)
<1>1. PICK p \in Nat : p = a[k - 1]
  <2>1. k \in 1..k
    BY SizesAreNatural DEF Symbols
  <2> QED BY <2>1
<1>2. /\ u \in Seq(Line) /\ Len(u) = p + size
      /\ \A i \in 1..p : u[i] = t[i]
      /\ \A i \in 1..size : u[p + i] = Block(k, lang, lens, ends)[i]
  BY <1>1 DEF Consists
<1>3. \A j \in 1..size : Block(k, lang, lens, ends)[j] = <<k, PartAt(k, lang, lens, ends, j)>>
  BY BlockLines
<1>4. ASSUME NEW s \in 1..k, NEW j \in 1..Size(s, lang, lens, ends)
      PROVE  a[s - 1] + j <= a[k] /\ u[a[s - 1] + j] = <<s, PartAt(s, lang, lens, ends, j)>>
  <2>1. CASE s = k
    <3>1. j \in 1..size
      BY <2>1
    <3>2. p + j <= p + size
      BY <3>1
    <3> QED BY <1>1, <1>2, <1>3, <2>1, <3>1, <3>2
  <2>2. CASE s # k
    <3>1. s \in 1..(k - 1) /\ s \in Symbols
      BY <2>2, SizesAreNatural DEF Symbols
    <3>2. PICK c \in Nat : c = a[s - 1]
      BY <3>1
    <3>3. j \in Nat \ {0}
      BY <3>1, Sizes
    <3>4. c + j <= p /\ t[c + j] = <<s, PartAt(s, lang, lens, ends, j)>>
      BY <1>1, <3>1, <3>2 DEF Laid
    <3>5. c + j \in 1..p /\ c + j <= p + size
      BY <3>3, <3>4
    <3>6. u[c + j] = t[c + j]
      BY <1>2, <3>5
    <3> QED BY <1>1, <3>2, <3>4, <3>5, <3>6
  <2> QED BY <2>1, <2>2
<1> QED BY <1>1, <1>2, <1>4 DEF Laid

\* The source is laid out block by block.
LEMMA SourceIsLaid ==
    ASSUME NEW lang \in Languages, NEW lens \in [Symbols -> Nat], NEW ends
    PROVE  \E a : /\ Offsets(lang, lens, ends, a)
                  /\ Laid(Source(lang, lens, ends), lang, lens, ends, a, SymbolCount)
<1>1. PICK N \in Nat \ {0} : N = SymbolCount
  BY SizesAreNatural
<1>2. PICK F : Assembles(F, lang, lens, ends)
  BY SourceAssembles
<1>3. PICK a : a = [i \in 0..N |-> Len(F[i])]
  OBVIOUS
<1> DEFINE Good(k) == /\ Laid(F[k], lang, lens, ends, a, k)
                      /\ \A s \in 0..k : a[s] \in Nat
                      /\ \A s \in 1..k : a[s] = a[s - 1] + Size(s, lang, lens, ends)
<1>4. Good(0)
  <2>1. F[0] \in Seq(Line) /\ Len(F[0]) = 0 /\ a[0] = 0
    BY <1>2, <1>3 DEF Assembles
  <2> QED BY <2>1 DEF Laid
<1>5. ASSUME NEW k \in 1..N, Good(k - 1) PROVE Good(k)
  <2>1. k \in Symbols /\ k \in 0..N /\ k - 1 \in 0..N /\ k - 1 \in 0..(k - 1)
    BY <1>1 DEF Symbols
  <2>3. PICK size \in Nat : size = Size(k, lang, lens, ends)
    BY <2>1, Sizes
  <2>4. PICK p \in Nat : p = a[k - 1]
    BY <1>5, <2>1
  <2>5. PICK b : b = Block(k, lang, lens, ends)
    OBVIOUS
  <2>6. b \in Seq(Line) /\ Len(b) = size
    BY <2>1, <2>3, <2>5, BlockLines
  <2>7. F[k - 1] \in Seq(Line) /\ Len(F[k - 1]) = p
    BY <1>5, <2>4 DEF Laid
  <2>8. F[k] = F[k - 1] \o b
    BY <1>2, <2>1, <2>5 DEF Assembles
  <2>9. Consists(F[k], F[k - 1], p, b, size)
    BY <2>6, <2>7, <2>8, Concatenated
  <2>10. a[k] = p + size /\ a[k] \in Nat
    BY <1>3, <2>1, <2>9 DEF Consists
  <2>11. \A s \in 1..k : a[s - 1] \in Nat
    <3>1. \A s \in 1..k : s - 1 \in 0..(k - 1)
      OBVIOUS
    <3> QED BY <1>5, <3>1
  <2>12. Laid(F[k], lang, lens, ends, a, k)
    BY <1>5, <2>1, <2>3, <2>4, <2>5, <2>9, <2>10, <2>11, LaidGrows
  <2>13. \A s \in 0..k : a[s] \in Nat
    <3>1. \A s \in 0..k : s = k \/ s \in 0..(k - 1)
      OBVIOUS
    <3> QED BY <1>5, <2>10, <3>1
  <2>14. \A s \in 1..k : a[s] = a[s - 1] + Size(s, lang, lens, ends)
    <3>1. \A s \in 1..k : s = k \/ s \in 1..(k - 1)
      OBVIOUS
    <3>2. a[k] = a[k - 1] + Size(k, lang, lens, ends)
      BY <2>3, <2>4, <2>10
    <3> QED BY <1>5, <3>1, <3>2
  <2> QED BY <2>12, <2>13, <2>14
<1>6. Good(N)
  <2> SUFFICES ASSUME ~ Good(N) PROVE FALSE
    OBVIOUS
  <2>1. PICK bad : bad = {k \in 0..N : ~ Good(k)}
    OBVIOUS
  <2>2. PICK m \in bad : \A k \in bad : m <= k
    <3>1. bad \subseteq Nat /\ N \in bad
      BY <2>1
    <3> HIDE DEF Good
    <3> QED BY <3>1, LeastExists
  <2> HIDE DEF Good
  <2>3. m \in 1..N /\ m - 1 \in 0..N /\ m - 1 \notin bad
    <3>1. m \in 0..N /\ m # 0
      BY <1>4, <2>1, <2>2
    <3> QED BY <2>2, <3>1
  <2>4. Good(m - 1)
    BY <2>1, <2>3
  <2>5. Good(m)
    BY <1>5, <2>3, <2>4
  <2> QED BY <2>1, <2>2, <2>5
<1>7. F[N] = Source(lang, lens, ends) /\ Symbols = 1..N /\ 0 \in 0..N
  BY <1>1, <1>2 DEF Assembles, Symbols
<1>8. a[0] = 0
  BY <1>2, <1>3, <1>7 DEF Assembles
<1>9. \A s \in Symbols : s \in 0..N /\ s \in 1..N
  BY <1>7
<1>10. Offsets(lang, lens, ends, a)
  BY <1>6, <1>8, <1>9 DEF Offsets
<1> QED BY <1>1, <1>6, <1>7, <1>10

\* Every line belongs to the block of a symbol.
LEMMA LineOfSymbol ==
    ASSUME NEW lang \in Languages, NEW lens \in [Symbols -> Nat], NEW ends,
           NEW a, Offsets(lang, lens, ends, a),
           NEW n \in Nat \ {0}, n <= a[SymbolCount]
    PROVE  \E s \in Symbols : \E j \in 1..Size(s, lang, lens, ends) : n = a[s - 1] + j
<1>1. PICK N \in Nat \ {0} : N = SymbolCount
  BY SizesAreNatural
<1>2. Symbols = 1..N
  BY <1>1 DEF Symbols
<1>3. \A s \in 0..N : a[s] \in Nat
  <2>1. \A s \in 0..N : s = 0 \/ s \in 1..N
    OBVIOUS
  <2> QED BY <1>2, <2>1 DEF Offsets
<1>4. PICK above : above = {s \in 0..N : n <= a[s]}
  OBVIOUS
<1>5. PICK s \in above : \A r \in above : s <= r
  <2>1. above \subseteq Nat /\ N \in above
    BY <1>1, <1>4
  <2> QED BY <2>1, LeastExists
<1>6. s \in 0..N /\ n <= a[s]
  BY <1>4
<1>7. s # 0
  BY <1>6 DEF Offsets
<1>8. s \in 1..N /\ s - 1 \in 0..N
  BY <1>6, <1>7
<1>9. ~ (n <= a[s - 1])
  <2>1. s - 1 \notin above
    BY <1>5, <1>8
  <2> QED BY <1>4, <1>8, <2>1
<1>10. PICK p \in Nat, size \in Nat : p = a[s - 1] /\ size = Size(s, lang, lens, ends)
  <2>1. a[s - 1] \in Nat
    BY <1>3, <1>8
  <2>2. Size(s, lang, lens, ends) \in Nat
    BY <1>2, <1>8, Sizes
  <2> QED BY <2>1, <2>2
<1>11. a[s] = p + size
  BY <1>2, <1>8, <1>10 DEF Offsets
<1>12. n - p \in 1..size /\ n = p + (n - p)
  <2>1. n <= p + size
    BY <1>6, <1>11
  <2>2. ~ (n <= p)
    BY <1>9, <1>10
  <2> QED BY <2>1, <2>2
<1> QED BY <1>2, <1>8, <1>10, <1>12

LEMMA OffsetsGrow ==
    ASSUME NEW lang \in Languages, NEW lens \in [Symbols -> Nat], NEW ends,
           NEW a, Offsets(lang, lens, ends, a),
           NEW s \in Symbols, NEW r \in Symbols, s < r
    PROVE  a[s] <= a[r - 1]
<1>1. PICK N \in Nat \ {0} : N = SymbolCount
  BY SizesAreNatural
<1>2. Symbols = 1..N
  BY <1>1 DEF Symbols
<1> DEFINE Grows(i) == a[s] <= a[i]
<1> SUFFICES ASSUME ~ Grows(r - 1) PROVE FALSE
  OBVIOUS
<1>3. PICK bad : bad = {i \in s..N : ~ Grows(i)}
  OBVIOUS
<1>4. PICK m \in bad : \A i \in bad : m <= i
  <2>1. bad \subseteq Nat /\ r - 1 \in bad
    BY <1>2, <1>3
  <2> HIDE DEF Grows
  <2> QED BY <2>1, LeastExists
<1>5. m # s /\ m \in s..N
  <2>1. Grows(s)
    BY DEF Offsets
  <2> HIDE DEF Grows
  <2> QED BY <1>3, <2>1
<1>6. m \in Symbols /\ m - 1 \in Symbols /\ m - 1 \in s..N /\ m - 1 \notin bad
  BY <1>2, <1>4, <1>5
<1>7. Grows(m - 1)
  <2> HIDE DEF Grows
  <2> QED BY <1>3, <1>6
<1>8. PICK size \in Nat : size = Size(m, lang, lens, ends)
  BY <1>6, Sizes
<1>9. a[m] = a[m - 1] + size /\ a[m - 1] \in Nat /\ a[s] \in Nat
  BY <1>6, <1>8 DEF Offsets
<1>10. Grows(m)
  BY <1>7, <1>9
<1> HIDE DEF Grows
<1> QED BY <1>3, <1>4, <1>10

\* A source has lines, and none of them is new.
LEMMA SourceLines ==
    ASSUME NEW lang \in Languages, NEW lens \in [Symbols -> Nat], NEW ends
    PROVE  /\ Source(lang, lens, ends) \in Seq(Line)
           /\ Source(lang, lens, ends) # << >>
           /\ \A n \in 1..Len(Source(lang, lens, ends)) :
                 Source(lang, lens, ends)[n][2] # "new"
<1>1. PICK a : /\ Offsets(lang, lens, ends, a)
               /\ Laid(Source(lang, lens, ends), lang, lens, ends, a, SymbolCount)
  BY SourceIsLaid
<1>2. PICK t : t = Source(lang, lens, ends)
  OBVIOUS
<1>3. t \in Seq(Line) /\ Len(t) = a[SymbolCount]
  BY <1>1, <1>2 DEF Laid
<1>4. ASSUME NEW n \in 1..Len(t) PROVE t[n][2] # "new"
  <2>1. n \in Nat \ {0} /\ n <= a[SymbolCount]
    BY <1>3
  <2>2. PICK s \in Symbols : \E j \in 1..Size(s, lang, lens, ends) : n = a[s - 1] + j
    BY <1>1, <2>1, LineOfSymbol
  <2>4. PICK j \in 1..Size(s, lang, lens, ends) : n = a[s - 1] + j
    BY <2>2
  <2>3. t[n] = <<s, PartAt(s, lang, lens, ends, j)>>
    BY <1>1, <1>2, <2>4 DEF Laid, Symbols
  <2> QED BY <2>3 DEF PartAt, CommentPart
<1>5. t # << >>
  <2>1. 1 \in Symbols
    BY SizesAreNatural DEF Symbols
  <2>2. Size(1, lang, lens, ends) \in Nat \ {0}
    BY <2>1, Sizes
  <2>3. a[0] = 0 /\ 1 \in 1..Size(1, lang, lens, ends)
    BY <1>1, <2>2 DEF Offsets
  <2>4. a[1 - 1] + 1 <= a[SymbolCount]
    BY <1>1, <1>2, <2>1, <2>3 DEF Laid, Symbols
  <2>5. Len(t) # 0
    BY <1>3, <2>3, <2>4
  <2> QED BY <2>5
<1> QED BY <1>2, <1>3, <1>4, <1>5

SourceTypes == language \in Languages /\ old \in [Symbols -> Nat]

Own(s) == OwnLines(s, language, old, shared)

\* The last line of the source that an insertion for s looks at or replaces.
Reach(s) ==
    IF language = "Java" THEN HeadLine(s) ELSE (HeadLine(s) - 1) + (old[s] + Own(s))

\* How many lines of the block are above the place of the comment.
Shift(s) == IF language = "Java" \/ Inline(s) THEN 0 ELSE 1

LEMMA PartsOfBlock ==
    ASSUME SourceTypes, NEW s \in Symbols,
           NEW j \in Nat \ {0}, NEW part, part = PartAt(s, language, old, shared, j)
    PROVE  /\ part = "head" <=> j = (IF language = "Java" THEN old[s] + 1 ELSE 1)
           /\ part \in {"head", "shared"} => j <= old[s] + Own(s)
           /\ j - Shift(s) \in 1..old[s] => <<s, part>> \in {<<s, "old">>} \cup SharedWith(s)
           /\ <<s, part>> \in SharedWith(s) => j - Shift(s) \in 1..old[s]
<1>1. PICK d \in Nat : d = old[s]
  BY DEF SourceTypes
<1> DEFINE K(i) == CommentPart(s, language, old, shared, i)
<1>2. language = "Java" \/ language = "Python"
  BY DEF SourceTypes, Languages
<1>3. part = IF language = "Java"
             THEN IF j <= d THEN K(j) ELSE IF j <= d + Own(s) THEN "head" ELSE "body"
             ELSE IF j <= Own(s) THEN "head" ELSE IF j <= d + Own(s) THEN K(j - Own(s)) ELSE "body"
  BY <1>1 DEF PartAt, Own
<1>4. Own(s) = IF Inline(s) /\ d > 0 THEN 0 ELSE 1
  BY <1>1 DEF Own, OwnLines, Inline
<1>5. Inline(s) => language = "Python"
  BY DEF Inline, OnOneLine
<1>6. /\ \A i : K(i) \in {"head", "shared", "old"}
      /\ \A i : K(i) = "head" <=> Inline(s) /\ i = 1
  BY DEF CommentPart, Inline
<1>7. \A x : x \in {"head", "shared", "old", "body"} =>
         (<<s, x>> \in SharedWith(s) <=> d # 0 /\ (x = "shared" \/ (x = "head" /\ Inline(s))))
  BY <1>1 DEF SharedWith
<1> HIDE DEF K
<1>8. part \in {"head", "shared", "old", "body"}
  BY <1>3, <1>6
<1>9. Shift(s) = IF language = "Java" \/ Inline(s) THEN 0 ELSE 1
  BY DEF Shift
<1>10. CASE language = "Java"
  <2>1. ~Inline(s) /\ Own(s) = 1 /\ Shift(s) = 0
    BY <1>4, <1>5, <1>9, <1>10
  <2>2. CASE j <= d
    <3>1. part = K(j) /\ part \in {"shared", "old"} /\ j \in 1..d
      BY <1>3, <1>6, <1>10, <2>1, <2>2
    <3>2. part = "shared" => <<s, part>> \in SharedWith(s)
      BY <1>7, <1>8, <3>1
    <3> QED BY <1>1, <1>10, <2>1, <3>1, <3>2
  <2>3. CASE ~ (j <= d)
    <3>1. part = (IF j = d + 1 THEN "head" ELSE "body") /\ j \notin 1..d
      BY <1>3, <1>10, <2>1, <2>3
    <3>2. <<s, part>> \notin SharedWith(s)
      BY <1>7, <1>8, <2>1, <3>1
    <3> QED BY <1>1, <1>10, <2>1, <3>1, <3>2
  <2> QED BY <2>2, <2>3
<1>11. CASE language # "Java" /\ Inline(s) /\ d > 0
  <2>1. Own(s) = 0 /\ Shift(s) = 0
    BY <1>4, <1>9, <1>11
  <2>2. part = IF j <= d THEN K(j) ELSE "body"
    BY <1>3, <1>11, <2>1
  <2>3. CASE j <= d
    <3>1. part = K(j) /\ part \in {"head", "shared", "old"} /\ j \in 1..d
      BY <1>6, <2>2, <2>3
    <3>2. part # "old" => <<s, part>> \in SharedWith(s)
      BY <1>7, <1>8, <1>11, <3>1
    <3>3. part = "head" <=> j = 1
      BY <1>6, <1>11, <3>1
    <3> QED BY <1>1, <1>11, <2>1, <3>1, <3>2, <3>3
  <2>4. CASE ~ (j <= d)
    <3>1. part = "body" /\ j \notin 1..d /\ j # 1
      BY <1>11, <2>2, <2>4
    <3>2. <<s, part>> \notin SharedWith(s)
      BY <1>7, <1>8, <3>1
    <3> QED BY <1>1, <1>11, <2>1, <3>1, <3>2
  <2> QED BY <2>3, <2>4
<1>12. CASE language # "Java" /\ ~ (Inline(s) /\ d > 0)
  <2>1. Own(s) = 1
    BY <1>4, <1>12
  <2>2. part = IF j = 1 THEN "head" ELSE IF j <= d + 1 THEN K(j - 1) ELSE "body"
    BY <1>3, <1>12, <2>1
  <2>3. CASE j = 1
    <3>1. part = "head" /\ <<s, part>> \notin SharedWith(s)
      BY <1>7, <1>8, <1>12, <2>2, <2>3
    <3>2. ~ (j - Shift(s) \in 1..d)
      BY <1>9, <1>12, <2>3
    <3> QED BY <1>1, <1>12, <2>1, <2>3, <3>1, <3>2
  <2>4. CASE j # 1 /\ j <= d + 1
    <3>1. d > 0 /\ ~Inline(s) /\ Shift(s) = 1 /\ j - 1 \in 1..d
      BY <1>9, <1>12, <2>4
    <3>2. part = K(j - 1) /\ part \in {"shared", "old"}
      BY <1>6, <2>2, <2>4, <3>1
    <3>3. part = "shared" => <<s, part>> \in SharedWith(s)
      BY <1>7, <1>8, <3>1
    <3> QED BY <1>1, <1>12, <2>1, <2>4, <3>1, <3>2, <3>3
  <2>5. CASE j # 1 /\ ~ (j <= d + 1)
    <3>1. part = "body" /\ j - 0 \notin 1..d /\ j - 1 \notin 1..d
      BY <2>2, <2>5
    <3>2. <<s, part>> \notin SharedWith(s)
      BY <1>7, <1>8, <3>1
    <3> QED BY <1>1, <1>9, <1>12, <2>1, <2>5, <3>1, <3>2
  <2> QED BY <2>3, <2>4, <2>5
<1> QED BY <1>1, <1>10, <1>11, <1>12

\* Where the declaration of s and its comment are, p lines below the top.
Located(s, p) ==
    /\ p \in Nat /\ p + (old[s] + Own(s)) <= Len(Original)
    /\ HeadLine(s) = IF language = "Java" THEN (p + old[s]) + 1 ELSE p + 1
    /\ Original[HeadLine(s)] = <<s, "head">>
    /\ Original[p + (old[s] + Own(s))][1] = s
    /\ \A i \in 1..old[s] :
          Original[(p + Shift(s)) + i] \in {<<s, "old">>} \cup SharedWith(s)
    /\ \A n \in 1..Len(Original) :
          /\ Original[n] \in SharedWith(s) => n - (p + Shift(s)) \in 1..old[s]
          /\ Original[n] \in {<<s, "head">>, <<s, "shared">>} => n <= p + (old[s] + Own(s))

LEMMA SymbolIsLocated ==
    ASSUME SourceTypes, NEW a, Offsets(language, old, shared, a),
           Laid(Original, language, old, shared, a, SymbolCount), NEW s \in Symbols
    PROVE  Located(s, a[s - 1])
<1>1. PICK t : t = Original
  OBVIOUS
<1>2. PICK d \in Nat, m \in Nat \ {0}, size \in Nat :
        d = old[s] /\ m = d + Own(s) /\ size = Size(s, language, old, shared)
  BY Sizes DEF SourceTypes, Own
<1>3. PICK p \in Nat : p = a[s - 1]
  <2>1. s - 1 = 0 \/ s - 1 \in Symbols
    BY SizesAreNatural DEF Symbols
  <2> QED BY <2>1 DEF Offsets
<1> DEFINE P(r, j) == PartAt(r, language, old, shared, j)
<1>4. \A j \in 1..size : p + j <= Len(t) /\ t[p + j] = <<s, P(s, j)>>
  BY <1>1, <1>2, <1>3 DEF Laid, Symbols
<1>5. Len(t) \in Nat /\ Len(t) = a[SymbolCount]
  BY <1>1 DEF Laid
<1>6. m <= size /\ d <= size /\ Own(s) \in {0, 1} /\ Shift(s) \in {0, 1} /\ Shift(s) <= Own(s)
  <2>1. Own(s) \in {0, 1} /\ Shift(s) \in {0, 1} /\ m <= size
    BY <1>2, Sizes DEF Own, Shift, SourceTypes
  <2>2. Shift(s) <= Own(s)
    BY DEF Own, Shift, OwnLines, Inline
  <2> QED BY <1>2, <2>1, <2>2
<1> HIDE DEF P
<1>7. PICK h \in 1..size : h = IF language = "Java" THEN d + 1 ELSE 1
  <2>1. language = "Java" => Own(s) = 1
    BY DEF Own, OwnLines, OnOneLine
  <2> QED BY <1>2, <1>6, <2>1
<1>8. ASSUME NEW j \in Nat \ {0}
      PROVE  /\ P(s, j) = "head" <=> j = h
             /\ P(s, j) = "head" \/ P(s, j) = "shared" => j <= m
             /\ j - Shift(s) \in 1..d => <<s, P(s, j)>> \in {<<s, "old">>} \cup SharedWith(s)
             /\ <<s, P(s, j)>> \in SharedWith(s) => j - Shift(s) \in 1..d
  <2>1. PICK part : part = PartAt(s, language, old, shared, j)
    OBVIOUS
  <2>2. /\ part = "head" <=> j = (IF language = "Java" THEN old[s] + 1 ELSE 1)
        /\ part \in {"head", "shared"} => j <= old[s] + Own(s)
        /\ j - Shift(s) \in 1..old[s] => <<s, part>> \in {<<s, "old">>} \cup SharedWith(s)
        /\ <<s, part>> \in SharedWith(s) => j - Shift(s) \in 1..old[s]
    BY <2>1, PartsOfBlock
  <2>3. P(s, j) = part
    BY <2>1 DEF P
  <2> QED BY <1>2, <1>7, <2>2, <2>3
<1>9. p + h \in 1..Len(t) /\ t[p + h] = <<s, "head">>
  <2>1. p + h <= Len(t) /\ t[p + h] = <<s, P(s, h)>>
    BY <1>4
  <2>2. P(s, h) = "head"
    <3>1. h \in Nat \ {0}
      OBVIOUS
    <3> QED BY <1>8, <3>1
  <2>3. p + h \in Nat /\ p + h >= 1
    OBVIOUS
  <2> QED BY <1>5, <2>1, <2>2, <2>3
<1>10. ASSUME NEW n \in 1..Len(t), t[n][1] = s
       PROVE  \E j \in Nat \ {0} : n = p + j /\ t[n] = <<s, P(s, j)>>
  <2>1. n \in Nat \ {0} /\ n <= a[SymbolCount]
    BY <1>5
  <2>2. PICK r \in Symbols : \E i \in 1..Size(r, language, old, shared) : n = a[r - 1] + i
    BY <2>1, LineOfSymbol DEF SourceTypes
  <2>3. PICK i \in 1..Size(r, language, old, shared) : n = a[r - 1] + i
    BY <2>2
  <2>4. t[n] = <<r, P(r, i)>>
    BY <1>1, <2>3 DEF Laid, Symbols, P
  <2>5. r = s
    BY <1>10, <2>4
  <2>6. i \in Nat \ {0}
    BY Sizes DEF SourceTypes
  <2> QED BY <1>3, <2>3, <2>4, <2>5, <2>6
<1>11. HeadLine(s) = p + h
  <2>1. ASSUME NEW n \in 1..Len(t), t[n] = <<s, "head">> PROVE n = p + h
    <3>1. PICK j \in Nat \ {0} : n = p + j /\ t[n] = <<s, P(s, j)>>
      BY <1>10, <2>1
    <3>2. P(s, j) = "head"
      BY <2>1, <3>1
    <3> QED BY <1>8, <3>1, <3>2
  <2> QED BY <1>1, <1>9, <2>1 DEF HeadLine
<1>12. p + m <= Len(t) /\ t[p + m][1] = s
  <2>1. m \in 1..size
    BY <1>6
  <2>2. p + m <= Len(t) /\ t[p + m] = <<s, P(s, m)>>
    BY <1>4, <2>1
  <2> QED BY <2>2
<1>13. ASSUME NEW i \in 1..d
       PROVE  t[(p + Shift(s)) + i] \in {<<s, "old">>} \cup SharedWith(s)
  <2>1. PICK j \in 1..size : j = Shift(s) + i
    BY <1>2, <1>6
  <2>2. (p + Shift(s)) + i = p + j /\ j - Shift(s) = i
    BY <1>6, <2>1
  <2>3. t[p + j] = <<s, P(s, j)>>
    BY <1>4
  <2>4. <<s, P(s, j)>> \in {<<s, "old">>} \cup SharedWith(s)
    <3>1. j \in Nat \ {0}
      OBVIOUS
    <3> QED BY <1>8, <2>2, <3>1
  <2> QED BY <2>2, <2>3, <2>4
<1>14. ASSUME NEW n \in 1..Len(t)
       PROVE  /\ t[n] \in SharedWith(s) => n - (p + Shift(s)) \in 1..d
              /\ t[n] \in {<<s, "head">>, <<s, "shared">>} => n <= p + m
  <2>1. t[n] \in SharedWith(s) => t[n][1] = s
    BY DEF SharedWith
  <2>2. CASE t[n][1] = s
    <3>1. PICK j \in Nat \ {0} : n = p + j /\ t[n] = <<s, P(s, j)>>
      BY <1>10, <2>2
    <3>2. n - (p + Shift(s)) = j - Shift(s)
      BY <1>6, <3>1
    <3>3. t[n] \in {<<s, "head">>, <<s, "shared">>} => P(s, j) = "head" \/ P(s, j) = "shared"
      BY <3>1
    <3>4. j \in Nat /\ (t[n] \in {<<s, "head">>, <<s, "shared">>} => j <= m)
      BY <1>8, <3>3
    <3> QED BY <1>8, <3>1, <3>2, <3>4
  <2> QED BY <2>1, <2>2
<1>15. p + h = IF language = "Java" THEN (p + d) + 1 ELSE p + 1
  BY <1>7
<1> QED BY <1>1, <1>2, <1>3, <1>9, <1>11, <1>12, <1>13, <1>14, <1>15 DEF Located

\* What the insertions need of the source: each declaration is beside its
\* comment or on its first line, and the blocks follow each other.
LEMMA Declarations ==
    ASSUME SourceTypes, NEW s \in Symbols
    PROVE  /\ HeadLine(s) \in Nat \ {0} /\ DocLine(s) \in Nat \ {0} /\ Reach(s) \in Nat
           /\ HeadLine(s) <= Reach(s) /\ Reach(s) <= Len(Original)
           /\ (DocLine(s) - 1) + old[s] <= Reach(s)
           /\ language = "Java" => HeadLine(s) = (DocLine(s) - 1) + old[s] + 1
           /\ language # "Java" /\ ~Inline(s) => HeadLine(s) = DocLine(s) - 1
           /\ Original[HeadLine(s)] = <<s, "head">>
           /\ Original[Reach(s)][1] = s
           /\ \A i \in 1..old[s] :
                 Original[(DocLine(s) - 1) + i] \in {<<s, "old">>} \cup SharedWith(s)
           /\ \A n \in 1..Len(Original) :
                 /\ Original[n] \in SharedWith(s) => n - (DocLine(s) - 1) \in 1..old[s]
                 /\ Original[n] \in {<<s, "head">>, <<s, "shared">>} => n <= Reach(s)
           /\ \A r \in Symbols : s < r => Reach(s) <= DocLine(r) - 1
<1>1. PICK a : /\ Offsets(language, old, shared, a)
               /\ Laid(Original, language, old, shared, a, SymbolCount)
  BY SourceIsLaid DEF SourceTypes, Original
<1>2. \A r \in Symbols : Located(r, a[r - 1])
  BY <1>1, SymbolIsLocated
<1>3. PICK d \in Nat, own \in {0, 1} : d = old[s] /\ own = Own(s)
  BY Sizes DEF SourceTypes, Own
<1>4. PICK p \in Nat : p = a[s - 1]
  BY <1>2 DEF Located
<1>5. /\ p + (d + own) <= Len(Original)
      /\ HeadLine(s) = IF language = "Java" THEN (p + d) + 1 ELSE p + 1
      /\ Original[HeadLine(s)] = <<s, "head">>
      /\ Original[p + (d + own)][1] = s
      /\ \A i \in 1..d : Original[(p + Shift(s)) + i] \in {<<s, "old">>} \cup SharedWith(s)
      /\ \A n \in 1..Len(Original) :
            /\ Original[n] \in SharedWith(s) => n - (p + Shift(s)) \in 1..d
            /\ Original[n] \in {<<s, "head">>, <<s, "shared">>} => n <= p + (d + own)
  BY <1>2, <1>3, <1>4 DEF Located
<1>6. \A r \in Symbols : \A q, e \in Nat : q = a[r - 1] /\ e = old[r] =>
         DocLine(r) = (q + Shift(r)) + 1 /\ Shift(r) \in {0, 1}
  <2> SUFFICES ASSUME NEW r \in Symbols, NEW q \in Nat, NEW e \in Nat, q = a[r - 1], e = old[r]
               PROVE  DocLine(r) = (q + Shift(r)) + 1 /\ Shift(r) \in {0, 1}
    OBVIOUS
  <2>1. HeadLine(r) = IF language = "Java" THEN (q + e) + 1 ELSE q + 1
    BY <1>2 DEF Located
  <2> QED BY <2>1 DEF DocLine, Shift
<1>7. PICK c \in Nat : c = p + Shift(s) /\ DocLine(s) = c + 1
  BY <1>3, <1>4, <1>6
<1>8. /\ language = "Java" => own = 1 /\ c = p
      /\ language # "Java" /\ ~Inline(s) => c = p + 1
      /\ c <= p + own /\ d + own >= 1
  BY <1>3, <1>7 DEF Own, OwnLines, Shift, OnOneLine, Inline
<1>9. Reach(s) = p + (d + own)
  BY <1>3, <1>5, <1>8 DEF Reach
<1>10. ASSUME NEW r \in Symbols, s < r PROVE Reach(s) <= DocLine(r) - 1
  <2>1. PICK q \in Nat, e \in Nat : q = a[r - 1] /\ e = old[r]
    BY <1>2 DEF Located, SourceTypes
  <2>2. q <= DocLine(r) - 1 /\ DocLine(r) - 1 \in Nat
    BY <1>6, <2>1
  <2>3. a[s] <= q
    BY <1>1, <1>10, <2>1, OffsetsGrow DEF SourceTypes
  <2>4. PICK size \in Nat : size = Size(s, language, old, shared) /\ d + own <= size
    BY <1>3, Sizes DEF SourceTypes, Own
  <2>5. a[s] = p + size
    BY <1>1, <1>4, <2>4 DEF Offsets
  <2> QED BY <1>9, <2>2, <2>3, <2>4, <2>5
<1>11. DocLine(s) - 1 = c /\ c + d <= Reach(s)
  BY <1>7, <1>8, <1>9
<1>12. /\ HeadLine(s) \in Nat \ {0} /\ HeadLine(s) <= Reach(s)
       /\ language = "Java" => HeadLine(s) = c + d + 1
       /\ language # "Java" /\ ~Inline(s) => HeadLine(s) = c
  BY <1>5, <1>8, <1>9
<1>13. Reach(s) \in Nat /\ Reach(s) <= Len(Original) /\ Original[Reach(s)][1] = s
  BY <1>5, <1>9
<1>14. /\ DocLine(s) \in Nat \ {0} /\ (DocLine(s) - 1) + old[s] <= Reach(s)
       /\ language = "Java" => HeadLine(s) = (DocLine(s) - 1) + old[s] + 1
       /\ language # "Java" /\ ~Inline(s) => HeadLine(s) = DocLine(s) - 1
  BY <1>3, <1>7, <1>11, <1>12
<1>15. /\ \A i \in 1..old[s] :
             Original[(DocLine(s) - 1) + i] \in {<<s, "old">>} \cup SharedWith(s)
       /\ \A n \in 1..Len(Original) :
             /\ Original[n] \in SharedWith(s) => n - (DocLine(s) - 1) \in 1..old[s]
             /\ Original[n] \in {<<s, "head">>, <<s, "shared">>} => n <= Reach(s)
  BY <1>3, <1>5, <1>7, <1>9, <1>11
<1> QED BY <1>5, <1>10, <1>12, <1>13, <1>14, <1>15

-----------------------------------------------------------------------------
(* An insertion from the bottom up *)

\* As far as an insertion for s looks at it, the text is still the source, and
\* no line of the declaration is further down.
Untouched(t, s) ==
    /\ Reach(s) <= Len(t)
    /\ \A n \in 1..Reach(s) : t[n] = Original[n]
    /\ \A n \in 1..Len(t) : Reach(s) < n => t[n] \notin {<<s, "head">>, <<s, "shared">>}

\* Every line of u is a line of t or one of the comment.
LEMMA LinesOfReplaced ==
    ASSUME NEW t, NEW u, NEW s, NEW a, NEW n, Replaces(t, u, s, a, n), NEW i \in 1..Len(u)
    PROVE  \/ i \in 1..a /\ i \in 1..Len(t) /\ u[i] = t[i]
           \/ \E k \in 1..NewLength : i = a + k /\ u[i] = <<s, "new">>
           \/ \E k \in 1..(Len(t) - (a + n)) :
                 i = (a + NewLength) + k /\ u[i] = t[(a + n) + k]
<1>1. PICK c \in Nat, d \in Nat, L \in Nat, N \in Nat :
        c = a /\ d = n /\ L = Len(t) /\ N = NewLength
  BY SizesAreNatural, LenProperties DEF Replaces
<1>2. c + d <= L /\ Len(u) = L - d + N
  BY <1>1 DEF Replaces
<1>3. CASE i <= c
  <2>1. i \in 1..c /\ i \in 1..L
    BY <1>2, <1>3
  <2> QED BY <1>1, <2>1 DEF Replaces
<1>4. CASE c < i /\ i <= c + N
  <2>1. i - c \in 1..N /\ i = c + (i - c)
    BY <1>4
  <2>2. u[c + (i - c)] = <<s, "new">>
    BY <1>1, <2>1 DEF Replaces
  <2> QED BY <1>1, <2>1, <2>2
<1>5. CASE c + N < i
  <2>1. i - (c + N) \in 1..(L - (c + d)) /\ i = (c + N) + (i - (c + N))
    BY <1>2, <1>5
  <2>2. u[(c + N) + (i - (c + N))] = t[(c + d) + (i - (c + N))]
    BY <1>1, <2>1 DEF Replaces, Alike
  <2> QED BY <1>1, <2>1, <2>2
<1>6. i \in Nat
  OBVIOUS
<1> QED BY <1>3, <1>4, <1>5, <1>6

LEMMA InsertUntouched ==
    ASSUME SourceTypes, NEW t \in Seq(Line), NEW s \in Symbols, Untouched(t, s)
    PROVE  /\ Replaces(t, Insert(t, s), s, DocLine(s) - 1, old[s])
           /\ (DocLine(s) - 1) + old[s] <= Reach(s) /\ DocLine(s) - 1 \in Nat
<1>1. PICK p \in Nat \ {0} : p = DocLine(s)
  BY Declarations
<1>2. PICK d \in Nat : d = old[s]
  BY DEF SourceTypes
<1>3. PICK L \in Nat : L = Len(t)
  BY LenProperties
<1>4. PICK r \in Nat : r = Reach(s)
  BY Declarations
<1>5. (p - 1) + d <= r
  BY <1>1, <1>2, <1>4, Declarations
<1>6. r <= L
  BY <1>3, <1>4 DEF Untouched
<1>7. Replaces(t, Insert(t, s), s, p - 1, d)
  <2>1. p - 1 = IF p <= L THEN p - 1 ELSE L
    BY <1>5, <1>6
  <2>2. (p + d) - 1 <= L
    BY <1>5, <1>6
  <2>3. Replaces(t, Insert(t, s), s, IF DocLine(s) <= Len(t) THEN DocLine(s) - 1 ELSE Len(t),
                 old[s])
    BY <1>1, <1>2, <1>3, <2>2, InsertReplaces
  <2> QED BY <1>1, <1>2, <1>3, <2>1, <2>3
<1> QED BY <1>1, <1>2, <1>4, <1>5, <1>7

\* In an untouched text the program lines that an insertion replaces are those
\* that shared a line with the comment of s, and these are nowhere else.
LEMMA ReplacedLines ==
    ASSUME SourceTypes, NEW t \in Seq(Line), NEW s \in Symbols, Untouched(t, s),
           NEW C, C \subseteq CodeLines, NEW a, a = DocLine(s) - 1, NEW d, d = old[s],
           NEW L, L = Len(t)
    PROVE  /\ Blank(t, C \ SharedWith(s), a, d) /\ Blank(t, SharedWith(s), 0, a)
           /\ Blank(t, SharedWith(s), a + d, L - (a + d))
<1>1. PICK r \in Nat : r = Reach(s)
  BY Declarations
<1>2. a \in Nat /\ d \in Nat /\ L \in Nat /\ a + d <= r /\ r <= L
  BY <1>1, InsertUntouched, LenProperties DEF SourceTypes, Untouched
<1>3. /\ \A n \in 1..r : t[n] = Original[n]
      /\ \A n \in 1..L : r < n => t[n] \notin SharedWith(s)
      /\ \A n \in 1..r : n \in 1..Len(Original)
  <2>1. SharedWith(s) \subseteq {<<s, "head">>, <<s, "shared">>}
    BY DEF SharedWith
  <2>2. /\ \A n \in 1..r : t[n] = Original[n]
        /\ \A n \in 1..L : r < n => t[n] \notin {<<s, "head">>, <<s, "shared">>}
    BY <1>1 DEF Untouched
  <2>3. r <= Len(Original) /\ Len(Original) \in Nat
    BY <1>1, Declarations, SourceLines, LenProperties DEF Original, SourceTypes
  <2> QED BY <2>1, <2>2, <2>3
<1>4. ASSUME NEW i \in 1..d
      PROVE  a + i \in 1..r /\ t[a + i] \in {<<s, "old">>} \cup SharedWith(s)
  <2>1. a + i \in 1..r
    BY <1>2
  <2>2. Original[a + i] \in {<<s, "old">>} \cup SharedWith(s)
    BY Declarations
  <2> QED BY <1>3, <2>1, <2>2
<1>5. \A n \in 1..L : t[n] \in SharedWith(s) => n - a \in 1..d
  <2> SUFFICES ASSUME NEW n \in 1..L, t[n] \in SharedWith(s) PROVE n - a \in 1..d
    OBVIOUS
  <2>1. n \in 1..r
    BY <1>2, <1>3
  <2> QED BY <1>3, <2>1, Declarations
<1>6. Blank(t, C \ SharedWith(s), a, d)
  <2>1. <<s, "old">> \notin C
    BY DEF CodeLines
  <2> QED BY <1>4, <2>1 DEF Blank
<1>7. ASSUME NEW i \in 1..a PROVE t[0 + i] \notin SharedWith(s)
  <2>1. 0 + i = i /\ i \in 1..L /\ i - a \notin 1..d
    BY <1>2
  <2> QED BY <1>5, <2>1
<1>8. ASSUME NEW i \in 1..(L - (a + d)) PROVE t[(a + d) + i] \notin SharedWith(s)
  <2>1. (a + d) + i \in 1..L /\ ((a + d) + i) - a \notin 1..d
    BY <1>2
  <2> QED BY <1>5, <2>1
<1> QED BY <1>6, <1>7, <1>8 DEF Blank

\* An insertion at an untouched place takes away the program text that shares
\* a line with the comment, and no other; one that replaces nothing, none.
LEMMA InsertKeepsProgram ==
    ASSUME SourceTypes, NEW t \in Seq(Line), NEW s \in Symbols,
           Untouched(t, s) \/ old[s] = 0
    PROVE  /\ Insert(t, s) \in Seq(Line) /\ Insert(t, s) # << >>
           /\ \A C \in SUBSET CodeLines : Only(Insert(t, s), C) = Only(t, C \ SharedWith(s))
           /\ \A n \in 1..Len(Insert(t, s)) :
                 \/ Insert(t, s)[n] = <<s, "new">>
                 \/ \E m \in 1..Len(t) : Insert(t, s)[n] = t[m]
<1>1. PICK u : u = Insert(t, s)
  OBVIOUS
<1> DEFINE Loses(a, n) ==
             \A C \in SUBSET CodeLines :
                /\ Blank(t, C \ SharedWith(s), a, n) /\ Blank(t, SharedWith(s), 0, a)
                /\ Blank(t, SharedWith(s), a + n, Len(t) - (a + n))
<1>2. \E a \in Nat : Replaces(t, u, s, a, old[s]) /\ Loses(a, old[s])
  <2>1. CASE Untouched(t, s)
    <3>1. PICK a, d, L : a \in Nat /\ a = DocLine(s) - 1 /\ d = old[s] /\ L = Len(t)
      BY <2>1, InsertUntouched
    <3>2. Replaces(t, u, s, a, d)
      BY <1>1, <2>1, <3>1, InsertUntouched
    <3>3. ASSUME NEW C \in SUBSET CodeLines
          PROVE  /\ Blank(t, C \ SharedWith(s), a, d) /\ Blank(t, SharedWith(s), 0, a)
                 /\ Blank(t, SharedWith(s), a + d, L - (a + d))
      BY <2>1, <3>1, ReplacedLines
    <3> QED BY <3>1, <3>2, <3>3
  <2>2. CASE old[s] = 0
    <3>1. old[s] \in Nat /\ DocLine(s) \in Nat \ {0}
      BY Declarations DEF SourceTypes
    <3>2. PICK a : a = IF DocLine(s) <= Len(t) THEN DocLine(s) - 1 ELSE Len(t)
      OBVIOUS
    <3>3. Replaces(t, u, s, a, old[s])
      BY <1>1, <2>2, <3>1, <3>2, InsertReplaces
    <3>4. Loses(a, old[s])
      BY <2>2 DEF Blank, SharedWith
    <3>5. a \in Nat
      BY <3>1, <3>2, LenProperties
    <3> QED BY <3>3, <3>4, <3>5
  <2> QED BY <2>1, <2>2
<1>3. PICK a \in Nat : Replaces(t, u, s, a, old[s]) /\ Loses(a, old[s])
  BY <1>2
<1>4. ASSUME NEW C \in SUBSET CodeLines PROVE Only(u, C) = Only(t, C \ SharedWith(s))
  <2>1. <<s, "new">> \notin C
    BY DEF CodeLines
  <2>2. PICK X : X = SharedWith(s)
    OBVIOUS
  <2>3. /\ Blank(t, C \ X, a, old[s]) /\ Blank(t, X, 0, a)
        /\ Blank(t, X, a + old[s], Len(t) - (a + old[s]))
    BY <1>3, <2>2
  <2>4. Replaces(t, u, s, a, old[s])
    BY <1>3
  <2>5. Only(u, C) = Only(t, C \ X)
    BY <2>1, <2>3, <2>4, ReplacingKeepsLines
  <2> QED BY <2>2, <2>5
<1> HIDE DEF Loses
<1>5. PICK d \in Nat, L \in Nat, N \in Nat \ {0} : d = old[s] /\ L = Len(t) /\ N = NewLength
  BY SizesAreNatural, LenProperties DEF SourceTypes
<1>6. u \in Seq(Line) /\ Len(u) = L - d + N /\ a + d <= L
  BY <1>3, <1>5 DEF Replaces
<1>7. u # << >>
  <2>1. Len(u) # 0
    BY <1>6
  <2> QED BY <2>1
<1>8. ASSUME NEW n \in 1..Len(u)
      PROVE  u[n] = <<s, "new">> \/ \E m \in 1..Len(t) : u[n] = t[m]
  <2>1. \A k \in 1..(L - (a + d)) : (a + d) + k \in 1..L
    BY <1>6
  <2>2. \/ n \in 1..Len(t) /\ u[n] = t[n]
        \/ u[n] = <<s, "new">>
        \/ \E k \in 1..(Len(t) - (a + old[s])) : u[n] = t[(a + old[s]) + k]
    BY <1>3, LinesOfReplaced
  <2> QED BY <1>5, <2>1, <2>2
<1> QED BY <1>1, <1>4, <1>6, <1>7, <1>8

\* What is above stays untouched: the symbols before s reach less far.
LEMMA InsertKeepsAbove ==
    ASSUME SourceTypes, NEW t \in Seq(Line), NEW s \in Symbols, Untouched(t, s),
           NEW r \in Symbols, r < s, Untouched(t, r)
    PROVE  Untouched(Insert(t, s), r)
<1>1. PICK u : u = Insert(t, s)
  OBVIOUS
<1>2. PICK a \in Nat, d \in Nat, L \in Nat, N \in Nat :
        a = DocLine(s) - 1 /\ d = old[s] /\ L = Len(t) /\ N = NewLength
  <2>1. DocLine(s) - 1 \in Nat
    BY InsertUntouched
  <2> QED BY <2>1, SizesAreNatural, LenProperties DEF SourceTypes
<1>3. /\ a + d <= L /\ Len(u) = L - d + N /\ \A i \in 1..a : u[i] = t[i]
      /\ a + d <= Reach(s)
  BY <1>1, <1>2, InsertUntouched DEF Replaces
<1>4. Reach(r) \in Nat /\ Reach(r) <= a
  BY <1>2, Declarations
<1>5. Reach(r) <= Len(u)
  BY <1>3, <1>4
<1>6. Reach(s) \in Nat /\ \A i \in 1..Reach(s) : t[i] = Original[i]
  BY Declarations DEF Untouched
<1>7. \A i \in 1..Reach(r) : i \in 1..a /\ i \in 1..Reach(s)
  BY <1>3, <1>4, <1>6
<1>8. ASSUME NEW n \in 1..Len(u), Reach(r) < n
      PROVE  u[n] \notin {<<r, "head">>, <<r, "shared">>}
  <2>1. Replaces(t, u, s, a, d)
    BY <1>1, <1>2, InsertUntouched
  <2>2. \/ n \in 1..a /\ n \in 1..Len(t) /\ u[n] = t[n]
        \/ \E k \in 1..NewLength : n = a + k /\ u[n] = <<s, "new">>
        \/ \E k \in 1..(Len(t) - (a + d)) :
              n = (a + NewLength) + k /\ u[n] = t[(a + d) + k]
    BY <2>1, LinesOfReplaced
  <2>3. \A m \in 1..Len(t) : Reach(r) < m => t[m] \notin {<<r, "head">>, <<r, "shared">>}
    BY DEF Untouched
  <2>4. ASSUME NEW k \in 1..(Len(t) - (a + d)), u[n] = t[(a + d) + k]
        PROVE  u[n] \notin {<<r, "head">>, <<r, "shared">>}
    <3>1. PICK R \in Nat : R = Reach(r) /\ R <= a
      BY <1>4
    <3>2. k \in Nat /\ 1 <= k /\ k <= L - (a + d)
      BY <1>2, <2>4
    <3>3. (a + d) + k \in 1..L /\ R < (a + d) + k
      BY <1>2, <3>1, <3>2
    <3> QED BY <1>2, <2>3, <2>4, <3>1, <3>3
  <2>5. r # s
    BY SizesAreNatural DEF Symbols
  <2>6. u[n] = <<s, "new">> => u[n] \notin {<<r, "head">>, <<r, "shared">>}
    BY <2>5
  <2>7. n \in 1..Len(t) /\ u[n] = t[n] => u[n] \notin {<<r, "head">>, <<r, "shared">>}
    BY <1>8, <2>3
  <2> QED BY <2>2, <2>4, <2>6, <2>7
<1> QED BY <1>1, <1>3, <1>5, <1>6, <1>7, <1>8 DEF Untouched

LEMMA InsertStaysInPlace ==
    ASSUME SourceTypes, NEW t \in Seq(Line), NEW s \in Symbols, Untouched(t, s),
           InPlace(t), \A n \in 1..Len(t) : t[n] # <<s, "new">>
    PROVE  InPlace(Insert(t, s))
<1>1. PICK u : u = Insert(t, s)
  OBVIOUS
<1>2. PICK a \in Nat, d \in Nat, L \in Nat, N \in Nat \ {0} :
        a = DocLine(s) - 1 /\ d = old[s] /\ L = Len(t) /\ N = NewLength
  <2>1. DocLine(s) - 1 \in Nat
    BY InsertUntouched
  <2> QED BY <2>1, SizesAreNatural, LenProperties DEF SourceTypes
<1>3. Replaces(t, u, s, a, d) /\ a + d <= Reach(s)
  BY <1>1, <1>2, InsertUntouched
<1>4. /\ a + d <= L /\ Len(u) = L - d + N /\ \A i \in 1..a : u[i] = t[i]
      /\ \A i \in 1..N : u[a + i] = <<s, "new">>
      /\ \A i \in 1..(L - (a + d)) : u[(a + N) + i] = t[(a + d) + i]
  BY <1>2, <1>3 DEF Replaces, Alike
<1>5. PICK r \in Nat : r = Reach(s)
  BY Declarations
<1>6. r <= L /\ a + d <= r /\ \A i \in 1..r : t[i] = Original[i]
  BY <1>2, <1>3, <1>5 DEF Untouched
<1>7. PICK h \in 1..r : h = HeadLine(s)
  BY <1>5, Declarations
<1>8. /\ t[h] = <<s, "head">> /\ t[r][1] = s
      /\ language = "Java" => h = (a + d) + 1
      /\ language # "Java" /\ ~Inline(s) => h = a
  <2>1. r \in 1..r
    BY <1>7
  <2> QED BY <1>2, <1>5, <1>6, <1>7, <2>1, Declarations
<1> DEFINE Beside(w, n, m) ==
             m \in 1..Len(w) /\ w[m] \in {<<w[n][1], "new">>, <<w[n][1], "head">>}
<1>9. \A n \in 1..L : t[n][2] = "new" /\ ~Inline(t[n][1]) =>
         /\ language = "Java" => Beside(t, n, n + 1)
         /\ language # "Java" => Beside(t, n, n - 1)
  BY <1>2 DEF InPlace
<1> HIDE DEF Beside
<1>10. ASSUME NEW n \in 1..a PROVE u[n][2] # "new"
  <2>1. n \in 1..r
    BY <1>6
  <2>2. u[n] = Original[n]
    BY <1>4, <1>6, <2>1
  <2>3. n \in 1..Len(Original)
    BY <1>5, <2>1, Declarations
  <2> QED BY <2>2, <2>3, SourceLines DEF Original, SourceTypes
<1>11. ASSUME NEW k \in 1..N, ~Inline(s)
       PROVE  /\ language = "Java" => Beside(u, a + k, (a + k) + 1)
              /\ language # "Java" => Beside(u, a + k, (a + k) - 1)
  <2>1. u[a + k] = <<s, "new">>
    BY <1>4
  <2>2. ASSUME NEW m \in 1..Len(u), u[m] = <<s, "new">> \/ u[m] = <<s, "head">>
        PROVE  Beside(u, a + k, m)
    <3>1. u[a + k][1] = s
      BY <2>1
    <3> QED BY <2>2, <3>1 DEF Beside
  <2>3. CASE language = "Java"
    <3>1. CASE k = N
      <4>1. h = (a + d) + 1 /\ 1 \in 1..(L - (a + d))
        BY <1>6, <1>8, <2>3
      <4>2. u[(a + N) + 1] = t[(a + d) + 1]
        BY <1>4, <4>1
      <4>3. (a + N) + 1 \in 1..Len(u)
        BY <1>4, <4>1
      <4> QED BY <1>8, <2>2, <2>3, <3>1, <4>1, <4>2, <4>3
    <3>2. CASE k # N
      <4>1. k + 1 \in 1..N /\ (a + k) + 1 = a + (k + 1)
        BY <3>2
      <4>2. u[a + (k + 1)] = <<s, "new">>
        BY <1>4, <4>1
      <4>3. (a + k) + 1 \in 1..Len(u)
        BY <1>4, <4>1
      <4> QED BY <2>2, <2>3, <4>1, <4>2, <4>3
    <3> QED BY <3>1, <3>2
  <2>4. CASE language # "Java"
    <3>1. CASE k = 1
      <4>1. h = a /\ (a + k) - 1 = a
        BY <1>8, <1>11, <2>4, <3>1
      <4>2. a \in 1..a
        BY <4>1
      <4>3. u[a] = t[a] /\ t[a] = <<s, "head">>
        BY <1>4, <1>8, <4>1, <4>2
      <4>4. a \in 1..Len(u)
        BY <1>4, <4>2
      <4> QED BY <2>2, <2>4, <4>1, <4>3, <4>4
    <3>2. CASE k # 1
      <4>1. k - 1 \in 1..N /\ (a + k) - 1 = a + (k - 1)
        BY <3>2
      <4>2. u[a + (k - 1)] = <<s, "new">>
        BY <1>4, <4>1
      <4>3. (a + k) - 1 \in 1..Len(u)
        BY <1>4, <4>1
      <4> QED BY <2>2, <2>4, <4>1, <4>2, <4>3
    <3> QED BY <3>1, <3>2
  <2> QED BY <2>3, <2>4
<1>12. ASSUME NEW k \in 1..(L - (a + d)), t[(a + d) + k][2] = "new", ~Inline(t[(a + d) + k][1])
       PROVE  /\ language = "Java" => Beside(u, (a + N) + k, ((a + N) + k) + 1)
              /\ language # "Java" => Beside(u, (a + N) + k, ((a + N) + k) - 1)
  <2>1. PICK c \in Nat, e \in Nat : c = a + d /\ e = a + N
    OBVIOUS
  <2>2. /\ \A i \in 1..(L - c) : u[e + i] = t[c + i]
        /\ Len(u) = e + (L - c) /\ c <= L
    <3>1. \A i \in 1..(L - c) : u[e + i] = t[c + i]
      BY <1>4, <2>1
    <3>2. c <= L /\ Len(u) = L - d + N
      BY <1>4, <2>1
    <3>3. L - d + N = e + (L - c)
      BY <2>1
    <3> QED BY <3>1, <3>2, <3>3
  <2>3. c + k \in 1..L /\ t[c + k][2] = "new" /\ k \in 1..(L - c) /\ ~Inline(t[c + k][1])
    BY <1>12, <2>1, <2>2
  <2>4. u[e + k] = t[c + k]
    BY <2>2, <2>3
  <2>5. ASSUME NEW i \in 1..(L - c), NEW m, NEW n, m = c + i, n = e + i, Beside(t, c + k, m)
        PROVE  Beside(u, e + k, n)
    <3>1. u[n] = t[m] /\ n \in 1..Len(u)
      BY <2>2, <2>5
    <3> QED BY <2>4, <2>5, <3>1 DEF Beside
  <2>6. CASE language = "Java"
    <3>1. Beside(t, c + k, (c + k) + 1)
      BY <1>9, <2>3, <2>6
    <3>2. (c + k) + 1 <= L
      BY <1>2, <3>1 DEF Beside
    <3>3. k + 1 \in 1..(L - c) /\ (c + k) + 1 = c + (k + 1) /\ (e + k) + 1 = e + (k + 1)
      BY <3>2
    <3>4. Beside(u, e + k, (e + k) + 1)
      BY <2>5, <3>1, <3>3
    <3> QED BY <2>1, <2>6, <3>4
  <2>7. CASE language # "Java"
    <3>1. Beside(t, c + k, (c + k) - 1)
      BY <1>9, <2>3, <2>7
    <3>2. CASE k = 1
      <4>1. (c + k) - 1 = c /\ c \in 1..L /\ c <= r
        <5>1. (c + k) - 1 = c
          BY <3>2
        <5>2. c \in 1..L
          BY <1>2, <3>1, <5>1 DEF Beside
        <5> QED BY <1>6, <2>1, <5>1, <5>2
      <4>2. c = r
        <5>1. c + 1 <= r => FALSE
          <6> SUFFICES ASSUME c + 1 <= r PROVE FALSE
            OBVIOUS
          <6>1. c + k \in 1..r /\ c + k \in 1..Len(Original)
            BY <1>5, <3>2, <4>1, Declarations
          <6>2. t[c + k] = Original[c + k]
            BY <1>6, <6>1
          <6> QED BY <2>3, <6>1, <6>2, SourceLines DEF Original, SourceTypes
        <5>2. c \in Nat /\ r \in Nat /\ c <= r
          BY <1>5, <2>1, <4>1, Declarations
        <5> QED BY <5>1, <5>2
      <4>3. t[c] \in {<<t[c + k][1], "new">>, <<t[c + k][1], "head">>}
        BY <3>1, <4>1 DEF Beside
      <4>4. t[c + k][1] = s
        BY <1>8, <4>2, <4>3
      <4>5. t[c + k] \in Line
        BY <1>2, <2>3, ElementOfSeq
      <4>6. t[c + k] = <<s, "new">>
        BY <2>3, <4>4, <4>5 DEF Line
      <4> QED BY <1>2, <2>3, <4>6
    <3>3. CASE k # 1
      <4>1. k - 1 \in 1..(L - c) /\ (c + k) - 1 = c + (k - 1) /\ (e + k) - 1 = e + (k - 1)
        BY <2>3, <3>3
      <4>2. Beside(u, e + k, (e + k) - 1)
        BY <2>5, <3>1, <4>1
      <4> QED BY <2>1, <2>7, <4>2
    <3> QED BY <3>2, <3>3
  <2> QED BY <2>6, <2>7
<1>13. ASSUME NEW n \in 1..Len(u), u[n][2] = "new", ~Inline(u[n][1])
       PROVE  /\ language = "Java" => Beside(u, n, n + 1)
              /\ language # "Java" => Beside(u, n, n - 1)
  <2>1. \/ n \in 1..a
        \/ \E k \in 1..N : n = a + k
        \/ \E k \in 1..(L - (a + d)) : n = (a + N) + k /\ u[n] = t[(a + d) + k]
    <3>1. \/ n \in 1..a /\ n \in 1..Len(t) /\ u[n] = t[n]
          \/ \E k \in 1..NewLength : n = a + k /\ u[n] = <<s, "new">>
          \/ \E k \in 1..(Len(t) - (a + d)) :
                n = (a + NewLength) + k /\ u[n] = t[(a + d) + k]
      BY <1>3, LinesOfReplaced
    <3> QED BY <1>2, <3>1
  <2>2. CASE n \in 1..a
    BY <1>10, <1>13, <2>2
  <2>3. CASE \E k \in 1..N : n = a + k
    <3>1. PICK k \in 1..N : n = a + k
      BY <2>3
    <3>2. u[n] = <<s, "new">>
      BY <1>4, <3>1
    <3>3. ~Inline(s)
      BY <1>13, <3>2
    <3> QED BY <1>11, <3>1, <3>3
  <2>4. CASE \E k \in 1..(L - (a + d)) : n = (a + N) + k /\ u[n] = t[(a + d) + k]
    BY <1>12, <1>13, <2>4
  <2> QED BY <2>1, <2>2, <2>3, <2>4
<1> QED BY <1>1, <1>13 DEF InPlace, Beside

-----------------------------------------------------------------------------
(* The annotated text of a run *)

\* A comment was translated before the missing ones are inserted.
Translated == documented \cap Doing("translate") # {}

\* Where something is to be translated, generation replaces nothing.
KindsFit == Doing("translate") # {} => \A s \in Doing("generate") : old[s] = 0

\* Each loop finds the text untouched up to the symbols it has still to do.
Loops ==
    /\ stage \in {"parsed", "translate", "translating", "translated", "collect", "drain"} =>
         /\ documented \subseteq Doing("translate")
         /\ documented = {} => text = Original
    /\ stage = "parsed" => documented = {}
    /\ stage \in {"translate", "translating"} =>
         todo \subseteq Doing("translate") /\ \A s \in todo : Untouched(text, s)
    /\ stage = "insert" =>
         /\ todo \subseteq Doing("generate")
         /\ ~Translated => \A s \in todo : Untouched(text, s)
    /\ stage \in {"translate", "translating", "insert"} => todo \cap documented = {}
    /\ stage = "translating" => todo # {}

\* Program text on the lines of the comments of S.
Lost(S) == UNION {SharedWith(r) : r \in S}

\* The text holds the program but for what shared a line with a comment that
\* was replaced, and new comments of documented symbols only.
TextHolds ==
    /\ text \in Seq(Line)
    /\ text # << >> =>
         \A C \in SUBSET CodeLines : Only(text, C) = Only(Original, C \ Lost(documented))
    /\ \A n \in 1..Len(text) : text[n][2] = "new" => text[n][1] \in documented
    /\ ~Translated => InPlace(text)

TextInv ==
    /\ SourceTypes
    /\ stage \notin {"idle", "ended"} => text # << >> /\ KindsFit
    /\ stage = "idle" => text = << >> /\ documented = {}
    /\ TextHolds
    /\ Loops

LEMMA LargestIsIn ==
    ASSUME NEW S \in SUBSET Symbols, S # {}
    PROVE  Largest(S) \in S /\ \A x \in S : x <= Largest(S)
<1>1. PICK N \in Nat : N = SymbolCount
  BY SizesAreNatural
<1>2. \A x \in S : x \in 1..N
  BY <1>1 DEF Symbols
<1>3. PICK T : T = {N - x : x \in S}
  OBVIOUS
<1>4. PICK m \in T : \A k \in T : m <= k
  <2>1. T \subseteq Nat /\ T # {}
    BY <1>2, <1>3
  <2> QED BY <2>1, LeastExists
<1>5. PICK s \in S : m = N - s
  BY <1>3
<1>6. \A x \in S : x <= s
  <2> SUFFICES ASSUME NEW x \in S PROVE x <= s
    OBVIOUS
  <2>1. N - s <= N - x
    BY <1>3, <1>4, <1>5
  <2> QED BY <1>2, <2>1
<1> QED BY <1>6 DEF Largest

LEMMA EmptyText ==
    ASSUME text = << >>, documented = {}
    PROVE  TextHolds
BY DEF TextHolds, InPlace

LEMMA TextInit == Init => TextInv
<1> SUFFICES ASSUME Init PROVE TextInv
  OBVIOUS
<1>1. SourceTypes /\ text = << >> /\ documented = {} /\ stage = "idle"
  BY DEF Init, SourceTypes, Languages
<1>2. TextHolds
  BY <1>1, EmptyText
<1> QED BY <1>1, <1>2 DEF TextInv, Loops

\* A step that changes neither the text nor the source keeps what is said of
\* them; what is left is said of the loops.
LEMMA TextStutters ==
    ASSUME TextInv, UNCHANGED <<source, text, documented>>
    PROVE  /\ SourceTypes' /\ TextHolds' /\ KindsFit' = KindsFit
           /\ Translated' = Translated /\ Original' = Original
           /\ \A what : Doing(what)' = Doing(what)
           /\ \A t, s : Untouched(t, s)' = Untouched(t, s)
<1>1. /\ language' = language /\ old' = old /\ shared' = shared /\ kind' = kind
      /\ text' = text /\ documented' = documented /\ Original' = Original
  BY DEF source, Original
<1>2. /\ \A what : Doing(what)' = Doing(what)
      /\ \A s : Inline(s)' = Inline(s) /\ Reach(s)' = Reach(s) /\ SharedWith(s)' = SharedWith(s)
  BY <1>1 DEF Doing, Inline, Reach, Own, HeadLine, SharedWith
<1>3. Lost(documented)' = Lost(documented) /\ InPlace(text)' = InPlace(text)
  BY <1>1, <1>2 DEF Lost, InPlace
<1>4. Translated' = Translated /\ KindsFit' = KindsFit
  BY <1>1, <1>2 DEF Translated, KindsFit
<1>5. TextHolds'
  BY <1>1, <1>3, <1>4 DEF TextInv, TextHolds
<1> QED BY <1>1, <1>2, <1>4, <1>5 DEF TextInv, SourceTypes, Untouched

\* The same, for a step that may change the text but not the source.
LEMMA SourceStutters ==
    ASSUME TextInv, UNCHANGED source
    PROVE  /\ SourceTypes' /\ KindsFit' = KindsFit /\ Original' = Original
           /\ Doing("translate")' = Doing("translate") /\ Doing("generate")' = Doing("generate")
           /\ \A r : Reach(r)' = Reach(r) /\ SharedWith(r)' = SharedWith(r)
<1>1. /\ language' = language /\ old' = old /\ shared' = shared /\ kind' = kind
      /\ Original' = Original
  BY DEF source, Original
<1>2. /\ \A what : Doing(what)' = Doing(what)
      /\ \A s : Inline(s)' = Inline(s) /\ Reach(s)' = Reach(s) /\ SharedWith(s)' = SharedWith(s)
  BY <1>1 DEF Doing, Inline, Reach, Own, HeadLine, SharedWith
<1> QED BY <1>1, <1>2 DEF TextInv, SourceTypes, KindsFit

\* What an accepted comment of s takes from the program is what it shared a
\* line with.
LEMMA InsertLoses ==
    ASSUME SourceTypes, TextHolds, text # << >>, NEW s \in Symbols,
           Untouched(text, s) \/ old[s] = 0
    PROVE  \A C \in SUBSET CodeLines :
              Only(Insert(text, s), C) = Only(Original, C \ Lost(documented \cup {s}))
<1> SUFFICES ASSUME NEW C \in SUBSET CodeLines
             PROVE  Only(Insert(text, s), C) = Only(Original, C \ Lost(documented \cup {s}))
  OBVIOUS
<1>1. Only(Insert(text, s), C) = Only(text, C \ SharedWith(s))
  BY InsertKeepsProgram DEF TextHolds
<1>2. C \ SharedWith(s) \in SUBSET CodeLines
  OBVIOUS
<1>3. Only(text, C \ SharedWith(s)) = Only(Original, (C \ SharedWith(s)) \ Lost(documented))
  BY <1>2 DEF TextHolds
<1>4. Lost(documented \cup {s}) = SharedWith(s) \cup Lost(documented)
  BY DEF Lost
<1>5. (C \ SharedWith(s)) \ Lost(documented) = C \ Lost(documented \cup {s})
  BY <1>4
<1> QED BY <1>1, <1>3, <1>5

\* Lines of a text with the comment of one more symbol.
LEMMA NewLinesAreDocumented ==
    ASSUME NEW t, NEW u, NEW s, NEW S,
           \A n \in 1..Len(t) : t[n][2] = "new" => t[n][1] \in S,
           \A n \in 1..Len(u) : u[n] = <<s, "new">> \/ \E m \in 1..Len(t) : u[n] = t[m]
    PROVE  \A n \in 1..Len(u) : u[n][2] = "new" => u[n][1] \in S \cup {s}
OBVIOUS

LEMMA ParseKeepsText ==
    ASSUME TextInv, Parse
    PROVE  TextInv'
<1>1. PICK lang, lens, ends :
        /\ lang = language' /\ lens = old' /\ ends = shared'
        /\ lang \in Languages /\ lens \in [Symbols -> Nat]
  <2>1. language' \in Languages
    BY DEF Parse, Languages
  <2>2. old' \in [Symbols -> OldLengths] /\ OldLengths \subseteq Nat
    BY SizesAreNatural DEF Parse
  <2>3. old' \in [Symbols -> Nat]
    BY <2>2
  <2> QED BY <2>1, <2>3
<1>2. PICK t : t = Source(lang, lens, ends)
  OBVIOUS
<1>3. t \in Seq(Line) /\ t # << >> /\ \A n \in 1..Len(t) : t[n][2] # "new"
  <2>1. lang \in Languages /\ lens \in [Symbols -> Nat]
    BY <1>1
  <2> QED BY <1>2, <2>1, SourceLines
<1>4. text' = t /\ Original' = t
  BY <1>1, <1>2 DEF Parse, Original
<1>5. documented = {} /\ documented' = {} /\ stage' = "parsed"
  BY DEF TextInv, Parse
<1>6. SourceTypes'
  BY <1>1 DEF SourceTypes
<1>7. TextHolds'
  <2>1. ~Translated'
    BY <1>5 DEF Translated
  <2>2. InPlace(text)'
    BY <1>3, <1>4 DEF InPlace
  <2>3. \A C : Only(text', C) = Only(Original', C \ Lost(documented)')
    <3>1. Lost(documented)' = {}
      BY <1>5 DEF Lost
    <3>2. \A C : C \ {} = C
      OBVIOUS
    <3> QED BY <1>4, <3>1, <3>2
  <2> QED BY <1>3, <1>4, <2>1, <2>2, <2>3 DEF TextHolds
<1>8. KindsFit'
  <2>1. PICK incremental \in BOOLEAN : \A s \in Symbols : kind'[s] \in Kinds(lens[s], incremental)
    BY <1>1 DEF Parse
  <2>2. ASSUME NEW r \in Symbols, kind'[r] = "translate", NEW s \in Symbols,
               kind'[s] = "generate"
        PROVE  lens[s] = 0
    <3>1. incremental
      BY <2>1, <2>2 DEF Kinds
    <3>2. ~ (lens[s] > 0)
      BY <2>1, <2>2, <3>1 DEF Kinds
    <3>3. lens[s] \in Nat
      BY <1>1
    <3> QED BY <3>2, <3>3
  <2> QED BY <1>1, <2>2 DEF KindsFit, Doing
<1> QED BY <1>3, <1>4, <1>5, <1>6, <1>7, <1>8 DEF TextInv, Loops

\* Steps outside the two insertion loops, except Shutdown.
LEMMA OtherStepsKeepText ==
    ASSUME TextInv, UNCHANGED <<source, text, documented>>,
           \/ stage' = stage /\ todo' = todo
           \/ stage' = "ended"
           \/ stage \notin {"idle", "ended"} /\ stage' \in {"finish", "package"}
           \/ /\ stage \in {"parsed", "translate", "translating", "translated", "collect"}
              /\ stage' \in {"translated", "collect", "drain"}
           \/ stage = "translate" /\ stage' = "translating" /\ todo' = todo /\ todo # {}
           \/ stage = "parsed" /\ stage' = "translate" /\ todo' = Doing("translate")
    PROVE  TextInv'
<1>1. /\ SourceTypes' /\ TextHolds' /\ KindsFit' = KindsFit
      /\ Translated' = Translated /\ Original' = Original
      /\ \A what : Doing(what)' = Doing(what)
      /\ \A t, s : Untouched(t, s)' = Untouched(t, s)
  BY TextStutters
<1>2. text' = text /\ documented' = documented
  OBVIOUS
<1>3. Doing("translate")' = Doing("translate") /\ Doing("generate")' = Doing("generate")
  BY <1>1
<1>4. \A s : Untouched(text, s)' = Untouched(text, s)
  BY <1>1, <1>2
<1>5. stage' \notin {"idle", "ended"} => text' # << >> /\ KindsFit'
  BY <1>1, <1>2 DEF TextInv
<1>6. stage' = "idle" => text' = << >> /\ documented' = {}
  BY <1>2 DEF TextInv
<1>7. Loops'
  <2>1. CASE stage' = stage /\ todo' = todo
    BY <1>1, <1>2, <1>3, <1>4, <2>1 DEF TextInv, Loops
  <2>2. CASE stage' \in {"ended", "finish", "package"}
    BY <2>2 DEF Loops
  <2>3. CASE /\ stage \in {"parsed", "translate", "translating", "translated", "collect"}
             /\ stage' \in {"translated", "collect", "drain"}
    BY <1>1, <1>2, <1>3, <2>3 DEF TextInv, Loops
  <2>4. CASE stage = "translate" /\ stage' = "translating" /\ todo' = todo /\ todo # {}
    BY <1>1, <1>2, <1>3, <1>4, <2>4 DEF TextInv, Loops
  <2>5. CASE stage = "parsed" /\ stage' = "translate" /\ todo' = Doing("translate")
    <3>1. documented = {} /\ text = Original
      BY <2>5 DEF TextInv, Loops
    <3>2. \A s \in Symbols : Untouched(text, s)
      BY <3>1, Declarations DEF TextInv, Untouched
    <3>3. \A s \in Doing("translate") : s \in Symbols
      BY DEF Doing
    <3> QED BY <1>1, <1>2, <1>3, <1>4, <2>5, <3>1, <3>2, <3>3 DEF Loops
  <2> QED BY <2>1, <2>2, <2>3, <2>4, <2>5
<1> QED BY <1>1, <1>5, <1>6, <1>7 DEF TextInv

LEMMA TranslationKeepsText ==
    ASSUME TextInv, TranslateReturns
    PROVE  TextInv'
<1>1. PICK s : s = NextSymbol(todo)
  OBVIOUS
<1>2. /\ stage = "translating" /\ stage' = "translate" /\ UNCHANGED source
      /\ todo' = todo \ {s}
      /\ \/ text' = Insert(text, s) /\ documented' = documented \cup {s}
         \/ UNCHANGED <<text, documented>>
  BY <1>1 DEF TranslateReturns
<1>3. /\ todo # {} /\ todo \subseteq Doing("translate") /\ todo \cap documented = {}
      /\ \A r \in todo : Untouched(text, r)
      /\ documented \subseteq Doing("translate")
      /\ documented = {} => text = Original
  BY <1>2 DEF TextInv, Loops
<1>4. todo \in SUBSET Symbols
  BY <1>3 DEF Doing
<1>5. s \in todo /\ s \in Symbols /\ \A r \in todo : r <= s
  BY <1>1, <1>3, <1>4, LargestIsIn DEF NextSymbol
<1>6. /\ SourceTypes' /\ KindsFit' = KindsFit /\ Original' = Original
      /\ Doing("translate")' = Doing("translate") /\ Doing("generate")' = Doing("generate")
      /\ \A r : Reach(r)' = Reach(r)
  BY <1>2, SourceStutters
<1>7. CASE UNCHANGED <<text, documented>>
  <2>1. TextHolds'
    BY <1>2, <1>7, TextStutters
  <2>2. \A r : Untouched(text, r)' = Untouched(text, r)
    BY <1>6, <1>7 DEF Untouched
  <2>3. Loops'
    BY <1>2, <1>3, <1>6, <1>7, <2>2 DEF Loops
  <2> QED BY <1>2, <1>6, <1>7, <2>1, <2>3 DEF TextInv
<1>8. CASE text' = Insert(text, s) /\ documented' = documented \cup {s}
  <2>1. SourceTypes /\ text \in Seq(Line) /\ Untouched(text, s) /\ text # << >> /\ KindsFit
    BY <1>2, <1>3, <1>5 DEF TextInv, TextHolds
  <2>2. /\ text' \in Seq(Line) /\ text' # << >>
        /\ \A n \in 1..Len(text') :
              text'[n] = <<s, "new">> \/ \E m \in 1..Len(text) : text'[n] = text[m]
    BY <1>5, <1>8, <2>1, InsertKeepsProgram
  <2>3. \A n \in 1..Len(text') : text'[n][2] = "new" => text'[n][1] \in documented'
    BY <1>8, <2>2, NewLinesAreDocumented DEF TextInv, TextHolds
  <2>4. Translated'
    BY <1>3, <1>5, <1>6, <1>8 DEF Translated
  <2>5. \A C \in SUBSET CodeLines : Only(text', C) = Only(Original', C \ Lost(documented)')
    <3>1. \A C \in SUBSET CodeLines :
             Only(text', C) = Only(Original, C \ Lost(documented \cup {s}))
      BY <1>5, <1>8, <2>1, InsertLoses DEF TextInv
    <3>2. Lost(documented)' = Lost(documented \cup {s})
      BY <1>2, <1>8, SourceStutters DEF Lost
    <3> QED BY <1>6, <3>1, <3>2
  <2>6. TextHolds'
    BY <2>2, <2>3, <2>4, <2>5 DEF TextHolds
  <2>7. ASSUME NEW r \in todo, r # s PROVE Untouched(text, r)'
    <3>1. r \in Symbols /\ r < s
      BY <1>4, <1>5, <2>7, SizesAreNatural DEF Symbols
    <3>2. Untouched(Insert(text, s), r)
      BY <1>3, <1>5, <2>1, <3>1, InsertKeepsAbove
    <3> QED BY <1>6, <1>8, <3>2 DEF Untouched
  <2>8. Loops'
    BY <1>2, <1>3, <1>5, <1>6, <1>8, <2>7 DEF Loops
  <2> QED BY <1>2, <1>6, <2>1, <2>2, <2>6, <2>8 DEF TextInv
<1> QED BY <1>2, <1>7, <1>8

LEMMA ShutdownKeepsText ==
    ASSUME TextInv, Shutdown
    PROVE  TextInv'
<1>1. UNCHANGED <<source, text, documented>> /\ stage = "drain"
  BY DEF Shutdown, document
<1>2. CASE stage' = "ended"
  BY <1>1, <1>2, OtherStepsKeepText
<1>3. CASE stage' = "insert" /\ todo' = Doing("generate")
  <2>1. /\ SourceTypes' /\ TextHolds' /\ KindsFit' = KindsFit
        /\ Translated' = Translated /\ Original' = Original
        /\ \A what : Doing(what)' = Doing(what)
        /\ \A t, s : Untouched(t, s)' = Untouched(t, s)
    BY <1>1, TextStutters
  <2>2. documented \subseteq Doing("translate") /\ (documented = {} => text = Original)
    BY <1>1 DEF TextInv, Loops
  <2>3. ~Translated => documented = {}
    BY <2>2 DEF Translated
  <2>4. documented = {} => \A s \in Symbols : Untouched(text, s)
    BY <2>2, Declarations DEF TextInv, Untouched
  <2>5. Doing("generate") \subseteq Symbols /\ Doing("generate") \cap Doing("translate") = {}
    BY DEF Doing
  <2>6. \A s : Untouched(text, s)' = Untouched(text, s)
    BY <1>1, <2>1
  <2>7. Doing("generate")' = Doing("generate")
    BY <2>1
  <2>8. Loops'
    BY <1>1, <1>3, <2>1, <2>2, <2>3, <2>4, <2>5, <2>6, <2>7 DEF Loops
  <2> QED BY <1>1, <1>3, <2>1, <2>8 DEF TextInv
<1> QED BY <1>2, <1>3 DEF Shutdown, End

LEMMA InsertionKeepsText ==
    ASSUME TextInv, InsertNext \/ InsertSkips
    PROVE  TextInv'
<1>1. PICK s : s = NextSymbol(todo)
  OBVIOUS
<1>2. /\ stage = "insert" /\ stage' = "insert" /\ UNCHANGED source
      /\ todo # {} /\ todo' = todo \ {s}
      /\ \/ text' = Insert(text, s) /\ documented' = documented \cup {s}
         \/ UNCHANGED <<text, documented>>
  BY <1>1 DEF InsertNext, InsertSkips, document
<1>3. /\ todo \subseteq Doing("generate") /\ todo \cap documented = {}
      /\ ~Translated => \A r \in todo : Untouched(text, r)
  BY <1>2 DEF TextInv, Loops
<1>4. todo \in SUBSET Symbols
  BY <1>3 DEF Doing
<1>5. s \in todo /\ s \in Symbols /\ \A r \in todo : r <= s
  BY <1>1, <1>2, <1>4, LargestIsIn DEF NextSymbol
<1>6. /\ SourceTypes' /\ KindsFit' = KindsFit /\ Original' = Original
      /\ Doing("translate")' = Doing("translate") /\ Doing("generate")' = Doing("generate")
      /\ \A r : Reach(r)' = Reach(r)
  BY <1>2, SourceStutters
<1>7. CASE UNCHANGED <<text, documented>>
  <2>1. TextHolds' /\ Translated' = Translated
    BY <1>2, <1>7, TextStutters
  <2>2. \A r : Untouched(text, r)' = Untouched(text, r)
    BY <1>6, <1>7 DEF Untouched
  <2>3. Loops'
    BY <1>2, <1>3, <1>6, <1>7, <2>1, <2>2 DEF Loops
  <2> QED BY <1>2, <1>6, <1>7, <2>1, <2>3 DEF TextInv
<1>8. CASE text' = Insert(text, s) /\ documented' = documented \cup {s}
  <2>1. SourceTypes /\ text \in Seq(Line) /\ text # << >> /\ KindsFit
    BY <1>2 DEF TextInv, TextHolds
  <2>2. Untouched(text, s) \/ old[s] = 0
    <3>1. CASE Translated
      BY <1>3, <1>5, <2>1, <3>1 DEF Translated, KindsFit
    <3> QED BY <1>3, <1>5, <3>1
  <2>3. /\ text' \in Seq(Line) /\ text' # << >>
        /\ \A n \in 1..Len(text') :
              text'[n] = <<s, "new">> \/ \E m \in 1..Len(text) : text'[n] = text[m]
    BY <1>5, <1>8, <2>1, <2>2, InsertKeepsProgram
  <2>4. \A n \in 1..Len(text') : text'[n][2] = "new" => text'[n][1] \in documented'
    BY <1>8, <2>3, NewLinesAreDocumented DEF TextInv, TextHolds
  <2>5. Translated' = Translated
    <3>1. s \notin Doing("translate")
      BY <1>3, <1>5 DEF Doing
    <3> QED BY <1>6, <1>8, <3>1 DEF Translated
  <2>6. \A C \in SUBSET CodeLines : Only(text', C) = Only(Original', C \ Lost(documented)')
    <3>1. \A C \in SUBSET CodeLines :
             Only(text', C) = Only(Original, C \ Lost(documented \cup {s}))
      BY <1>5, <1>8, <2>1, <2>2, InsertLoses DEF TextInv
    <3>2. Lost(documented)' = Lost(documented \cup {s})
      BY <1>2, <1>8, SourceStutters DEF Lost
    <3> QED BY <1>6, <3>1, <3>2
  <2>7. ~Translated => InPlace(Insert(text, s))
    <3> SUFFICES ASSUME ~Translated PROVE InPlace(Insert(text, s))
      OBVIOUS
    <3>1. Untouched(text, s) /\ InPlace(text) /\ s \notin documented
      BY <1>3, <1>5 DEF TextInv, TextHolds
    <3>2. \A n \in 1..Len(text) : text[n] # <<s, "new">>
      BY <3>1 DEF TextInv, TextHolds
    <3> QED BY <1>5, <2>1, <3>1, <3>2, InsertStaysInPlace
  <2>8. InPlace(text)' <=> InPlace(Insert(text, s))
    BY <1>2, <1>8 DEF InPlace, source, Inline
  <2>9. TextHolds'
    BY <2>3, <2>4, <2>5, <2>6, <2>7, <2>8 DEF TextHolds
  <2>10. ASSUME ~Translated, NEW r \in todo, r # s PROVE Untouched(text, r)'
    <3>1. r \in Symbols /\ r < s
      BY <1>4, <1>5, <2>10, SizesAreNatural DEF Symbols
    <3>2. Untouched(text, s) /\ Untouched(text, r)
      BY <1>3, <1>5, <2>10
    <3>3. Untouched(Insert(text, s), r)
      BY <1>5, <2>1, <3>1, <3>2, InsertKeepsAbove
    <3> QED BY <1>6, <1>8, <3>3 DEF Untouched
  <2>11. Loops'
    BY <1>2, <1>3, <1>5, <1>6, <1>8, <2>5, <2>10 DEF Loops
  <2> QED BY <1>2, <1>6, <2>1, <2>3, <2>9, <2>11 DEF TextInv
<1> QED BY <1>2, <1>7, <1>8

LEMMA NextRunClearsText ==
    ASSUME NextRun
    PROVE  TextInv'
<1>1. SourceTypes' /\ text' = << >> /\ documented' = {} /\ stage' = "idle"
  BY DEF NextRun, SourceTypes, Languages
<1>2. TextHolds'
  BY <1>1 DEF TextHolds, InPlace
<1> QED BY <1>1, <1>2 DEF TextInv, Loops

LEMMA TextStep ==
    ASSUME TextInv, [Next]_vars
    PROVE  TextInv'
<1>1. CASE UNCHANGED vars
  <2>1. UNCHANGED <<source, text, documented>> /\ stage' = stage /\ todo' = todo
    BY <1>1 DEF vars, source
  <2> QED BY <2>1, OtherStepsKeepText
<1>2. CASE NothingToDo
  BY <1>2, OtherStepsKeepText DEF NothingToDo, End, document
<1>3. CASE Parse
  BY <1>3, ParseKeepsText
<1>4. CASE EnterTranslation \/ TranslateCall \/ EndTranslation
  <2>1. /\ UNCHANGED <<source, text, documented>>
        /\ \/ /\ stage \in {"parsed", "translate"}
              /\ stage' = "translated"
           \/ stage = "translate" /\ stage' = "translating" /\ todo' = todo /\ todo # {}
           \/ stage = "parsed" /\ stage' = "translate" /\ todo' = Doing("translate")
    BY <1>4 DEF EnterTranslation, TranslateCall, EndTranslation, document
  <2> QED BY <2>1, OtherStepsKeepText
<1>5. CASE TranslateReturns
  BY <1>5, TranslationKeepsText
<1>6. CASE SkipGeneration \/ SubmitAll \/ EndCollection
  <2>1. /\ UNCHANGED <<source, text, documented>>
        /\ stage \in {"translated", "collect"}
        /\ stage' \in {"finish", "collect", "drain"}
    BY <1>6 DEF SkipGeneration, SubmitAll, EndCollection, document
  <2> QED BY <2>1, OtherStepsKeepText
<1>7. CASE \/ \E s \in Symbols : Collect(s) \/ CancelFuture(s)
           \/ Worker \/ WriteMarkdown \/ Cancel
  <2>1. UNCHANGED <<source, text, documented>> /\ stage' = stage /\ todo' = todo
    BY <1>7 DEF Collect, CancelFuture, Worker, WorkerStarts, WorkerReturns, WriteMarkdown,
                Cancel, document
  <2> QED BY <2>1, OtherStepsKeepText
<1>8. CASE Shutdown
  BY <1>8, ShutdownKeepsText
<1>9. CASE InsertNext \/ InsertSkips
  BY <1>9, InsertionKeepsText
<1>10. CASE InsertRaises \/ ReportFailure \/ WriteSource \/ WriteFails
  <2>1. UNCHANGED <<source, text, documented>> /\ stage' = "ended"
    BY <1>10 DEF InsertRaises, ReportFailure, WriteSource, WriteFails, End, document
  <2> QED BY <2>1, OtherStepsKeepText
<1>11. CASE EndInsertion \/ Present
  <2>1. /\ UNCHANGED <<source, text, documented>>
        /\ stage \in {"insert", "finish"} /\ stage' \in {"finish", "package"}
    BY <1>11 DEF EndInsertion, Present, document
  <2> QED BY <2>1, OtherStepsKeepText
<1>12. CASE Close
  <2>1. /\ UNCHANGED <<source, text, documented>>
        /\ \/ stage = "collect" /\ stage' = "drain"
           \/ stage' = "ended"
    BY <1>12 DEF Close, End, document
  <2> QED BY <2>1, OtherStepsKeepText
<1>13. CASE NextRun
  BY <1>13, NextRunClearsText
<1> QED
  BY <1>1, <1>2, <1>3, <1>4, <1>5, <1>6, <1>7, <1>8, <1>9, <1>10, <1>11, <1>12, <1>13
     DEF Next, Run, Generator

\* For any number of symbols, in either language, with comments of any length
\* and program text on the first or the last line of any of them: what shared
\* a line with a comment that was replaced is gone, and the rest of the program
\* comes through every insertion and every failure between two of them; and in
\* a run that translates nothing each new comment is at its declaration.
THEOREM AnnotationStaysSound == Spec => []AnnotationIsSound
<1>1. TextInv => AnnotationIsSound
  BY DEF TextInv, TextHolds, Lost, Translated, AnnotationIsSound
<1> QED BY TextInit, TextStep, <1>1, PTL DEF Spec
=============================================================================
