----------------------------- MODULE CommentRun -----------------------------
(***************************************************************************)
(* One comment-generation run: process_code_with_progress over              *)
(* _process_python_with_progress or _process_java_with_progress.  The       *)
(* generator translates existing comments, has a thread pool generate the   *)
(* missing ones, inserts them into the source and writes two files.  Worker *)
(* threads, the holder of the CancelToken and the consumer of the frames    *)
(* act between its steps.                                                   *)
(*                                                                          *)
(* Text is a sequence of lines <<symbol, part>>; a part is the symbol's     *)
(* declaration ("head"), a line of its old or new comment, a line that an   *)
(* old comment shares with program text ("shared"), or a line below the     *)
(* declaration ("body").  Wording, logging and the diff are left out.       *)
(***************************************************************************)
EXTENDS Integers, Sequences, FiniteSets, SequencesExt

CONSTANTS
    SymbolCount,  \* symbols of the source file, in file order
    MaxWorkers,
    OldLengths,   \* lines of an existing comment, 0 without one
    NewLength,    \* lines of a generated or translated comment
    BodyLength,
    Sharings      \* which ends of each comment's place hold program text

ASSUME SizesAreNatural ==
    /\ SymbolCount \in Nat \ {0} /\ MaxWorkers \in Nat \ {0}
    /\ NewLength \in Nat \ {0} /\ BodyLength \in Nat /\ OldLengths \subseteq Nat
    /\ Sharings \subseteq [1..SymbolCount -> SUBSET {"first", "last"}]

Symbols == 1..SymbolCount

VARIABLES
    stage,       \* where the generator is
    token,       \* the CancelToken is set
    closed,      \* the consumer has closed the generator
    frames,      \* frames yielded so far
    language,    \* a comment is below the head in Python, above it in Java
    old,         \* length of each symbol's comment in the source
    shared,      \* ends of the comment that share a line with program text
    kind,        \* what the run is to do with each symbol
    todo,        \* symbols left in the current loop
    future,      \* each symbol's future
    results,     \* symbols whose generated comment was collected
    errors,      \* symbols whose generation raised
    entries,     \* how often each symbol is in doc_entries
    text,        \* annotated_code
    documented,  \* symbols whose new comment was accepted into text
    failed,      \* symbols the log marks with a cross
    files,       \* temporary files written for the downloads
    outcome

vars == <<stage, token, closed, frames, language, old, shared, kind, todo, future, results,
          errors, entries, text, documented, failed, files, outcome>>

source == <<language, old, shared, kind>>
pool == <<future, results, errors>>
document == <<entries, text, documented, failed>>

-----------------------------------------------------------------------------
(* Lines *)

Lines(s, part, n) == [k \in 1..n |-> <<s, part>>]

\* A Python declaration whose body begins on its own line, where a docstring
\* is, or would go.
OnOneLine(s, lang, ends) == lang = "Python" /\ "first" \in ends[s]

\* The k-th line of the comment in the source.  Its first line may follow
\* other code (in Python: the declaration), its last may be followed by some.
CommentPart(s, lang, lengths, ends, k) ==
    IF k = 1 /\ OnOneLine(s, lang, ends) THEN "head"
    ELSE IF \/ k = 1 /\ "first" \in ends[s]
            \/ k = lengths[s] /\ "last" \in ends[s]
         THEN "shared"
    ELSE "old"

\* Lines of the declaration that are not lines of its comment as well.
OwnLines(s, lang, lengths, ends) ==
    IF OnOneLine(s, lang, ends) /\ lengths[s] > 0 THEN 0 ELSE 1

\* No two symbols begin on one line.  What is between a declaration and its
\* comment (a signature of several lines, blank lines) counts as the head.
Block(s, lang, lengths, ends) ==
    LET doc == [k \in 1..lengths[s] |-> <<s, CommentPart(s, lang, lengths, ends, k)>>]
        head == Lines(s, "head", OwnLines(s, lang, lengths, ends))
    IN  (IF lang = "Java" THEN doc \o head ELSE head \o doc)
        \o Lines(s, "body", BodyLength)

Source(lang, lengths, ends) ==
    FlattenSeq([s \in Symbols |-> Block(s, lang, lengths, ends)])

Original == Source(language, old, shared)

Inline(s) == OnOneLine(s, language, shared)

\* item["lineno"]: the declaration's line in the source that was parsed.
HeadLine(s) ==
    CHOOSE n \in 1..Len(Original) : Original[n] = <<s, "head">>

\* The first line that the comment replaces or is put before; in Python the
\* line of node.body[0], which may be the declaration's.
DocLine(s) ==
    IF language = "Java" THEN HeadLine(s) - old[s]
    ELSE IF Inline(s) THEN HeadLine(s) ELSE HeadLine(s) + 1

\* insert_docstring_into_code and insert_javadoc_into_code: line numbers of
\* the source that was parsed, applied to the text as it is now.  Whole lines
\* are replaced, with whatever else is on them.  The parsers' lines are taken
\* to be those of splitlines() (no form feeds or Unicode line separators).
Insert(t, s) ==
    SubSeq(t, 1, IF DocLine(s) <= Len(t) THEN DocLine(s) - 1 ELSE Len(t))
    \o Lines(s, "new", NewLength)
    \o SubSeq(t, DocLine(s) + old[s], Len(t))

\* The syntax check may accept the result.  A docstring that is put where a
\* one-line declaration begins is indented deeper than it, which is an error
\* unless it can belong to a block above.
MayParse(s) == Inline(s) => s > 1

\* lines[item["lineno"] - 1] raises IndexError otherwise.
HasHeadLine(t, s) == HeadLine(s) <= Len(t)

-----------------------------------------------------------------------------
Largest(S) == CHOOSE s \in S : \A x \in S : x <= s

Doing(what) == {s \in Symbols : kind[s] = what}

Log(s) == failed' = failed \cup {s}

Document(s, n) == entries' = [entries EXCEPT ![s] = @ + n]

Yield(n) == frames' = frames + n

Init ==
    /\ stage = "idle"
    /\ token = FALSE
    /\ closed = FALSE
    /\ frames = 0
    /\ language = "Python"
    /\ old = [s \in Symbols |-> 0]
    /\ shared = [s \in Symbols |-> {}]
    /\ kind = [s \in Symbols |-> "none"]
    /\ todo = {}
    /\ future = [s \in Symbols |-> "none"]
    /\ results = {}
    /\ errors = {}
    /\ entries = [s \in Symbols |-> 0]
    /\ text = << >>
    /\ documented = {}
    /\ failed = {}
    /\ files = {}
    /\ outcome = "none"

End(result) ==
    /\ stage' = "ended"
    /\ outcome' = result

\* The source is invalid, parses to nothing, or has two symbols of one id.
NothingToDo ==
    /\ stage = "idle"
    /\ \/ End("rejected") /\ Yield(1)   \* validate_local_input
       \/ End("original") /\ Yield(2)   \* no items; the frame after the loop
       \/ End("raised")   /\ Yield(0)   \* _parse_items_with_symbols
    /\ UNCHANGED <<token, closed, todo, files, source, pool, document>>

\* What incremental mode does with a symbol; "blank" is a docstring without
\* text.  Otherwise every symbol is generated anew.
Kinds(length, incremental) ==
    IF incremental /\ length > 0 THEN {"translate", "keep", "blank"}
    ELSE {"generate"}

\* Where a comment of this length, or its place, can share a line.
Ends(lang, length) ==
    IF length > 0 THEN {"first", "last"}
    ELSE IF lang = "Python" THEN {"first"} ELSE {}

Parse ==
    /\ stage = "idle"
    /\ language' \in {"Python", "Java"}
    /\ old' \in [Symbols -> OldLengths]
    /\ shared' \in Sharings
    /\ \A s \in Symbols : shared'[s] \subseteq Ends(language', old'[s])
    /\ kind' \in [Symbols -> {"translate", "keep", "blank", "generate"}]
    /\ \E incremental \in BOOLEAN :
         \A s \in Symbols : kind'[s] \in Kinds(old'[s], incremental)
    /\ text' = Source(language', old', shared')
    /\ entries' = [s \in Symbols |-> IF kind'[s] = "keep" THEN 1 ELSE 0]
    /\ stage' = "parsed"
    /\ Yield(1)
    /\ UNCHANGED <<token, closed, todo, pool, documented, failed, files, outcome>>

-----------------------------------------------------------------------------
(* Translation of existing comments, from the bottom of the file up *)

EnterTranslation ==
    /\ stage = "parsed"
    /\ IF Doing("translate") # {} /\ ~token
       THEN stage' = "translate" /\ todo' = Doing("translate") /\ Yield(1)
       ELSE stage' = "translated" /\ UNCHANGED <<todo, frames>>
    /\ UNCHANGED <<token, closed, source, pool, document, files, outcome>>

\* Fault: from the top of the file down.
NextFromTheTop(S) == CHOOSE s \in S : \A x \in S : s <= x

\* sorted by lineno, reversed.
NextSymbol(S) == Largest(S)

TranslateCall ==
    /\ stage = "translate"
    /\ todo # {} /\ ~token
    /\ stage' = "translating"
    /\ UNCHANGED <<token, closed, frames, todo, source, pool, document, files, outcome>>

\* The translation is inserted; or the provider fails and the existing
\* comment is kept; or the insertion fails after the symbol was entered.
TranslateReturns ==
    LET s == NextSymbol(todo) IN
    /\ stage = "translating"
    /\ \/ /\ HasHeadLine(text, s) /\ MayParse(s)
          /\ text' = Insert(text, s)
          /\ documented' = documented \cup {s}
          /\ Document(s, 1)
          /\ UNCHANGED failed
       \/ \E n \in {1, 2} :
          /\ Document(s, n)
          /\ Log(s)
          /\ UNCHANGED <<text, documented>>
    /\ todo' = todo \ {s}
    /\ stage' = "translate"
    /\ Yield(1)
    /\ UNCHANGED <<token, closed, source, pool, files, outcome>>

EndTranslation ==
    /\ stage = "translate"
    /\ todo = {} \/ token
    /\ stage' = "translated"
    /\ UNCHANGED <<token, closed, frames, todo, source, pool, document, files, outcome>>

-----------------------------------------------------------------------------
(* Generation in the thread pool *)

SkipGeneration ==
    /\ stage = "translated"
    /\ token \/ Doing("generate") = {}
    /\ stage' = "finish"
    /\ Yield(IF token THEN 0 ELSE 1)
    /\ UNCHANGED <<token, closed, todo, source, pool, document, files, outcome>>

SubmitAll ==
    /\ stage = "translated"
    /\ ~token /\ Doing("generate") # {}
    /\ future' = [s \in Symbols |->
                     IF s \in Doing("generate") THEN "queued" ELSE "none"]
    /\ stage' = "collect"
    /\ Yield(1)
    /\ UNCHANGED <<token, closed, todo, results, errors, source, document, files, outcome>>

In(state) == {s \in Symbols : future[s] = state}

\* A worker thread takes a queued future, and returns from its provider call.
WorkerStarts(s) ==
    /\ future[s] = "queued"
    /\ Cardinality(In("running")) < MaxWorkers
    /\ future' = [future EXCEPT ![s] = "running"]
    /\ UNCHANGED <<stage, token, closed, frames, todo, results, errors, source,
                   document, files, outcome>>

WorkerReturns(s) ==
    /\ future[s] = "running"
    /\ future' = [future EXCEPT ![s] = "done"]
    /\ UNCHANGED <<stage, token, closed, frames, todo, results, errors, source,
                   document, files, outcome>>

Uncollected == In("done") \ (results \cup errors)

\* as_completed hands over a finished future.
Collect(s) ==
    /\ stage = "collect"
    /\ ~token
    /\ s \in Uncollected
    /\ \/ results' = results \cup {s} /\ UNCHANGED <<errors, failed>>
       \/ errors' = errors \cup {s} /\ Log(s) /\ UNCHANGED results
    /\ Yield(1)
    /\ UNCHANGED <<stage, token, closed, todo, future, source, entries, text,
                   documented, files, outcome>>

\* The loop ends with the last future, or at the first finished one after
\* the token was set, which is not looked at.
EndCollection ==
    /\ stage = "collect"
    /\ \/ results \cup errors = Doing("generate")
       \/ token /\ Uncollected # {}
    /\ stage' = "drain"
    /\ UNCHANGED <<token, closed, frames, todo, source, pool, document, files, outcome>>

\* f.cancel() for a future that no worker has taken yet.
CancelFuture(s) ==
    /\ stage = "drain"
    /\ future[s] = "queued"
    /\ future' = [future EXCEPT ![s] = "cancelled"]
    /\ UNCHANGED <<stage, token, closed, frames, todo, results, errors, source,
                   document, files, outcome>>

\* Fault: shutdown(wait=False).
ShutdownWithoutWait ==
    /\ stage = "drain"
    /\ In("queued") = {}
    /\ IF closed
       THEN End("closed") /\ UNCHANGED <<todo, frames>>
       ELSE stage' = "insert" /\ todo' = Doing("generate") /\ Yield(1) /\ UNCHANGED outcome
    /\ UNCHANGED <<token, closed, source, pool, document, files>>

\* Fault: shutdown returns once every submitted call has been answered.
ShutdownAwaitsEveryAnswer ==
    /\ stage = "drain"
    /\ \A s \in Doing("generate") : future[s] = "done"
    /\ IF closed
       THEN End("closed") /\ UNCHANGED <<todo, frames>>
       ELSE stage' = "insert" /\ todo' = Doing("generate") /\ Yield(1) /\ UNCHANGED outcome
    /\ UNCHANGED <<token, closed, source, pool, document, files>>

\* executor.shutdown(wait=True) returns.
Shutdown ==
    /\ stage = "drain"
    /\ In("queued") = {} /\ In("running") = {}
    /\ IF closed
       THEN End("closed") /\ UNCHANGED <<todo, frames>>
       ELSE stage' = "insert" /\ todo' = Doing("generate") /\ Yield(1) /\ UNCHANGED outcome
    /\ UNCHANGED <<token, closed, source, pool, document, files>>

-----------------------------------------------------------------------------
(* Insertion of generated comments, from the bottom up *)

\* Fault: a comment that is refused leaves the loop.
InsertUntilRefused ==
    LET s == NextSymbol(todo) IN
    /\ stage = "insert"
    /\ todo # {} /\ ~token
    /\ s \in results
    /\ HasHeadLine(text, s)
    /\ Document(s, 1)
    /\ \/ /\ MayParse(s)
          /\ text' = Insert(text, s) /\ documented' = documented \cup {s}
          /\ todo' = todo \ {s} /\ UNCHANGED failed
       \/ Log(s) /\ todo' = {} /\ UNCHANGED <<text, documented>>
    /\ Yield(1)
    /\ UNCHANGED <<stage, token, closed, source, pool, files, outcome>>

\* The result is accepted, or refused by the syntax check and logged.
InsertNext ==
    LET s == NextSymbol(todo) IN
    /\ stage = "insert"
    /\ todo # {} /\ ~token
    /\ s \in results
    /\ HasHeadLine(text, s)
    /\ Document(s, 1)
    /\ \/ /\ MayParse(s)
          /\ text' = Insert(text, s) /\ documented' = documented \cup {s}
          /\ UNCHANGED failed
       \/ Log(s) /\ UNCHANGED <<text, documented>>
    /\ todo' = todo \ {s}
    /\ Yield(1)
    /\ UNCHANGED <<stage, token, closed, source, pool, files, outcome>>

InsertSkips ==
    LET s == NextSymbol(todo) IN
    /\ stage = "insert"
    /\ todo # {} /\ ~token
    /\ s \notin results
    /\ todo' = todo \ {s}
    /\ UNCHANGED <<stage, token, closed, frames, source, pool, document, files, outcome>>

\* IndexError, which the loop does not catch.
InsertRaises ==
    LET s == NextSymbol(todo) IN
    /\ stage = "insert"
    /\ todo # {} /\ ~token
    /\ s \in results
    /\ ~HasHeadLine(text, s)
    /\ Document(s, 1)
    /\ End("raised")
    /\ UNCHANGED <<token, closed, frames, todo, source, pool, text, documented,
                   failed, files>>

EndInsertion ==
    /\ stage = "insert"
    /\ todo = {} \/ token
    /\ stage' = "finish"
    /\ UNCHANGED <<token, closed, frames, todo, source, pool, document, files, outcome>>

-----------------------------------------------------------------------------
(* Results *)

NothingDocumented == \A s \in Symbols : entries[s] = 0

\* An error frame without files, after which the wrapper falls back to the
\* source as it was.
ReportFailure ==
    /\ stage = "finish"
    /\ errors # {} /\ NothingDocumented
    /\ End("original")
    /\ Yield(2)
    /\ UNCHANGED <<token, closed, todo, source, pool, document, files>>

Present ==
    /\ stage = "finish"
    /\ errors = {} \/ ~NothingDocumented
    /\ stage' = "package"
    /\ Yield(1)
    /\ UNCHANGED <<token, closed, todo, source, pool, document, files, outcome>>

WriteMarkdown ==
    /\ stage = "package"
    /\ files = {}
    /\ files' = {"markdown"}
    /\ UNCHANGED <<stage, token, closed, frames, todo, source, pool, document, outcome>>

WriteSource ==
    /\ stage = "package"
    /\ files = {"markdown"}
    /\ files' = {"markdown", "source"}
    /\ End("result")
    /\ Yield(1)
    /\ UNCHANGED <<token, closed, todo, source, pool, document>>

\* A full disk: the exception leaves the generator.
WriteFails ==
    /\ stage = "package"
    /\ End("raised")
    /\ UNCHANGED <<token, closed, frames, todo, source, pool, document, files>>

-----------------------------------------------------------------------------
\* Any thread that holds the token.
Cancel ==
    /\ stage \notin {"idle", "ended"}
    /\ token' = TRUE
    /\ UNCHANGED <<stage, closed, frames, todo, source, pool, document, files, outcome>>

\* GeneratorExit at a yield; in the collection loop it passes the finally
\* that shuts the pool down.
Close ==
    /\ \/ stage \in {"parsed", "translate", "collect", "insert", "finish"}
       \/ stage = "package" /\ files = {}
    /\ closed' = TRUE
    /\ IF stage = "collect" THEN stage' = "drain" /\ UNCHANGED outcome ELSE End("closed")
    /\ UNCHANGED <<token, frames, todo, source, pool, document, files>>

NextRun ==
    /\ stage = "ended"
    /\ stage' = "idle"
    /\ token' = FALSE
    /\ closed' = FALSE
    /\ frames' = 0
    /\ language' = "Python"
    /\ old' = [s \in Symbols |-> 0]
    /\ shared' = [s \in Symbols |-> {}]
    /\ kind' = [s \in Symbols |-> "none"]
    /\ todo' = {}
    /\ future' = [s \in Symbols |-> "none"]
    /\ results' = {}
    /\ errors' = {}
    /\ entries' = [s \in Symbols |-> 0]
    /\ text' = << >>
    /\ documented' = {}
    /\ failed' = {}
    /\ files' = {}
    /\ outcome' = "none"

Generator ==
    \/ EnterTranslation \/ TranslateCall \/ TranslateReturns \/ EndTranslation
    \/ SkipGeneration \/ SubmitAll \/ (\E s \in Symbols : Collect(s))
    \/ EndCollection \/ (\E s \in Symbols : CancelFuture(s)) \/ Shutdown
    \/ InsertNext \/ InsertSkips \/ InsertRaises \/ EndInsertion
    \/ ReportFailure \/ Present \/ WriteMarkdown \/ WriteSource \/ WriteFails

Worker == \E s \in Symbols : WorkerStarts(s) \/ WorkerReturns(s)

Run == NothingToDo \/ Parse \/ Generator \/ Worker \/ Close \/ NextRun

Next == Run \/ Cancel

\* The consumer asks for the next frame until there is none, worker threads
\* are scheduled, and provider calls end (their client has a timeout).
Fairness == WF_vars(Generator) /\ WF_vars(Worker)

Spec == Init /\ [][Next]_vars /\ Fairness
-----------------------------------------------------------------------------
\* However a run leaves the collection loop (to the end, cancelled, or
\* closed by its consumer), no provider call of it is queued or running
\* once it goes on or ends.
NoWorkOutlivesTheRun ==
    stage \notin {"collect", "drain"} => In("queued") \cup In("running") = {}

CodeLines == Symbols \X {"head", "shared", "body"}

\* SelectSeq(t, LAMBDA line : line \in S), in a form that can be reasoned about.
Only(t, S) ==
    LET upto[n \in 0..Len(t)] ==
            IF n = 0 THEN << >>
            ELSE IF t[n] \in S THEN Append(upto[n - 1], t[n]) ELSE upto[n - 1]
    IN  upto[Len(t)]

\* Program text on the lines of the comment that s had.
SharedWith(s) ==
    IF old[s] = 0 THEN {}
    ELSE {s} \X (IF Inline(s) THEN {"head", "shared"} ELSE {"shared"})

\* Each new comment touches its symbol's declaration and no other's, if the
\* declaration has a line without its body.
InPlace(t) ==
    \A n \in 1..Len(t) : t[n][2] = "new" /\ ~Inline(t[n][1]) =>
        LET m == IF language = "Java" THEN n + 1 ELSE n - 1 IN
        m \in 1..Len(t) /\ t[m] \in {<<t[n][1], "new">>, <<t[n][1], "head">>}

\* Of the program, the text lacks what shared a line with a comment that was
\* replaced, and nothing else: no other line is ever lost, repeated or moved.
\* And within one pass, working from the bottom up keeps every line number
\* good, so that each comment lands at its declaration.
AnnotationIsSound ==
    /\ text # << >> =>
         Only(text, CodeLines)
           = Only(Original, CodeLines \ UNION {SharedWith(s) : s \in documented})
    /\ documented \cap Doing("translate") = {} => InPlace(text)

\* A run that nobody cancelled and that delivers a result has dealt with
\* every symbol: its comment was there, is there now, or the log says why not.
NothingIsLost ==
    outcome = "result" /\ ~token =>
        \A s \in Symbols :
            \/ kind[s] \in {"keep", "blank"}
            \/ s \in documented
            \/ s \in failed

\* A run ends, whatever happens to its provider calls, its token and its
\* consumer.
RunEnds == stage # "idle" ~> stage = "ended"

\* What was completed before a cancellation stays downloadable: the files are
\* written and hold every comment that the run had reported as generated.
\* (README.md:647, docs/architecture/V3_1_4_Runtime_Reliability_Contract.md)
CompletedResultsStayDownloadable ==
    stage = "ended" /\ token /\ ~closed /\ results # {} /\ outcome # "raised" =>
        outcome = "result" /\ results \subseteq documented \cup failed

\* Inserting in reverse line order keeps every comment at its declaration,
\* in a run that translates some comments and generates others as well.
\* (the comments at processor.py:359 and 723)
CommentsLandAtTheirSymbols == InPlace(text)
=============================================================================
