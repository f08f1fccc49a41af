---------------------------- MODULE MCCommentRun ----------------------------
\* Three symbols and two workers: one call can be queued while two run, one
\* result can be collected, one fail and one be cancelled, and a symbol can
\* be above, between or below others.  Old comments of 1 and 5 lines make the
\* text longer and shorter when 3 lines replace them.
EXTENDS CommentRun

\* Comments with lines of their own.
Apart == {[s \in Symbols |-> {}]}

\* Or one comment in the middle of the file shares its first line, its last or
\* both, or all comments share both.
Layouts ==
    Apart \cup {[s \in Symbols |-> IF s = 2 THEN ends ELSE {}]
                   : ends \in SUBSET {"first", "last"}}
          \cup {[s \in Symbols |-> {"first", "last"}]}
=============================================================================
