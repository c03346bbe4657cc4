------------------------------- MODULE Corpus -------------------------------
(***************************************************************************)
(* How files of tokens become sentences: openTagSet (feature_index.cpp),   *)
(* the loop of learn that reads the training file a second time            *)
(* (encoder.cpp), the loop of crfpp_test, and TaggerImpl::read, add, add2  *)
(* and parse_stream (tagger.cpp) that both use.                            *)
(*                                                                         *)
(* A file is a sequence of lines; getline() takes a last one that does not *)
(* end with a newline like any other.  A line is its sequence of columns;  *)
(* the empty one also stands for a line that begins with a blank or a tab, *)
(* which the code takes for empty.  LongLine is a line that does not fit   *)
(* the buffer of getline().  openTagSet cuts a line into MaxColumns        *)
(* columns at most; TaggerImpl::add has room for 8192, which a line of     *)
(* 8191 characters cannot have.                                            *)
(***************************************************************************)
EXTENDS Integers, Sequences

CONSTANTS Lines,     \* the lines that occur, LongLine and << >> among them
          LongLine,  \* more than 8191 characters
          MaxColumns, \* the columns that openTagSet has room for, 1024
          XSizes,    \* what xsize_ of a model may be
          MaxFiles,  \* bound: files of one run of crf_test
          MaxLines   \* bound: lines in all the files of one run

ASSUME LinesAssumption ==
    /\ LongLine \in Lines /\ << >> \in Lines
    /\ XSizes \subseteq Nat /\ MaxLines \in Nat
    /\ MaxFiles \in Nat \ {0} /\ MaxColumns \in Nat \ {0}
    /\ \A line \in Lines \ {LongLine, << >>} : Len(line) \in Nat \ {0}

File == UNION {[1 .. n -> Lines] : n \in 0 .. MaxLines}

\* crf_learn reads one file; crf_test reads those of its command line in turn.
LearnInputs == {<<file>> : file \in File}
Cuts(n, file) ==
    {cut \in [0 .. n -> 0 .. Len(file)] :
        cut[0] = 0 /\ cut[n] = Len(file) /\ \A k \in 1 .. n : cut[k - 1] <= cut[k]}

TestInputs ==
    UNION {{[k \in 1 .. n |-> SubSeq(file, cut[k - 1] + 1, cut[k])] :
              cut \in Cuts(n, file)} : n \in 1 .. MaxFiles, file \in File}

VARIABLES
    program,   \* "learn" or "test"
    files, f,  \* what is read, one after the other, and which one it is
    pc,
    pos,       \* the stream: lines taken from it
    fail,      \* the stream: failbit or badbit
    xsize, max_size,
    y,         \* the labels: y_ when it is there, the candidate set before
    x_,        \* the tokens of the sentence being read
    x,         \* the sentences of learn
    written    \* the sentences crf_test has written

vars == <<program, files, f, pc, pos, fail, xsize, max_size, y, x_, x, written>>

Open == pos' = 0 /\ fail' = FALSE

Init ==
    /\ \/ program = "learn" /\ files \in LearnInputs /\ pc = "tagset" /\ xsize = 0
       \/ program = "test" /\ files \in TestInputs /\ pc = "loop" /\ xsize \in XSizes
    /\ f = 1
    /\ pos = 0 /\ fail = FALSE
    /\ max_size = 0
    /\ y = {}
    /\ x_ = << >> /\ x = << >> /\ written = << >>

-----------------------------------------------------------------------------
(* The stream. *)

Line == files[f][pos + 1]

\* getline() succeeds; eofbit, if it sets it, stops only the next one.
Gets ==
    /\ ~fail
    /\ pos < Len(files[f])
    /\ Line # LongLine
    /\ pos' = pos + 1

\* getline() fails: no characters left, or no room for the newline.
GetFails == ~fail /\ pos < Len(files[f]) => Line = LongLine

-----------------------------------------------------------------------------
(* openTagSet. *)

\* The columns tokenize2 makes of a line; it drops those without room.
Columns(line) == IF Len(line) <= MaxColumns THEN Len(line) ELSE MaxColumns

\* Only the first sentence is looked at.
TagSetFirstSentence ==
    /\ pc = "tagset"
    /\ ~GetFails /\ Line = << >>
    /\ Open
    /\ pc' = "loop"
    /\ UNCHANGED <<program, files, f, xsize, max_size, y, x_, x, written>>

TagSetBlank ==
    /\ pc = "tagset"
    /\ Gets /\ Line = << >>
    /\ UNCHANGED <<program, files, f, pc, fail, xsize, max_size, y, x_, x, written>>

TagSetToken ==
    /\ pc = "tagset"
    /\ Gets /\ Line # << >>
    /\ max_size' = IF max_size = 0 THEN Columns(Line) ELSE max_size
    /\ IF max_size' = Columns(Line)
       THEN xsize' = max_size' - 1 /\ y' = y \cup {Line[max_size']} /\ UNCHANGED pc
       ELSE pc' = "failed" /\ UNCHANGED <<xsize, y>>
    /\ UNCHANGED <<program, files, f, fail, x_, x, written>>

\* The file is closed, and learn opens it again.
TagSetEnd ==
    /\ pc = "tagset"
    /\ GetFails
    /\ Open
    /\ pc' = "loop"
    /\ UNCHANGED <<program, files, f, xsize, max_size, y, x_, x, written>>

-----------------------------------------------------------------------------
(* TaggerImpl::read. *)

\* The tokens of a sentence that failed are still there.
EnterKeepsTokens ==
    /\ pc = "loop" /\ ~fail
    /\ pc' = "read"
    /\ UNCHANGED <<program, files, f, pos, fail, xsize, max_size, y, x_, x, written>>

\* The loop of learn or crfpp_test sees a stream that has not failed.
Enter ==
    /\ pc = "loop" /\ ~fail
    /\ x_' = << >>
    /\ pc' = "read"
    /\ UNCHANGED <<program, files, f, pos, fail, xsize, max_size, y, x, written>>

\* add2's checks.
Accepted(line) ==
    IF program = "learn"
    THEN Len(line) >= xsize + 1 /\ line[xsize + 1] \in y
    ELSE Len(line) >= xsize

ReadToken ==
    /\ pc = "read"
    /\ Gets /\ Line # << >> /\ Accepted(Line)
    /\ x_' = Append(x_, Line)
    /\ UNCHANGED <<program, files, f, pc, fail, xsize, max_size, y, x, written>>

\* add() fails.  learn gives up; crfpp_test does not look.
ReadBadToken ==
    /\ pc = "read"
    /\ Gets /\ Line # << >> /\ ~Accepted(Line)
    /\ pc' = IF program = "learn" THEN "failed" ELSE "loop"
    /\ UNCHANGED <<program, files, f, fail, xsize, max_size, y, x_, x, written>>

\* read() returns true: learn keeps the sentence, crfpp_test writes its labels.
SentenceEnds ==
    /\ x' = IF program = "learn" /\ x_ # << >> THEN Append(x, x_) ELSE x
    /\ written' = IF program = "test" /\ x_ # << >> THEN Append(written, x_) ELSE written
    /\ pc' = "loop"

ReadBlank ==
    /\ pc = "read"
    /\ Gets /\ Line = << >>
    /\ SentenceEnds
    /\ UNCHANGED <<program, files, f, fail, xsize, max_size, y, x_>>

\* Only eofbit is set, which no loop looks at.
ReadEndAtEof ==
    /\ pc = "read"
    /\ GetFails
    /\ fail' = FALSE
    /\ SentenceEnds
    /\ UNCHANGED <<program, files, f, pos, xsize, max_size, y, x_>>

\* The sentence is given up when the file ends in it.
ReadEndDropsSentence ==
    /\ pc = "read"
    /\ GetFails
    /\ fail' = TRUE
    /\ pc' = "loop"
    /\ UNCHANGED <<program, files, f, pos, xsize, max_size, y, x_, x, written>>

\* read() sets badbit, so that its caller's loop ends.
ReadEnd ==
    /\ pc = "read"
    /\ GetFails
    /\ fail' = TRUE
    /\ SentenceEnds
    /\ UNCHANGED <<program, files, f, pos, xsize, max_size, y, x_>>

\* The stream has failed: the next file, or the end.
FileEnds ==
    /\ pc = "loop" /\ fail
    /\ IF f < Len(files)
       THEN f' = f + 1 /\ Open /\ UNCHANGED pc
       ELSE pc' = "done" /\ UNCHANGED <<f, pos, fail>>
    /\ UNCHANGED <<program, files, xsize, max_size, y, x_, x, written>>

Finished == pc \in {"done", "failed"} /\ UNCHANGED vars

Next ==
    \/ TagSetBlank \/ TagSetToken \/ TagSetEnd
    \/ Enter \/ ReadToken \/ ReadBadToken \/ ReadBlank \/ ReadEnd
    \/ FileEnds \/ Finished

Spec == Init /\ [][Next]_vars /\ WF_vars(Next)

-----------------------------------------------------------------------------
(* What a sentence is: a run of lines. *)

\* The lines a file gives: those before the first that is too long.
Given(file) ==
    {k \in DOMAIN file : \A j \in 1 .. k : file[j] # LongLine}

Blank(line) == line = << >>
Short(line) == line # << >> /\ Len(line) < xsize
Break(line) == Blank(line) \/ (program = "test" /\ Short(line))

\* The maximal runs of lines that are no breaks, as file, first and last
\* line, without those that a bad line ends.
Pieces ==
    {p \in (DOMAIN files) \X (1 .. MaxLines) \X (1 .. MaxLines) :
        LET file == files[p[1]] IN
        /\ p[2] <= p[3] /\ p[3] \in Given(file)
        /\ \A k \in p[2] .. p[3] : ~Break(file[k])
        /\ p[2] = 1 \/ Break(file[p[2] - 1])
        /\ p[3] + 1 \in Given(file) => Blank(file[p[3] + 1])}

Before(p, q) == p[1] < q[1] \/ (p[1] = q[1] /\ p[3] < q[2])

\* The sentences of a set of pieces, in the order of the files.
InOrder(sentences, pieces) ==
    \E at \in [DOMAIN sentences -> pieces] :
        /\ \A p \in pieces : \E k \in DOMAIN sentences : at[k] = p
        /\ \A j, k \in DOMAIN sentences : j < k => Before(at[j], at[k])
        /\ \A k \in DOMAIN sentences :
             sentences[k] = SubSeq(files[at[k][1]], at[k][2], at[k][3])

(***************************************************************************)
(* learn trains on exactly the sentences of the file, the maximal runs of  *)
(* token lines, in their order; openTagSet has found in a pass of its own  *)
(* their number of columns and the labels that add2 then takes from them.  *)
(* A label is the last column of its line, but of a line with more than    *)
(* MaxColumns columns it is the one at MaxColumns: the first pass does not *)
(* see the others, and so passes lines of different widths above that.     *)
(***************************************************************************)
TrainsOnRuns ==
    program = "learn" /\ pc = "done" =>
        LET tokens == {k \in Given(files[1]) : ~Blank(files[1][k])}
        IN /\ InOrder(x, Pieces)
           /\ \A k \in tokens : Columns(files[1][k]) = xsize + 1
           /\ y = {files[1][k][xsize + 1] : k \in tokens}

(***************************************************************************)
(* After openTagSet has accepted the file, reading it again fails at no    *)
(* token: what add2 checks there ("x is small", "cannot find answer") the  *)
(* first pass has made sure of.                                            *)
(***************************************************************************)
AnswersKnown == [][program = "learn" /\ pc # "tagset" => pc' # "failed"]_vars

(***************************************************************************)
(* crf_test writes, for each file, the runs of token lines between blank   *)
(* lines and lines of too few columns, without those a bad line ends; the  *)
(* tokens of one sentence, or of one file, never get into the next.        *)
(***************************************************************************)
WritesPieces == program = "test" /\ pc = "done" => InOrder(written, Pieces)

(***************************************************************************)
(* Both programs come to the end of their input, whatever it is.           *)
(***************************************************************************)
Finishes == <>(pc \in {"done", "failed"})

=============================================================================
