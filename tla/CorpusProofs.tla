---------------------------- MODULE CorpusProofs ----------------------------
(***************************************************************************)
(* Reading files of tokens, for every file.  First the two passes over the *)
(* training file: the first one has seen every line that the second can    *)
(* reach.  The invariant names the line where the first pass stopped,      *)
(* because the file or what fits the buffer ended there; up to it every    *)
(* token has the columns and the label that add2 looks for.                *)
(*                                                                         *)
(* Then what the sentences are.  The invariant says it of every place in the *)
(* stream: the tokens that read() holds are the lines since the last break, *)
(* and what has been given out matches, in their order, the pieces that end *)
(* before the sentence begins.  At the end no piece is left.               *)
(***************************************************************************)
EXTENDS Corpus, TLAPS

\* What openTagSet has found of a line: it is whole, and a token line has
\* the columns and the label that add2 asks for.
Checked(line) ==
    /\ line # LongLine
    /\ line # << >> => Columns(line) = xsize + 1 /\ line[xsize + 1] \in y

\* Where openTagSet stopped.
StoppedAt(end) ==
    /\ end < Len(files[1]) => files[1][end + 1] = LongLine
    /\ \A k \in 1 .. end : Checked(files[1][k])

OneFile ==
    /\ f = 1 /\ Len(files) = 1
    /\ Len(files[1]) \in Nat
    /\ \A k \in 1 .. Len(files[1]) : files[1][k] \in Lines
    /\ pos \in 0 .. Len(files[1])

FirstPass ==
    /\ ~fail
    /\ max_size \in Nat
    /\ max_size # 0 => xsize = max_size - 1
    /\ \A k \in 1 .. pos : /\ Checked(files[1][k])
                           /\ files[1][k] # << >> => Columns(files[1][k]) = max_size

SecondPass == \E end \in 0 .. Len(files[1]) : StoppedAt(end) /\ pos \in 0 .. end

LearnInv ==
    program = "learn" =>
        /\ OneFile
        /\ pc = "tagset" => FirstPass
        /\ pc \in {"loop", "read"} => SecondPass

\* At first nothing has been read, and there is one file.
LEMMA LearnInit == Init => LearnInv
<1> SUFFICES ASSUME Init, program = "learn"
             PROVE  OneFile /\ FirstPass /\ pc = "tagset"
    BY DEF LearnInv
<1>1. files \in LearnInputs /\ pc = "tagset" /\ f = 1 /\ pos = 0 /\ ~fail /\ max_size = 0
    BY DEF Init
<1>2. PICK file \in File : files = <<file>>
    BY <1>1 DEF LearnInputs
<1>3. PICK n \in 0 .. MaxLines : file \in [1 .. n -> Lines]
    BY <1>2 DEF File
<1>4. Len(files) = 1 /\ files[1] = file /\ n \in Nat
    BY <1>2, LinesAssumption
<1>5. Len(file) = n
    BY <1>3, <1>4
<1>6. OneFile
    BY <1>1, <1>3, <1>4, <1>5 DEF OneFile
<1>7. FirstPass
    BY <1>1 DEF FirstPass
<1> QED BY <1>1, <1>6, <1>7

\* The line that getline() takes.
LEMMA NextLine ==
    ASSUME OneFile, Gets
    PROVE  /\ Line = files[1][pos + 1] /\ pos + 1 \in 1 .. Len(files[1])
           /\ Line \in Lines \ {LongLine}
           /\ pos' = pos + 1
BY DEF OneFile, Gets, Line

\* The columns of a line are among those of the file.
LEMMA ColumnsOf ==
    ASSUME NEW line, Len(line) \in Nat \ {0}
    PROVE  Columns(line) \in Nat \ {0} /\ Columns(line) <= Len(line)
BY LinesAssumption DEF Columns

LEMMA LearnStep == LearnInv /\ [Next]_vars => LearnInv'
<1> SUFFICES ASSUME LearnInv, [Next]_vars, program' = "learn"
             PROVE  /\ OneFile'
                    /\ pc' = "tagset" => FirstPass'
                    /\ pc' \in {"loop", "read"} => SecondPass'
    BY DEF LearnInv
<1>p. program = "learn" /\ files' = files
    BY DEF Next, vars, TagSetBlank, TagSetToken, TagSetEnd, Enter, ReadToken,
           ReadBadToken, ReadBlank, ReadEnd, FileEnds, Finished
<1>i. /\ OneFile
      /\ pc = "tagset" => FirstPass
      /\ pc \in {"loop", "read"} => SecondPass
    BY <1>p DEF LearnInv
<1>1. CASE TagSetBlank
    <2>1. /\ pc = "tagset" /\ pc' = pc /\ Gets /\ Line = << >>
          /\ UNCHANGED <<files, f, fail, xsize, max_size, y>>
        BY <1>1 DEF TagSetBlank
    <2>2. Line = files[1][pos + 1] /\ pos + 1 \in 1 .. Len(files[1]) /\ pos' = pos + 1
          /\ Line # LongLine
        BY <1>i, <2>1, NextLine
    <2>3. OneFile'
        BY <1>i, <2>1, <2>2 DEF OneFile
    <2>4. ASSUME NEW k \in 1 .. pos + 1
          PROVE  /\ Checked(files[1][k])
                 /\ files[1][k] # << >> => Columns(files[1][k]) = max_size
        BY <1>i, <2>1, <2>2 DEF FirstPass, Checked, OneFile
    <2>5. FirstPass'
        BY <1>i, <2>1, <2>2, <2>4 DEF FirstPass, Checked
    <2> QED BY <2>1, <2>3, <2>5
<1>2. CASE TagSetToken
    <2>1. /\ pc = "tagset" /\ Gets /\ Line # << >>
          /\ max_size' = IF max_size = 0 THEN Columns(Line) ELSE max_size
          /\ IF max_size' = Columns(Line)
             THEN xsize' = max_size' - 1 /\ y' = y \cup {Line[max_size']} /\ pc' = pc
             ELSE pc' = "failed"
          /\ UNCHANGED <<files, f, fail>>
        BY <1>2 DEF TagSetToken
    <2>2. /\ Line = files[1][pos + 1] /\ pos + 1 \in 1 .. Len(files[1])
          /\ pos' = pos + 1 /\ Line \in Lines \ {LongLine}
        BY <1>i, <2>1, NextLine
    <2>3. OneFile'
        BY <1>i, <2>1, <2>2 DEF OneFile
    <2>4. Columns(Line) \in Nat \ {0}
        BY <2>1, <2>2, LinesAssumption, ColumnsOf
    <2>5. ASSUME max_size' = Columns(Line) PROVE FirstPass'
        <3>1. /\ xsize' = max_size' - 1 /\ max_size' \in Nat \ {0}
              /\ y' = y \cup {Line[max_size']}
            BY <2>1, <2>4, <2>5
        <3> DEFINE Passed(line) ==
                     /\ line # LongLine
                     /\ line # << >> => Columns(line) = xsize' + 1 /\ line[xsize' + 1] \in y'
        <3>2. ASSUME NEW k \in 1 .. pos
              PROVE  /\ Passed(files[1][k])
                     /\ files[1][k] # << >> => Columns(files[1][k]) = max_size'
            <4>1. /\ Checked(files[1][k])
                  /\ files[1][k] # << >> => Columns(files[1][k]) = max_size
                BY <1>i, <2>1 DEF FirstPass
            <4>2. k \in 1 .. Len(files[1]) /\ files[1][k] \in Lines \ {LongLine}
                BY <1>i, <4>1 DEF OneFile, Checked
            <4>3. CASE files[1][k] = << >>
                BY <2>1, <4>1, <4>3 DEF Checked
            <4>4. CASE files[1][k] # << >>
                <5>1. Columns(files[1][k]) \in Nat \ {0}
                    BY <4>2, <4>4, LinesAssumption, ColumnsOf
                <5>2. max_size # 0 /\ max_size' = max_size /\ xsize' = xsize
                    BY <1>i, <2>1, <3>1, <4>1, <4>4, <5>1 DEF FirstPass
                <5> QED BY <2>1, <3>1, <4>1, <5>2 DEF Checked
            <4> QED BY <4>3, <4>4
        <3>3. Passed(files[1][pos + 1]) /\ Columns(files[1][pos + 1]) = max_size'
            BY <2>1, <2>2, <2>5, <3>1
        <3>4. \A k \in 1 .. pos + 1 : k \in 1 .. pos \/ k = pos + 1
            BY <1>i DEF OneFile
        <3>5. ASSUME NEW k \in 1 .. pos + 1
              PROVE  /\ Passed(files[1][k])
                     /\ files[1][k] # << >> => Columns(files[1][k]) = max_size'
            <4> HIDE DEF Passed
            <4> QED BY <3>2, <3>3, <3>4
        <3>6. ~fail'
            BY <1>i, <2>1 DEF FirstPass
        <3> QED BY <2>1, <2>2, <3>1, <3>5, <3>6 DEF FirstPass, Checked
    <2> QED BY <2>1, <2>3, <2>5
<1>3. CASE TagSetEnd
    <2>1. /\ pc = "tagset" /\ pc' = "loop" /\ pos' = 0 /\ GetFails
          /\ UNCHANGED <<files, f, xsize, y>>
        BY <1>3 DEF TagSetEnd, Open
    <2>2. OneFile'
        BY <1>i, <2>1 DEF OneFile
    <2>3. pos < Len(files[1]) => files[1][pos + 1] = LongLine
        BY <1>i, <2>1 DEF GetFails, Line, OneFile, FirstPass
    <2>4. StoppedAt(pos)
        BY <1>i, <2>1, <2>3 DEF FirstPass, StoppedAt
    <2>5. pos \in 0 .. Len(files[1]) /\ 0 \in 0 .. pos
        BY <1>i DEF OneFile
    <2>6. SecondPass'
        BY <2>1, <2>4, <2>5 DEF SecondPass, StoppedAt, Checked
    <2> QED BY <2>1, <2>2, <2>6
<1>4. CASE \/ ReadToken \/ ReadBadToken \/ ReadBlank
    <2>1. /\ pc = "read" /\ Gets
          /\ pc' # "tagset"
          /\ UNCHANGED <<files, f, xsize, y>>
        BY <1>4 DEF ReadToken, ReadBadToken, ReadBlank, SentenceEnds
    <2>2. /\ Line = files[1][pos + 1] /\ pos + 1 \in 1 .. Len(files[1])
          /\ pos' = pos + 1 /\ Line # LongLine
        BY <1>i, <2>1, NextLine
    <2>3. OneFile'
        BY <1>i, <2>1, <2>2 DEF OneFile
    <2>4. PICK end \in 0 .. Len(files[1]) : StoppedAt(end) /\ pos \in 0 .. end
        BY <1>i, <2>1 DEF SecondPass
    <2>5. pos + 1 \in 0 .. end
        BY <1>i, <2>2, <2>4 DEF StoppedAt, OneFile
    <2>6. SecondPass'
        BY <2>1, <2>2, <2>4, <2>5 DEF SecondPass, StoppedAt, Checked
    <2> QED BY <2>1, <2>3, <2>6
<1>5. CASE Enter \/ ReadEnd \/ Finished \/ UNCHANGED vars
    <2>1. /\ UNCHANGED <<files, f, pos, xsize, y>>
          /\ \/ pc \in {"loop", "read"} /\ pc' \in {"loop", "read"}
             \/ pc' = pc /\ fail' = fail /\ max_size' = max_size
        BY <1>5 DEF Enter, ReadEnd, SentenceEnds, Finished, vars
    <2>2. OneFile'
        BY <1>i, <2>1 DEF OneFile
    <2>3. pc' = "tagset" => FirstPass'
        BY <1>i, <2>1 DEF FirstPass, Checked
    <2>4. pc' \in {"loop", "read"} => SecondPass'
        BY <1>i, <2>1 DEF SecondPass, StoppedAt, Checked
    <2> QED BY <2>2, <2>3, <2>4
<1>6. CASE FileEnds
    <2>1. pc' = "done" /\ UNCHANGED <<files, f, pos>>
        BY <1>i, <1>6 DEF FileEnds, OneFile
    <2>2. OneFile'
        BY <1>i, <2>1 DEF OneFile
    <2> QED BY <2>1, <2>2
<1> QED BY <1>1, <1>2, <1>3, <1>4, <1>5, <1>6 DEF Next

\* What the first pass has checked, add2 accepts.
LEMMA SecondReading ==
    LearnInv /\ [Next]_vars =>
        [program = "learn" /\ pc # "tagset" => pc' # "failed"]_vars
<1> SUFFICES ASSUME LearnInv, [Next]_vars, program = "learn", pc # "tagset",
                    pc' = "failed", ~UNCHANGED vars
             PROVE  FALSE
    OBVIOUS
<1>1. ReadBadToken
    BY DEF Next, TagSetBlank, TagSetToken, TagSetEnd, Enter, ReadToken, ReadBlank,
           ReadEnd, SentenceEnds, FileEnds, Finished
<1>2. pc = "read" /\ Gets /\ Line # << >> /\ ~Accepted(Line)
    BY <1>1 DEF ReadBadToken
<1>3. OneFile /\ SecondPass
    BY <1>2 DEF LearnInv
<1>4. /\ Line = files[1][pos + 1] /\ pos + 1 \in 1 .. Len(files[1])
      /\ Line \in Lines \ {LongLine}
    BY <1>2, <1>3, NextLine
<1>5. PICK end \in 0 .. Len(files[1]) : StoppedAt(end) /\ pos \in 0 .. end
    BY <1>3 DEF SecondPass
<1>6. pos + 1 \in 1 .. end
    BY <1>3, <1>4, <1>5 DEF StoppedAt, OneFile
<1>7. Checked(Line)
    BY <1>4, <1>5, <1>6 DEF StoppedAt
<1>8. Len(Line) \in Nat /\ Columns(Line) <= Len(Line) /\ Columns(Line) \in Nat
    BY <1>2, <1>4, LinesAssumption, ColumnsOf
<1> QED BY <1>2, <1>7, <1>8 DEF Checked, Accepted

\* Reading the training file a second time fails at no token, whatever the
\* file is: openTagSet has accepted or refused all that read() comes to.
THEOREM SecondPassAccepts == Spec => AnswersKnown
<1>1. LearnInv /\ [Next]_vars => LearnInv'
    BY LearnStep
<1> QED BY LearnInit, <1>1, SecondReading, PTL DEF Spec, AnswersKnown

-----------------------------------------------------------------------------
(* What the sentences are. *)

\* The types of what is read, and the lines that have been taken.
Inputs ==
    /\ program \in {"learn", "test"}
    /\ files \in Seq(Seq(Lines))
    /\ f \in 1 .. Len(files)
    /\ \A k \in 1 .. Len(files) : Len(files[k]) <= MaxLines
    /\ pos \in 0 .. Len(files[f])
    /\ \A k \in 1 .. pos : files[f][k] # LongLine
    /\ xsize \in Int
    /\ x_ \in Seq(Lines) /\ x \in Seq(Seq(Lines)) /\ written \in Seq(Seq(Lines))

\* The line before the sentence that is being read.
Start == pos - Len(x_)

\* The sentence so far: the run of lines up to the stream's place.
Reading ==
    /\ ~fail
    /\ Start \in 0 .. pos
    /\ Start # 0 => Break(files[f][Start])
    /\ \A k \in Start + 1 .. pos : ~Break(files[f][k])
    /\ x_ = SubSeq(files[f], Start + 1, pos)

\* What has been given out.
Out == IF program = "learn" THEN x ELSE written

\* Up to this line of the file the sentences have been given out.
Behind == IF pc = "read" THEN Start ELSE IF fail THEN Len(files[f]) ELSE pos

\* The piece ends there or before.
Past(p) == p[1] < f \/ (p[1] = f /\ p[3] <= Behind)

\* at[k] is the piece that the sentence k of ss is.
Matches(ss, at) ==
    /\ at \in [1 .. Len(ss) -> Pieces]
    /\ \A j, k \in 1 .. Len(ss) : j < k => Before(at[j], at[k])
    /\ \A k \in 1 .. Len(ss) :
         ss[k] = SubSeq(files[at[k][1]], at[k][2], at[k][3])

\* What has been given out are the pieces that are past, in their order.
Collected ==
    \E at : /\ Matches(Out, at)
            /\ \A p \in Pieces : Past(p) <=> \E k \in 1 .. Len(Out) : at[k] = p

PiecesInv ==
    /\ Inputs
    /\ pc \in {"tagset", "loop", "read", "done", "failed"}
    /\ pc = "tagset" => program = "learn" /\ x = << >> /\ f = 1
    /\ pc = "read" => Reading
    /\ pc = "loop" /\ ~fail /\ pos # 0 => Break(files[f][pos])
    /\ pc = "done" => f = Len(files) /\ fail
    /\ pc \in {"loop", "read", "done"} => Collected

\* What the definition says of a piece, in terms of the files' lengths.
LEMMA PieceTypes ==
    ASSUME Inputs
    PROVE  \A p \in Pieces :
             /\ p[1] \in 1 .. Len(files) /\ p[2] \in Nat /\ p[3] \in Nat
             /\ 1 <= p[2] /\ p[2] <= p[3] /\ p[3] <= Len(files[p[1]])
             /\ p = <<p[1], p[2], p[3]>>
             /\ \A k \in p[2] .. p[3] : ~Break(files[p[1]][k])
             /\ p[2] = 1 \/ Break(files[p[1]][p[2] - 1])
             /\ p[3] + 1 \in Given(files[p[1]]) => Blank(files[p[1]][p[3] + 1])
<1> SUFFICES ASSUME NEW p \in Pieces
             PROVE  /\ p[1] \in 1 .. Len(files) /\ p[2] \in Nat /\ p[3] \in Nat
                    /\ 1 <= p[2] /\ p[2] <= p[3] /\ p[3] <= Len(files[p[1]])
                    /\ p = <<p[1], p[2], p[3]>>
                    /\ \A k \in p[2] .. p[3] : ~Break(files[p[1]][k])
                    /\ p[2] = 1 \/ Break(files[p[1]][p[2] - 1])
                    /\ p[3] + 1 \in Given(files[p[1]]) => Blank(files[p[1]][p[3] + 1])
    OBVIOUS
<1>1. /\ p \in (DOMAIN files) \X (1 .. MaxLines) \X (1 .. MaxLines)
      /\ p[2] <= p[3] /\ p[3] \in Given(files[p[1]])
      /\ \A k \in p[2] .. p[3] : ~Break(files[p[1]][k])
      /\ p[2] = 1 \/ Break(files[p[1]][p[2] - 1])
      /\ p[3] + 1 \in Given(files[p[1]]) => Blank(files[p[1]][p[3] + 1])
    BY DEF Pieces
<1>2. /\ p[1] \in DOMAIN files /\ p[2] \in 1 .. MaxLines /\ p[3] \in 1 .. MaxLines
      /\ p = <<p[1], p[2], p[3]>>
    BY <1>1
<1>3. DOMAIN files = 1 .. Len(files) /\ files[p[1]] \in Seq(Lines)
    BY <1>2 DEF Inputs
<1>4. p[3] \in 1 .. Len(files[p[1]])
    BY <1>1, <1>3 DEF Given
<1> QED
    BY <1>1, <1>2, <1>3, <1>4, LinesAssumption

\* The lines up to the stream's place are lines the file gives.
LEMMA GivenUpTo ==
    ASSUME Inputs
    PROVE  /\ \A k \in 1 .. pos : k \in Given(files[f])
           /\ GetFails /\ ~fail => \A k \in Given(files[f]) : k <= pos
<1>1. files[f] \in Seq(Lines) /\ pos \in Nat /\ pos <= Len(files[f])
      /\ DOMAIN files[f] = 1 .. Len(files[f]) /\ Len(files[f]) \in Nat
    BY DEF Inputs
<1>2. ASSUME NEW k \in 1 .. pos PROVE k \in Given(files[f])
    <2>1. k \in DOMAIN files[f] /\ \A j \in 1 .. k : j \in 1 .. pos
        BY <1>1
    <2> QED
        BY <2>1 DEF Given, Inputs
<1>3. ASSUME GetFails, ~fail, NEW k \in Given(files[f]) PROVE k <= pos
    <2> SUFFICES ASSUME pos < k PROVE FALSE
        BY <1>1 DEF Given
    <2>1. k \in 1 .. Len(files[f]) /\ \A j \in 1 .. k : files[f][j] # LongLine
        BY <1>1 DEF Given
    <2>2. pos + 1 \in 1 .. k /\ pos < Len(files[f])
        BY <1>1, <2>1
    <2> QED
        BY <1>3, <2>1, <2>2 DEF GetFails, Line
<1> QED
    BY <1>2, <1>3

\* A piece that ends in the lines of the present sentence is all of it.
LEMMA LastPiece ==
    ASSUME Inputs, Reading,
           NEW p \in Pieces, p[1] = f, Start < p[3], p[3] <= pos
    PROVE  p = <<f, Start + 1, pos>>
<1>1. /\ pos \in Nat /\ Start \in Nat /\ Start <= pos
      /\ Start # 0 => Break(files[f][Start])
      /\ \A k \in Start + 1 .. pos : ~Break(files[f][k])
    BY DEF Inputs, Reading
<1>2. /\ p[2] \in Nat /\ p[3] \in Nat /\ 1 <= p[2] /\ p[2] <= p[3]
      /\ p = <<p[1], p[2], p[3]>>
      /\ \A k \in p[2] .. p[3] : ~Break(files[f][k])
      /\ p[2] = 1 \/ Break(files[f][p[2] - 1])
      /\ p[3] + 1 \in Given(files[f]) => Blank(files[f][p[3] + 1])
    BY PieceTypes
<1> HIDE DEF Start
<1>3. p[3] = pos
    <2> SUFFICES ASSUME p[3] < pos PROVE FALSE
        BY <1>1, <1>2
    <2>1. p[3] + 1 \in 1 .. pos /\ p[3] + 1 \in Start + 1 .. pos
        BY <1>1, <1>2
    <2>2. Blank(files[f][p[3] + 1]) /\ ~Break(files[f][p[3] + 1])
        BY <1>1, <1>2, <2>1, GivenUpTo
    <2> QED
        BY <2>2 DEF Break
<1>4. ~(p[2] <= Start)
    <2> SUFFICES ASSUME p[2] <= Start PROVE FALSE
        OBVIOUS
    <2>1. Start \in p[2] .. p[3] /\ Start # 0
        BY <1>1, <1>2
    <2> QED
        BY <1>1, <1>2, <2>1
<1>5. ~(p[2] > Start + 1)
    <2> SUFFICES ASSUME p[2] > Start + 1 PROVE FALSE
        OBVIOUS
    <2>1. p[2] # 1 /\ p[2] - 1 \in Start + 1 .. pos
        BY <1>1, <1>2
    <2> QED
        BY <1>1, <1>2, <2>1
<1>6. p[2] = Start + 1
    BY <1>1, <1>2, <1>4, <1>5
<1> QED
    BY <1>2, <1>3, <1>6

\* The sentence is a piece when a blank line or the end of the file ends it.
LEMMA SentenceIsPiece ==
    ASSUME Inputs, Reading, x_ # << >>,
           pos + 1 \in Given(files[f]) => Blank(files[f][pos + 1])
    PROVE  /\ <<f, Start + 1, pos>> \in Pieces
           /\ Start < pos
<1>1. /\ pos \in Nat /\ Start \in Nat /\ Start <= pos /\ f \in DOMAIN files
      /\ pos <= Len(files[f]) /\ Len(files[f]) <= MaxLines /\ MaxLines \in Nat
      /\ Len(files[f]) \in Nat
    BY LinesAssumption DEF Inputs, Reading
<1>2. Len(x_) \in Nat \ {0}
    BY DEF Inputs
<1>3. Start < pos
    BY <1>1, <1>2 DEF Start
<1>4. pos \in Given(files[f])
    BY <1>1, <1>3, GivenUpTo
<1>5. /\ Start # 0 => Break(files[f][Start])
      /\ \A k \in Start + 1 .. pos : ~Break(files[f][k])
    BY DEF Reading
<1> DEFINE s == Start
<1> HIDE DEF s
<1>6. /\ s + 1 \in 1 .. MaxLines /\ pos \in 1 .. MaxLines /\ s + 1 <= pos
      /\ s + 1 = 1 \/ (s # 0 /\ (s + 1) - 1 = s)
    BY <1>1, <1>3 DEF s
<1> DEFINE p == <<f, s + 1, pos>>
<1>7. /\ p \in (DOMAIN files) \X (1 .. MaxLines) \X (1 .. MaxLines)
      /\ p[1] = f /\ p[2] = s + 1 /\ p[3] = pos
    BY <1>1, <1>6
<1> HIDE DEF p
<1>8. p \in Pieces
    BY <1>4, <1>5, <1>6, <1>7 DEF Pieces, s
<1> QED
    BY <1>3, <1>8 DEF p, s

\* The pieces are those of the input, whatever has been read of it.
LEMMA PiecesStay == UNCHANGED <<program, files, xsize>> => Pieces' = Pieces
BY DEF Pieces, Given, Break, Blank, Short

\* What Append does to the places of a sequence.
LEMMA Appended ==
    ASSUME NEW S, NEW w \in Seq(S), NEW s \in S
    PROVE  /\ Len(Append(w, s)) = Len(w) + 1 /\ Append(w, s)[Len(w) + 1] = s
           /\ \A k \in 1 .. Len(w) : Append(w, s)[k] = w[k]
OBVIOUS

\* Nothing is given out.
LEMMA CollectedSame ==
    ASSUME Collected, UNCHANGED <<program, files, xsize, x, written>>,
           \A p \in Pieces : Past(p)' <=> Past(p)
    PROVE  Collected'
<1>1. Pieces' = Pieces /\ Out' = Out
    BY PiecesStay DEF Out
<1>2. PICK at : /\ Matches(Out, at)
                /\ \A p \in Pieces : Past(p) <=> \E k \in 1 .. Len(Out) : at[k] = p
    BY DEF Collected
<1>3. Matches(Out, at)'
    BY <1>1, <1>2 DEF Matches
<1> QED
    BY <1>1, <1>2, <1>3 DEF Collected

\* The next piece is given out.
LEMMA CollectedMore ==
    ASSUME Collected, UNCHANGED <<program, files, xsize>>, Out \in Seq(Seq(Lines)),
           NEW q \in Pieces, NEW s \in Seq(Lines), s = SubSeq(files[q[1]], q[2], q[3]),
           Out' = Append(Out, s),
           \A p \in Pieces : Past(p)' <=> Past(p) \/ p = q,
           \A p \in Pieces : Past(p) => Before(p, q)
    PROVE  Collected'
<1> DEFINE n == Len(Out)
<1>1. Pieces' = Pieces /\ n \in Nat
    BY PiecesStay
<1>2. PICK at : /\ Matches(Out, at)
                /\ \A p \in Pieces : Past(p) <=> \E k \in 1 .. n : at[k] = p
    BY DEF Collected
<1>3. /\ at \in [1 .. n -> Pieces]
      /\ \A j, k \in 1 .. n : j < k => Before(at[j], at[k])
      /\ \A k \in 1 .. n : Out[k] = SubSeq(files[at[k][1]], at[k][2], at[k][3])
    BY <1>2 DEF Matches
<1>4. /\ Len(Out') = n + 1 /\ Out'[n + 1] = s
      /\ \A k \in 1 .. n : Out'[k] = Out[k]
    <2> DEFINE S == Seq(Lines)
               w == Out
    <2>1. w \in Seq(S) /\ s \in S
        OBVIOUS
    <2> HIDE DEF S, w
    <2>2. /\ Len(Append(w, s)) = Len(w) + 1 /\ Append(w, s)[Len(w) + 1] = s
          /\ \A k \in 1 .. Len(w) : Append(w, s)[k] = w[k]
        BY ONLY <2>1, Appended
    <2> QED
        BY <2>2 DEF w
<1> HIDE DEF n
<1>5. PICK more : more = [k \in 1 .. n + 1 |-> IF k = n + 1 THEN q ELSE at[k]]
    OBVIOUS
<1>6. /\ more \in [1 .. n + 1 -> Pieces] /\ more[n + 1] = q
      /\ \A k \in 1 .. n : more[k] = at[k] /\ k # n + 1 /\ k \in 1 .. n + 1
      /\ \A k \in 1 .. n + 1 : k \in 1 .. n \/ k = n + 1
    <2>1. \A k \in 1 .. n + 1 : k \in 1 .. n \/ k = n + 1
        BY <1>1
    <2>2. n + 1 \in 1 .. n + 1 /\ \A k \in 1 .. n : k # n + 1 /\ k \in 1 .. n + 1
        BY <1>1
    <2> QED
        BY <1>3, <1>5, <2>1, <2>2
<1>7. \A k \in 1 .. n : Past(at[k])
    BY <1>2, <1>3
<1>8. ASSUME NEW j \in 1 .. n + 1, NEW k \in 1 .. n + 1, j < k
      PROVE  Before(more[j], more[k])
    <2>1. j \in 1 .. n
        BY <1>1, <1>8
    <2>2. CASE k = n + 1
        <3>1. Past(at[j]) /\ at[j] \in Pieces
            BY <1>3, <1>7, <2>1
        <3> QED
            BY <1>6, <2>1, <2>2, <3>1
    <2>3. CASE k \in 1 .. n
        BY <1>3, <1>6, <1>8, <2>1, <2>3
    <2> QED
        BY <1>6, <2>2, <2>3
<1>9. ASSUME NEW k \in 1 .. n + 1
      PROVE  Out'[k] = SubSeq(files[more[k][1]], more[k][2], more[k][3])
    <2>1. CASE k = n + 1
        BY <1>4, <1>6, <2>1
    <2>2. CASE k \in 1 .. n
        BY <1>3, <1>4, <1>6, <2>2
    <2> QED
        BY <1>6, <2>1, <2>2
<1>10. Matches(Out, more)'
    <2>1. Len(Out') = n + 1
        BY <1>4
    <2>2. more \in [1 .. Len(Out') -> Pieces']
        BY <1>1, <1>6, <2>1
    <2>3. \A j, k \in 1 .. Len(Out') : j < k => Before(more[j], more[k])
        BY <1>8, <2>1
    <2>4. \A k \in 1 .. Len(Out') :
            Out'[k] = SubSeq(files'[more[k][1]], more[k][2], more[k][3])
        BY <1>9, <2>1
    <2> QED
        BY <2>2, <2>3, <2>4 DEF Matches, Before
<1>11. ASSUME NEW p \in Pieces
       PROVE  Past(p)' <=> \E k \in 1 .. n + 1 : more[k] = p
    <2>1. Past(p) <=> \E k \in 1 .. n : more[k] = p
        BY <1>2, <1>6
    <2>2. p = q <=> more[n + 1] = p
        BY <1>6
    <2>3. \A k \in 1 .. n : k \in 1 .. n + 1
        BY <1>6
    <2>4. n + 1 \in 1 .. n + 1
        BY <1>1
    <2> QED
        BY <1>6, <2>1, <2>2, <2>3, <2>4
<1> QED
    BY <1>1, <1>4, <1>10, <1>11, SMTT(30) DEF Collected

-----------------------------------------------------------------------------
(* The steps. *)

\* When read() returns true it has given out the piece that ends where the
\* stream is, if there is one: the lines up to Behind' end no other.
LEMMA SentenceGiven ==
    ASSUME Inputs, Reading, pc = "read", Collected, SentenceEnds, Inputs', pc' = "loop",
           UNCHANGED <<program, files, f, xsize, x_>>,
           Behind' \in Nat, pos <= Behind',
           \A p \in Pieces : p[1] = f /\ p[3] <= Behind' => p[3] <= pos,
           pos + 1 \in Given(files[f]) => Blank(files[f][pos + 1])
    PROVE  Collected'
<1> DEFINE q == <<f, Start + 1, pos>>
<1>1. /\ Behind = Start /\ pos \in Nat /\ Start \in Nat /\ Start <= pos
    BY DEF Behind, Inputs, Reading
<1>2. ASSUME NEW p \in Pieces
      PROVE  /\ p[1] \in Nat /\ p[3] \in Nat /\ f \in Nat
             /\ Past(p) <=> p[1] < f \/ (p[1] = f /\ p[3] <= Start)
             /\ Past(p)' <=> p[1] < f \/ (p[1] = f /\ p[3] <= pos)
             /\ p[1] = f /\ Start < p[3] /\ p[3] <= pos => p = q
    <2>1. p[1] \in Nat /\ p[3] \in Nat /\ f \in Nat
        <3>1. /\ p[1] \in 1 .. Len(files) /\ p[3] \in Nat
              /\ f \in 1 .. Len(files) /\ Len(files) \in Nat
            BY PieceTypes DEF Inputs
        <3> QED
            BY <3>1
    <2>2. Past(p) <=> p[1] < f \/ (p[1] = f /\ p[3] <= Start)
        BY <1>1 DEF Past
    <2>3. Past(p)' <=> p[1] < f \/ (p[1] = f /\ p[3] <= Behind')
        BY DEF Past
    <2>4. p[1] = f => (p[3] <= Behind' <=> p[3] <= pos)
        BY <1>1, <2>1
    <2>5. p[1] = f /\ Start < p[3] /\ p[3] <= pos => p = q
        BY LastPiece
    <2> QED
        BY <2>1, <2>2, <2>3, <2>4, <2>5
<1>3. CASE x_ = << >>
    <2>1. Start = pos
        BY <1>1, <1>3 DEF Start
    <2>2. UNCHANGED <<x, written>>
        BY <1>3 DEF SentenceEnds
    <2>3. \A p \in Pieces : Past(p)' <=> Past(p)
        BY <1>2, <2>1
    <2> QED
        BY <2>2, <2>3, CollectedSame
<1>4. CASE x_ # << >>
    <2>1. q \in Pieces /\ Start < pos
        BY <1>4, SentenceIsPiece
    <2>2. /\ q[1] = f /\ q[2] = Start + 1 /\ q[3] = pos
          /\ x_ = SubSeq(files[q[1]], q[2], q[3]) /\ x_ \in Seq(Lines)
        BY DEF Reading, Inputs
    <2>3. Out' = Append(Out, x_) /\ Out \in Seq(Seq(Lines))
        BY <1>4 DEF Out, SentenceEnds, Inputs
    <2> HIDE DEF q, Start
    <2>4. \A p \in Pieces : Past(p)' <=> Past(p) \/ p = q
        <3> SUFFICES ASSUME NEW p \in Pieces PROVE Past(p)' <=> Past(p) \/ p = q
            OBVIOUS
        <3>1. CASE p = q
            BY <1>1, <1>2, <2>2, <3>1
        <3>2. CASE p # q
            <4>1. p[1] = f => (p[3] <= pos <=> p[3] <= Start)
                BY <1>1, <1>2, <3>2
            <4> QED
                BY <1>2, <3>2, <4>1
        <3> QED
            BY <3>1, <3>2
    <2>5. \A p \in Pieces : Past(p) => Before(p, q)
        BY <1>1, <1>2, <2>2 DEF Before
    <2> QED
        BY <2>1, <2>2, <2>3, <2>4, <2>5, CollectedMore
<1> QED
    BY <1>3, <1>4

\* getline() takes a line the file gives.
LEMMA LineTaken ==
    ASSUME Inputs, Gets
    PROVE  /\ Line = files[f][pos + 1] /\ Line \in Lines /\ Line # LongLine
           /\ pos' = pos + 1 /\ pos + 1 \in 1 .. Len(files[f]) /\ ~fail
           /\ pos \in Nat /\ pos + 1 \in Nat
<1>1. pos \in Nat /\ files[f] \in Seq(Lines) /\ Len(files[f]) \in Nat /\ pos < Len(files[f])
    BY DEF Inputs, Gets
<1>2. pos + 1 \in 1 .. Len(files[f])
    BY <1>1
<1> QED
    BY <1>1, <1>2 DEF Gets, Line

\* No step leaves the files, or the lines they give.
LEMMA InputsStep == Inputs /\ [Next]_vars => Inputs'
<1> SUFFICES ASSUME Inputs, [Next]_vars PROVE Inputs'
    OBVIOUS
<1>1. /\ UNCHANGED <<program, files>>
      /\ \/ Gets /\ f' = f
         \/ pos' = pos /\ f' = f
         \/ pos' = 0 /\ f' = f
         \/ pos' = 0 /\ f < Len(files) /\ f' = f + 1
      /\ xsize' = xsize \/ (Gets /\ Line # << >> /\ xsize' = Columns(Line) - 1)
      /\ x_' = x_ \/ x_' = << >> \/ (Gets /\ x_' = Append(x_, Line))
      /\ x' = x \/ x' = Append(x, x_)
      /\ written' = written \/ written' = Append(written, x_)
    BY DEF Next, vars, TagSetBlank, TagSetToken, TagSetEnd, Enter, ReadToken,
           ReadBadToken, ReadBlank, ReadEnd, FileEnds, Finished, SentenceEnds, Open
<1>2. /\ files \in Seq(Seq(Lines)) /\ f \in 1 .. Len(files) /\ Len(files) \in Nat
      /\ pos \in 0 .. Len(files[f]) /\ \A k \in 1 .. pos : files[f][k] # LongLine
      /\ x_ \in Seq(Lines) /\ x \in Seq(Seq(Lines)) /\ written \in Seq(Seq(Lines))
    BY DEF Inputs
<1>3. /\ f' \in 1 .. Len(files) /\ pos' \in 0 .. Len(files[f'])
      /\ \A k \in 1 .. pos' : files[f'][k] # LongLine
    <2>1. CASE Gets /\ f' = f
        <3>1. /\ pos' = pos + 1 /\ pos + 1 \in 1 .. Len(files[f])
              /\ files[f][pos + 1] # LongLine /\ pos \in Nat
            BY <2>1, LineTaken
        <3>2. \A k \in 1 .. pos + 1 : k \in 1 .. pos \/ k = pos + 1
            BY <3>1
        <3>3. pos + 1 \in 0 .. Len(files[f])
            BY <3>1
        <3> QED
            BY <1>2, <2>1, <3>1, <3>2, <3>3
    <2>2. CASE pos' = pos /\ f' = f
        BY <1>2, <2>2
    <2>3. CASE pos' = 0 /\ f' \in 1 .. Len(files)
        <3>1. files[f'] \in Seq(Lines)
            BY <1>2, <2>3
        <3> QED
            BY <2>3, <3>1
    <2>4. f < Len(files) => f + 1 \in 1 .. Len(files)
        BY <1>2
    <2> QED
        BY <1>1, <1>2, <2>1, <2>2, <2>3, <2>4
<1>4. x_' \in Seq(Lines)
    <2>1. CASE Gets /\ x_' = Append(x_, Line)
        <3>1. Line \in Lines
            BY <2>1, LineTaken
        <3> QED
            BY <1>2, <2>1, <3>1
    <2>2. CASE x_' = << >> \/ x_' = x_
        <3>1. << >> \in Seq(Lines)
            OBVIOUS
        <3> QED
            BY <1>2, <2>2, <3>1
    <2> QED
        BY <1>1, <2>1, <2>2
<1>5. x' \in Seq(Seq(Lines)) /\ written' \in Seq(Seq(Lines))
    <2> DEFINE S == Seq(Lines)
    <2>1. x \in Seq(S) /\ written \in Seq(S) /\ x_ \in S
        BY <1>2
    <2> HIDE DEF S
    <2>2. Append(x, x_) \in Seq(S) /\ Append(written, x_) \in Seq(S)
        BY <2>1
    <2> QED
        BY <1>1, <2>1, <2>2 DEF S
<1>6. xsize' \in Int
    <2>1. CASE xsize' = xsize
        BY <2>1 DEF Inputs
    <2>2. CASE Gets /\ Line # << >> /\ xsize' = Columns(Line) - 1
        <3>1. Line \in Lines \ {LongLine, << >>}
            BY <2>2, LineTaken
        <3>2. Columns(Line) \in Nat
            BY <3>1, LinesAssumption, ColumnsOf
        <3> QED
            BY <2>2, <3>2
    <2> QED
        BY <1>1, <2>1, <2>2
<1> QED
    BY <1>1, <1>3, <1>4, <1>5, <1>6 DEF Inputs

LEMMA FileTypes ==
    ASSUME NEW file \in File PROVE file \in Seq(Lines) /\ Len(file) <= MaxLines
<1>1. PICK n \in 0 .. MaxLines : file \in [1 .. n -> Lines]
    BY DEF File
<1>2. n \in Nat /\ n <= MaxLines
    BY LinesAssumption
<1> QED
    BY <1>1, <1>2

\* Nothing has been read of the first file.
Fresh == Inputs /\ Out = << >> /\ f = 1 /\ Behind = 0

\* Then no piece is past.
LEMMA NothingYet == Fresh => Collected
<1> SUFFICES ASSUME Fresh PROVE Collected
    OBVIOUS
<1>0. Inputs /\ Out = << >> /\ f = 1 /\ Behind = 0
    BY DEF Fresh
<1>1. ASSUME NEW p \in Pieces PROVE ~Past(p)
    <2>1. p[1] \in Nat /\ 1 <= p[1] /\ p[3] \in Nat /\ 1 <= p[3]
        <3>1. p[1] \in 1 .. Len(files) /\ p[2] \in Nat /\ p[3] \in Nat
              /\ 1 <= p[2] /\ p[2] <= p[3] /\ Len(files) \in Nat
            BY <1>0, PieceTypes DEF Inputs
        <3> QED
            BY <3>1
    <2> QED
        BY <1>0, <2>1 DEF Past
<1>2. PICK at : at = [k \in 1 .. 0 |-> CHOOSE p \in Pieces : TRUE]
    OBVIOUS
<1>3. Len(Out) = 0 /\ 1 .. 0 = {}
    BY <1>0
<1>4. Matches(Out, at)
    BY <1>2, <1>3 DEF Matches
<1> QED
    BY <1>1, <1>3, <1>4 DEF Collected

LEMMA PiecesInit == Init => PiecesInv
<1> SUFFICES ASSUME Init PROVE PiecesInv
    OBVIOUS
<1>1. /\ program \in {"learn", "test"} /\ f = 1 /\ pos = 0 /\ fail = FALSE
      /\ x_ = << >> /\ x = << >> /\ written = << >>
      /\ (program = "learn" /\ pc = "tagset") \/ (program = "test" /\ pc = "loop")
    BY DEF Init
<1>2. /\ files \in Seq(Seq(Lines)) /\ Len(files) \in Nat \ {0}
      /\ \A k \in 1 .. Len(files) : Len(files[k]) <= MaxLines
    <2>1. CASE files \in LearnInputs
        <3>1. PICK file \in File : files = <<file>>
            BY <2>1 DEF LearnInputs
        <3>2. file \in Seq(Lines) /\ Len(file) <= MaxLines
            BY FileTypes
        <3> QED
            BY <3>1, <3>2
    <2>2. CASE files \in TestInputs
        <3>0. PICK n \in 1 .. MaxFiles, file \in File :
                files \in {[k \in 1 .. n |-> SubSeq(file, cut[k - 1] + 1, cut[k])] :
                             cut \in Cuts(n, file)}
            BY <2>2 DEF TestInputs
        <3>1. PICK cut \in Cuts(n, file) :
                files = [k \in 1 .. n |-> SubSeq(file, cut[k - 1] + 1, cut[k])]
            BY <3>0
        <3>2. file \in Seq(Lines) /\ Len(file) <= MaxLines /\ n \in Nat \ {0}
            BY FileTypes, LinesAssumption
        <3>3. ASSUME NEW k \in 1 .. n
              PROVE  files[k] \in Seq(Lines) /\ Len(files[k]) <= MaxLines
            <4>1. k \in 0 .. n /\ k - 1 \in 0 .. n
                BY <3>2
            <4>2. PICK a, b : a = cut[k - 1] /\ b = cut[k]
                OBVIOUS
            <4>3. a \in 0 .. Len(file) /\ b \in 0 .. Len(file) /\ a <= b
                BY <4>1, <4>2 DEF Cuts
            <4>4. files[k] = SubSeq(file, a + 1, b)
                BY <3>1, <4>2
            <4>5. files[k] \in Seq(Lines) /\ Len(files[k]) = b - a
                BY <3>2, <4>3, <4>4
            <4> QED
                BY <3>2, <4>3, <4>5, LinesAssumption
        <3>4. Len(files) = n /\ files \in Seq(Seq(Lines))
            BY <3>1, <3>2, <3>3
        <3> QED
            BY <3>2, <3>3, <3>4
    <2> QED
        BY <2>1, <2>2 DEF Init
<1>3. f \in 1 .. Len(files) /\ files[f] \in Seq(Lines)
    BY <1>1, <1>2
<1>4. xsize \in Int
    <2>1. xsize = 0 \/ xsize \in XSizes
        BY DEF Init
    <2>2. CASE xsize = 0
        BY <2>2
    <2>3. CASE xsize \in XSizes
        <3>1. xsize \in Nat
            BY <2>3, LinesAssumption, Zenon
        <3> QED
            BY <3>1
    <2> QED
        BY <2>1, <2>2, <2>3
<1>5. Inputs
    BY <1>1, <1>2, <1>3, <1>4 DEF Inputs
<1>6. Collected
    BY <1>1, <1>5, NothingYet DEF Fresh, Out, Behind
<1> QED
    BY <1>1, <1>5, <1>6 DEF PiecesInv

\* The sentence that is being read begins after line Start.
LEMMA SentenceTypes ==
    ASSUME Inputs, Reading
    PROVE  /\ pos \in Nat /\ Start \in Nat /\ Start <= pos /\ Len(x_) \in Nat
           /\ Len(x_) = pos - Start /\ f \in Nat
<1>1. pos \in Nat /\ Len(x_) \in Nat /\ f \in Nat
    BY DEF Inputs
<1>2. Start \in Nat /\ Start <= pos
    BY <1>1 DEF Reading
<1> QED
    BY <1>1, <1>2 DEF Start

LEMMA NothingThen == Fresh' => Collected'
BY NothingYet, PTL

\* The line that getline() takes is one the file gives.
LEMMA TakenIsGiven ==
    ASSUME Inputs, Gets PROVE pos + 1 \in Given(files[f])
<1>1. /\ Line = files[f][pos + 1] /\ Line # LongLine
      /\ pos + 1 \in 1 .. Len(files[f]) /\ pos \in Nat /\ files[f] \in Seq(Lines)
    BY LineTaken DEF Inputs
<1>2. \A k \in 1 .. pos + 1 : k \in 1 .. pos \/ k = pos + 1
    BY <1>1
<1>3. \A k \in 1 .. pos + 1 : files[f][k] # LongLine
    BY <1>1, <1>2 DEF Inputs
<1> QED
    BY <1>1, <1>3 DEF Given

\* Widths are numbers that can be compared.
LEMMA LineWidths ==
    ASSUME Inputs, Gets, Line # << >> PROVE Len(Line) \in Nat /\ xsize \in Int
<1>1. Line \in Lines \ {LongLine, << >>}
    BY LineTaken
<1> QED
    BY <1>1, LinesAssumption DEF Inputs

\* openTagSet leaves the file as if nothing had been read.
LEMMA PiecesTagSetEnd == ASSUME PiecesInv, Inputs', TagSetEnd PROVE PiecesInv'
<1>1. /\ pc = "tagset" /\ pc' = "loop" /\ pos' = 0 /\ fail' = FALSE
      /\ UNCHANGED <<program, f, x>>
      /\ program = "learn" /\ x = << >> /\ f = 1
    BY DEF TagSetEnd, Open, PiecesInv
<1>2. Fresh'
    BY <1>1 DEF Fresh, Out, Behind
<1> QED
    BY <1>1, <1>2, NothingThen DEF PiecesInv

\* A sentence begins after the break before it, without tokens.
LEMMA PiecesEnter == ASSUME PiecesInv, Inputs', Enter PROVE PiecesInv'
<1>1. /\ pc = "loop" /\ pc' = "read" /\ ~fail /\ x_' = << >>
      /\ UNCHANGED <<program, files, f, pos, fail, xsize, x, written>>
      /\ Inputs /\ Collected
      /\ pos # 0 => Break(files[f][pos])
    BY DEF Enter, PiecesInv
<1>2. pos \in Nat /\ files[f] \in Seq(Lines)
    BY <1>1 DEF Inputs
<1>3. Start' = pos
    BY <1>1, <1>2 DEF Start
<1>4. Behind' = Behind
    BY <1>1, <1>3 DEF Behind
<1>5. Reading'
    <2>1. SubSeq(files[f], pos + 1, pos) = << >>
        BY <1>2
    <2>2. pos + 1 .. pos = {} /\ pos \in 0 .. pos
        BY <1>2
    <2>3. pos # 0 => Break(files[f][pos])'
        BY <1>1 DEF Break, Blank, Short
    <2> QED
        BY <1>1, <1>3, <2>1, <2>2, <2>3 DEF Reading
<1>6. Collected'
    <2>1. \A p \in Pieces : Past(p)' <=> Past(p)
        BY <1>1, <1>4 DEF Past
    <2> QED
        BY <1>1, <2>1, CollectedSame
<1> QED
    BY <1>1, <1>5, <1>6 DEF PiecesInv

\* A token line belongs to the sentence.
LEMMA PiecesReadToken == ASSUME PiecesInv, Inputs', ReadToken PROVE PiecesInv'
<1>1. /\ pc = "read" /\ pc' = pc /\ Gets /\ Line # << >> /\ Accepted(Line)
      /\ x_' = Append(x_, Line)
      /\ UNCHANGED <<program, files, f, fail, xsize, x, written>>
      /\ Inputs /\ Reading /\ Collected
    BY DEF ReadToken, PiecesInv
<1> DEFINE s == Start
           file == files[f]
<1>2. /\ pos \in Nat /\ s \in Nat /\ s <= pos /\ Len(x_) = pos - s /\ Len(x_) \in Nat
    BY <1>1, SentenceTypes
<1>3. /\ Line = file[pos + 1] /\ Line \in Lines /\ Line # LongLine
      /\ pos' = pos + 1 /\ pos + 1 \in 1 .. Len(file)
    BY <1>1, LineTaken
<1>4. ~Break(Line)
    <2>1. CASE program = "learn"
        BY <1>1, <2>1 DEF Break, Blank
    <2>2. CASE program # "learn"
        <3>1. Len(Line) >= xsize
            BY <1>1, <2>2 DEF Accepted
        <3>2. ~(Len(Line) < xsize)
            BY <1>1, <3>1, LineWidths
        <3> QED
            BY <1>1, <3>2 DEF Break, Blank, Short
    <2> QED
        BY <2>1, <2>2
<1>5. Start' = s
    <2>1. Len(x_') = Len(x_) + 1
        BY <1>1, <1>3 DEF Inputs
    <2> QED
        BY <1>2, <1>3, <2>1 DEF Start
<1>6. Reading'
    <2>1. /\ s # 0 => Break(file[s])
          /\ \A k \in s + 1 .. pos : ~Break(file[k])
          /\ x_ = SubSeq(file, s + 1, pos)
        BY <1>1 DEF Reading
    <2>2. \A line : Break(line)' <=> Break(line)
        BY <1>1 DEF Break, Blank, Short
    <2> HIDE DEF s, file
    <2>3. \A k \in s + 1 .. pos + 1 : k \in s + 1 .. pos \/ k = pos + 1
        BY <1>2
    <2>4. \A k \in s + 1 .. pos + 1 : ~Break(file[k])
        BY <1>3, <1>4, <2>1, <2>3
    <2>5. file \in Seq(Lines)
        BY <1>1 DEF Inputs, file
    <2>6. Append(SubSeq(file, s + 1, pos), file[pos + 1]) = SubSeq(file, s + 1, pos + 1)
        BY <1>2, <1>3, <2>5
    <2>7. x_' = SubSeq(file, s + 1, pos + 1)
        BY <1>1, <1>3, <2>1, <2>6
    <2>8. s \in 0 .. pos + 1 /\ ~fail
        BY <1>1, <1>2 DEF Reading
    <2>9. files'[f'] = file /\ Start' = s /\ pos' = pos + 1 /\ ~fail'
        BY <1>1, <1>3, <1>5, <2>8 DEF file
    <2>10. /\ Start' # 0 => Break(files[f][Start])'
           /\ \A k \in Start' + 1 .. pos' : ~Break(files[f][k])'
        <3>1. \A k : (Break(files[f][k])' <=> Break(files'[f'][k]))
            BY <1>1 DEF Break, Blank, Short
        <3>2. Break(files[f][Start])' <=> Break(files'[f'][Start'])
            BY <1>1 DEF Break, Blank, Short
        <3> QED
            BY <2>1, <2>4, <2>9, <3>1, <3>2
    <2> QED
        BY <2>7, <2>8, <2>9, <2>10 DEF Reading
<1>7. Collected'
    <2>1. Behind' = Behind
        BY <1>1, <1>5 DEF Behind
    <2>2. \A p \in Pieces : Past(p)' <=> Past(p)
        BY <1>1, <2>1 DEF Past
    <2> QED
        BY <1>1, <2>2, CollectedSame
<1> QED
    BY <1>1, <1>6, <1>7 DEF PiecesInv

\* A piece does not end in a line that is a break.
LEMMA NotItsLast ==
    ASSUME Inputs, NEW p \in Pieces, p[1] = f, Break(files[f][pos + 1]), p[3] <= pos + 1
    PROVE  p[3] <= pos
<1>0. pos \in Nat
    BY DEF Inputs
<1>1. /\ p[2] \in Nat /\ p[3] \in Nat /\ p[2] <= p[3] /\ pos \in Nat
      /\ \A k \in p[2] .. p[3] : ~Break(files[f][k])
    BY <1>0, PieceTypes
<1>2. p[3] \in p[2] .. p[3]
    BY <1>1
<1>3. p[3] # pos + 1
    BY <1>1, <1>2
<1> QED
    BY <1>1, <1>3

\* What a line of too few columns ends is no sentence.
LEMMA PiecesReadBadToken == ASSUME PiecesInv, Inputs', ReadBadToken PROVE PiecesInv'
<1>1. /\ pc = "read" /\ Gets /\ Line # << >> /\ ~Accepted(Line)
      /\ pc' = IF program = "learn" THEN "failed" ELSE "loop"
      /\ UNCHANGED <<program, files, f, fail, xsize, x, written>>
      /\ Inputs /\ Reading /\ Collected /\ program \in {"learn", "test"}
    BY DEF ReadBadToken, PiecesInv, Inputs
<1>2. CASE program = "learn"
    BY <1>1, <1>2 DEF PiecesInv
<1>3. CASE program = "test"
    <2>1. /\ Line = files[f][pos + 1] /\ Line \in Lines /\ Line # LongLine
          /\ pos' = pos + 1 /\ pos + 1 \in 1 .. Len(files[f]) /\ ~fail /\ pos \in Nat
        BY <1>1, LineTaken
    <2>2. Break(files[f][pos + 1]) /\ ~Blank(files[f][pos + 1])
        <3>1. ~(Len(Line) >= xsize)
            BY <1>1, <1>3 DEF Accepted
        <3>2. Len(Line) < xsize
            BY <1>1, <3>1, LineWidths
        <3> QED
            BY <1>1, <1>3, <2>1, <3>2 DEF Break, Blank, Short
    <2>3. Break(files[f][pos])'
        <3>1. Break(files[f][pos])' <=> Break(files'[f'][pos'])
            BY <1>1 DEF Break, Blank, Short
        <3> QED
            BY <1>1, <2>1, <2>2, <3>1
    <2>4. Behind = Start /\ Behind' = pos + 1
        BY <1>1, <1>3, <2>1 DEF Behind
    <2>5. Start \in Nat /\ Start <= pos
        BY <1>1, SentenceTypes
    <2>6. pos + 1 \in Given(files[f])
        BY <1>1, TakenIsGiven
    <2>7. ASSUME NEW p \in Pieces PROVE Past(p)' <=> Past(p)
        <3>1. p[1] \in Nat /\ p[3] \in Nat /\ f \in Nat
            <4>1. /\ p[1] \in 1 .. Len(files) /\ p[3] \in Nat /\ Len(files) \in Nat
                  /\ f \in 1 .. Len(files)
                BY <1>1, PieceTypes DEF Inputs
            <4> QED
                BY <4>1
        <3>2. /\ Past(p) <=> p[1] < f \/ (p[1] = f /\ p[3] <= Start)
              /\ Past(p)' <=> p[1] < f \/ (p[1] = f /\ p[3] <= pos + 1)
            BY <1>1, <2>4 DEF Past
        <3>3. ASSUME p[1] = f, p[3] <= pos + 1, ~(p[3] <= Start) PROVE FALSE
            <4>1. p[3] <= pos /\ Start < p[3]
                BY <1>1, <2>2, <2>5, <3>1, <3>3, NotItsLast
            <4>2. p = <<f, Start + 1, pos>>
                BY <1>1, <3>3, <4>1, LastPiece
            <4>3. p[3] = pos
                BY <4>2
            <4>4. Blank(files[f][pos + 1])
                BY <1>1, <2>6, <3>3, <4>3, PieceTypes
            <4> QED
                BY <2>2, <4>4
        <3> HIDE DEF Start
        <3>4. p[3] <= Start => p[3] <= pos + 1
            BY <2>1, <2>5, <3>1
        <3> QED
            BY <3>2, <3>3, <3>4
    <2>8. Collected'
        BY <1>1, <2>7, CollectedSame
    <2> QED
        BY <1>1, <1>3, <2>1, <2>3, <2>8 DEF PiecesInv
<1> QED
    BY <1>1, <1>2, <1>3

\* A blank line ends the sentence.
LEMMA PiecesReadBlank == ASSUME PiecesInv, Inputs', ReadBlank PROVE PiecesInv'
<1>1. /\ pc = "read" /\ pc' = "loop" /\ Gets /\ Line = << >> /\ SentenceEnds
      /\ UNCHANGED <<program, files, f, fail, xsize, x_>>
      /\ Inputs /\ Reading /\ Collected
    BY DEF ReadBlank, SentenceEnds, PiecesInv
<1>2. /\ Line = files[f][pos + 1] /\ pos' = pos + 1 /\ pos \in Nat /\ ~fail
    BY <1>1, LineTaken
<1>3. Blank(files[f][pos + 1]) /\ Break(files[f][pos + 1])
    BY <1>1, <1>2 DEF Break, Blank
<1>4. Break(files[f][pos])'
    <2>1. Break(files[f][pos])' <=> Break(files'[f'][pos'])
        BY <1>1 DEF Break, Blank, Short
    <2> QED
        BY <1>1, <1>2, <1>3, <2>1
<1>5. Behind' = pos + 1 /\ pos <= pos + 1 /\ pos + 1 \in Nat
    <2>1. Behind' = pos'
        BY <1>1, <1>2 DEF Behind
    <2> QED
        BY <1>2, <2>1
<1>6. \A p \in Pieces : p[1] = f /\ p[3] <= pos + 1 => p[3] <= pos
    BY <1>1, <1>3, NotItsLast
<1>7. Collected'
    BY <1>1, <1>3, <1>5, <1>6, SentenceGiven
<1> QED
    BY <1>1, <1>4, <1>7 DEF PiecesInv

\* The end of the file, or of what it gives, ends the sentence.
LEMMA PiecesReadEnd == ASSUME PiecesInv, Inputs', ReadEnd PROVE PiecesInv'
<1>1. /\ pc = "read" /\ pc' = "loop" /\ GetFails /\ SentenceEnds /\ fail' = TRUE
      /\ UNCHANGED <<program, files, f, pos, xsize, x_>>
      /\ Inputs /\ Reading /\ Collected /\ ~fail
    BY DEF ReadEnd, SentenceEnds, PiecesInv, Reading
<1>2. /\ pos \in Nat /\ pos <= Len(files[f]) /\ Len(files[f]) \in Nat
    BY <1>1 DEF Inputs
<1>3. Behind' = Len(files[f])
    BY <1>1 DEF Behind
<1>4. \A k \in Given(files[f]) : k <= pos
    BY <1>1, GivenUpTo
<1>5. pos + 1 \notin Given(files[f])
    BY <1>2, <1>4
<1>6. \A p \in Pieces : p[1] = f => p[3] <= pos
    BY <1>4 DEF Pieces
<1>7. Collected'
    BY <1>1, <1>2, <1>3, <1>5, <1>6, SentenceGiven
<1> QED
    BY <1>1, <1>7 DEF PiecesInv

\* The next file begins with nothing of it given out, and the last file is
\* followed by the end.
LEMMA PiecesFileEnds == ASSUME PiecesInv, Inputs', FileEnds PROVE PiecesInv'
<1>1. /\ pc = "loop" /\ fail
      /\ UNCHANGED <<program, files, xsize, max_size, y, x_, x, written>>
      /\ IF f < Len(files)
         THEN f' = f + 1 /\ pos' = 0 /\ fail' = FALSE /\ pc' = pc
         ELSE pc' = "done" /\ UNCHANGED <<f, pos, fail>>
      /\ Inputs /\ Collected
    BY DEF FileEnds, Open, PiecesInv
<1>2. f \in 1 .. Len(files) /\ Len(files) \in Nat /\ Behind = Len(files[f])
    BY <1>1 DEF Inputs, Behind
<1>3. ASSUME NEW p \in Pieces
      PROVE  /\ p[1] \in 1 .. Len(files) /\ p[3] \in Nat /\ 1 <= p[3]
             /\ p[3] <= Len(files[p[1]])
    <2>1. /\ p[1] \in 1 .. Len(files) /\ p[2] \in Nat /\ p[3] \in Nat
          /\ 1 <= p[2] /\ p[2] <= p[3] /\ p[3] <= Len(files[p[1]])
        BY <1>1, PieceTypes
    <2> QED
        BY <2>1
<1>4. CASE f < Len(files)
    <2>1. /\ f' = f + 1 /\ pos' = 0 /\ fail' = FALSE /\ pc' = "loop"
          /\ UNCHANGED <<program, files, xsize, x, written>>
        BY <1>1, <1>4
    <2>2. Behind' = 0
        BY <2>1 DEF Behind
    <2>3. ASSUME NEW p \in Pieces PROVE Past(p)' <=> Past(p)
        <3>1. Past(p) <=> p[1] < f \/ (p[1] = f /\ p[3] <= Len(files[f]))
            BY <1>2 DEF Past
        <3>2. Past(p)' <=> p[1] < f + 1 \/ (p[1] = f + 1 /\ p[3] <= 0)
            BY <2>1, <2>2 DEF Past
        <3>3. p[1] \in Nat /\ f \in Nat /\ p[3] \in Nat /\ 1 <= p[3]
              /\ (p[1] = f => p[3] <= Len(files[f]))
            BY <1>2, <1>3
        <3>4. p[1] < f + 1 <=> p[1] < f \/ p[1] = f
            BY <3>3
        <3>5. ~(p[3] <= 0)
            BY <3>3
        <3> QED
            BY <3>1, <3>2, <3>3, <3>4, <3>5
    <2>4. Collected'
        BY <1>1, <2>1, <2>3, CollectedSame
    <2>5. ~(pos' # 0)
        BY <2>1
    <2> QED
        BY <2>1, <2>4, <2>5 DEF PiecesInv
<1>5. CASE ~(f < Len(files))
    <2>1. /\ pc' = "done" /\ UNCHANGED <<f, pos, fail>>
          /\ UNCHANGED <<program, files, xsize, x, written>>
        BY <1>1, <1>5
    <2>2. f = Len(files)
        BY <1>2, <1>5
    <2>3. Behind' = Behind
        BY <1>1, <2>1 DEF Behind
    <2>4. \A p \in Pieces : Past(p)' <=> Past(p)
        BY <2>1, <2>3 DEF Past
    <2>5. Collected'
        BY <1>1, <2>1, <2>4, CollectedSame
    <2> QED
        BY <1>1, <2>1, <2>2, <2>5 DEF PiecesInv
<1> QED
    BY <1>4, <1>5

LEMMA PiecesStep == PiecesInv /\ [Next]_vars => PiecesInv'
<1> SUFFICES ASSUME PiecesInv, [Next]_vars PROVE PiecesInv'
    OBVIOUS
<1>1. Inputs'
    BY InputsStep DEF PiecesInv
<1>2. CASE TagSetBlank \/ TagSetToken
    <2>1. /\ pc = "tagset" /\ pc' \in {"tagset", "failed"}
          /\ UNCHANGED <<program, f, x>>
        BY <1>2 DEF TagSetBlank, TagSetToken
    <2>2. program = "learn" /\ x = << >> /\ f = 1
        BY <2>1 DEF PiecesInv
    <2> QED
        BY <1>1, <2>1, <2>2 DEF PiecesInv
<1>3. CASE UNCHANGED vars
    <2>1. Collected' <=> Collected
        BY <1>3 DEF vars, Collected, Matches, Out, Past, Behind, Start, Pieces, Given,
                    Break, Blank, Short, Before
    <2>2. Reading' <=> Reading
        BY <1>3 DEF vars, Reading, Start, Break, Blank, Short
    <2>3. Break(files[f][pos])' <=> Break(files[f][pos])
        BY <1>3 DEF vars, Break, Blank, Short
    <2> QED
        BY <1>1, <1>3, <2>1, <2>2, <2>3 DEF vars, PiecesInv
<1>4. CASE TagSetEnd
    BY <1>1, <1>4, PiecesTagSetEnd
<1>5. CASE Enter
    BY <1>1, <1>5, PiecesEnter
<1>6. CASE ReadToken
    BY <1>1, <1>6, PiecesReadToken
<1>7. CASE ReadBadToken
    BY <1>1, <1>7, PiecesReadBadToken
<1>8. CASE ReadBlank
    BY <1>1, <1>8, PiecesReadBlank
<1>9. CASE ReadEnd
    BY <1>1, <1>9, PiecesReadEnd
<1>10. CASE FileEnds
    BY <1>1, <1>10, PiecesFileEnds
<1> QED
    BY <1>2, <1>3, <1>4, <1>5, <1>6, <1>7, <1>8, <1>9, <1>10 DEF Next, Finished

\* At the end every piece has been given out.
LEMMA AllGivenOut == PiecesInv /\ pc = "done" => InOrder(Out, Pieces)
<1> SUFFICES ASSUME PiecesInv, pc = "done" PROVE InOrder(Out, Pieces)
    OBVIOUS
<1>1. Inputs /\ Collected /\ f = Len(files) /\ fail
    BY DEF PiecesInv
<1>2. Behind = Len(files[f]) /\ Len(files) \in Nat
    BY <1>1 DEF Behind, Inputs
<1>3. \A p \in Pieces : Past(p)
    <2> SUFFICES ASSUME NEW p \in Pieces PROVE Past(p)
        OBVIOUS
    <2>1. p[1] \in 1 .. Len(files) /\ p[3] <= Len(files[p[1]])
        BY <1>1, PieceTypes
    <2>2. p[1] < f \/ p[1] = f
        BY <1>1, <1>2, <2>1
    <2> QED
        BY <1>2, <2>1, <2>2 DEF Past
<1>4. Out \in Seq(Seq(Lines))
    BY <1>1 DEF Inputs, Out
<1>5. DOMAIN Out = 1 .. Len(Out)
    BY <1>4
<1>6. PICK at : /\ Matches(Out, at)
                /\ \A p \in Pieces : Past(p) <=> \E k \in 1 .. Len(Out) : at[k] = p
    BY <1>1 DEF Collected
<1>7. \A p \in Pieces : \E k \in 1 .. Len(Out) : at[k] = p
    BY <1>3, <1>6
<1> QED
    BY <1>5, <1>6, <1>7 DEF InOrder, Matches

\* Whatever files crf_test is given, it writes their pieces and nothing else.
THEOREM WritesSentences == Spec => []WritesPieces
<1>1. PiecesInv => WritesPieces
    BY AllGivenOut DEF WritesPieces, Out
<1> QED
    BY PiecesInit, PiecesStep, <1>1, PTL DEF Spec

\* The labels of these lines of the training file.
LabelsOf(numbers) ==
    {files[1][k][Columns(files[1][k])] : k \in {k \in numbers : ~Blank(files[1][k])}}

\* openTagSet has found the labels of the lines it has read; in the end
\* these are the lines the file gives.
LabelsInv ==
    program = "learn" =>
        /\ pc = "tagset" => y = LabelsOf(1 .. pos)
        /\ pc \in {"loop", "read", "done"} =>
             /\ y = LabelsOf(Given(files[1]))
             /\ \A k \in Given(files[1]) :
                  ~Blank(files[1][k]) => Columns(files[1][k]) = xsize + 1

LEMMA LabelsInit == Init => LabelsInv
<1> SUFFICES ASSUME Init, program = "learn" PROVE pc = "tagset" /\ y = LabelsOf(1 .. pos)
    BY DEF LabelsInv
<1>1. pc = "tagset" /\ pos = 0 /\ y = {}
    BY DEF Init
<1>2. 1 .. 0 = {}
    OBVIOUS
<1> QED
    BY <1>1, <1>2 DEF LabelsOf

LEMMA LabelsStep ==
    LabelsInv /\ LearnInv /\ PiecesInv /\ [Next]_vars => LabelsInv'
<1> SUFFICES ASSUME LabelsInv, LearnInv, PiecesInv, [Next]_vars PROVE LabelsInv'
    OBVIOUS
<1>p. program' = program
    BY DEF Next, vars, TagSetBlank, TagSetToken, TagSetEnd, Enter, ReadToken,
           ReadBadToken, ReadBlank, ReadEnd, FileEnds, Finished
<1> SUFFICES ASSUME program = "learn"
             PROVE  /\ pc' = "tagset" => (y = LabelsOf(1 .. pos))'
                    /\ pc' \in {"loop", "read", "done"} =>
                         /\ (y = LabelsOf(Given(files[1])))'
                         /\ (\A k \in Given(files[1]) :
                               ~Blank(files[1][k]) => Columns(files[1][k]) = xsize + 1)'
    BY <1>p DEF LabelsInv
<1>1. Inputs /\ OneFile
    BY DEF PiecesInv, LearnInv
<1>2. pos \in Nat /\ \A k \in 1 .. pos + 1 : k \in 1 .. pos \/ k = pos + 1
    BY <1>1 DEF OneFile
<1>3. CASE TagSetBlank
    <2>1. /\ pc = "tagset" /\ pc' = pc /\ Gets /\ Line = << >> /\ UNCHANGED <<files, y>>
        BY <1>3 DEF TagSetBlank
    <2>2. pos' = pos + 1 /\ Blank(files[1][pos + 1])
        BY <1>1, <2>1, NextLine DEF Blank
    <2>3. y = LabelsOf(1 .. pos)
        BY <2>1 DEF LabelsInv
    <2>4. {k \in 1 .. pos + 1 : ~Blank(files[1][k])} = {k \in 1 .. pos : ~Blank(files[1][k])}
        BY <1>2, <2>2
    <2>5. y = LabelsOf(1 .. pos + 1)
        BY <2>3, <2>4 DEF LabelsOf
    <2> QED
        BY <2>1, <2>2, <2>5 DEF LabelsOf, Blank
<1>4. CASE TagSetToken
    <2>1. /\ pc = "tagset" /\ pc' \in {"tagset", "failed"} /\ Gets /\ Line # << >>
          /\ pc' = "tagset" => /\ max_size' = Columns(Line)
                               /\ y' = y \cup {Line[max_size']}
          /\ UNCHANGED files
        BY <1>4 DEF TagSetToken
    <2>2. pos' = pos + 1 /\ Line = files[1][pos + 1] /\ ~Blank(files[1][pos + 1])
        BY <1>1, <2>1, NextLine DEF Blank
    <2> SUFFICES ASSUME pc' = "tagset" PROVE y' = LabelsOf(1 .. pos + 1)
        BY <2>1, <2>2 DEF LabelsOf, Blank
    <2> DEFINE label == files[1][pos + 1][Columns(files[1][pos + 1])]
    <2>3. y' = LabelsOf(1 .. pos) \cup {label}
        BY <2>1, <2>2 DEF LabelsInv
    <2>4. {k \in 1 .. pos + 1 : ~Blank(files[1][k])}
            = {k \in 1 .. pos : ~Blank(files[1][k])} \cup {pos + 1}
        BY <1>2, <2>2
    <2>5. LabelsOf(1 .. pos + 1) = LabelsOf(1 .. pos) \cup {label}
        BY <2>4 DEF LabelsOf
    <2> QED
        BY <2>3, <2>5
<1>5. CASE TagSetEnd
    <2>1. /\ pc = "tagset" /\ pc' = "loop" /\ GetFails /\ UNCHANGED <<files, xsize, y>>
        BY <1>5 DEF TagSetEnd
    <2>2. FirstPass /\ f = 1 /\ y = LabelsOf(1 .. pos)
        BY <1>1, <2>1 DEF LearnInv, LabelsInv, OneFile
    <2>3. Given(files[1]) = 1 .. pos
        <3>1. /\ \A k \in 1 .. pos : k \in Given(files[1])
              /\ \A k \in Given(files[1]) : k <= pos
            BY <1>1, <2>1, <2>2, GivenUpTo DEF FirstPass
        <3>2. \A k \in Given(files[1]) : k \in Nat /\ 1 <= k
            BY <1>1, <2>2 DEF Given, Inputs
        <3>3. \A k \in Given(files[1]) : k \in 1 .. pos
            BY <1>2, <3>1, <3>2
        <3> QED
            BY <3>1, <3>3
    <2>4. \A k \in 1 .. pos : ~Blank(files[1][k]) => Columns(files[1][k]) = xsize + 1
        BY <2>2 DEF FirstPass, Checked, Blank
    <2> QED
        BY <2>1, <2>2, <2>3, <2>4 DEF LabelsOf, Given, Blank
<1>6. CASE \/ Enter \/ ReadToken \/ ReadBadToken \/ ReadBlank \/ ReadEnd \/ FileEnds
    <2>1. /\ pc \in {"loop", "read"} /\ pc' # "tagset" /\ UNCHANGED <<files, xsize, y>>
        BY <1>6 DEF Enter, ReadToken, ReadBadToken, ReadBlank, ReadEnd, SentenceEnds, FileEnds
    <2>2. /\ y = LabelsOf(Given(files[1]))
          /\ \A k \in Given(files[1]) :
               ~Blank(files[1][k]) => Columns(files[1][k]) = xsize + 1
        BY <2>1 DEF LabelsInv
    <2> QED
        BY <2>1, <2>2 DEF LabelsOf, Given, Blank
<1>7. CASE UNCHANGED vars
    BY <1>7 DEF vars, LabelsInv, LabelsOf, Given, Blank
<1> QED
    BY <1>3, <1>4, <1>5, <1>6, <1>7 DEF Next, Finished

\* Whatever the training file is: what learn trains on when it has read it
\* are its sentences, and the label it takes of each token is one the first
\* pass has found.  A line of more than MaxColumns columns is not refused:
\* it counts as one of MaxColumns, in both passes.
THEOREM TrainsOnSentences == Spec => []TrainsOnRuns
<1>1. PiecesInv /\ LabelsInv => TrainsOnRuns
    <2> SUFFICES ASSUME PiecesInv, LabelsInv, program = "learn", pc = "done"
                 PROVE  LET tokens == {k \in Given(files[1]) : ~Blank(files[1][k])}
                        IN  /\ InOrder(x, Pieces)
                            /\ \A k \in tokens : Columns(files[1][k]) = xsize + 1
                            /\ y = {files[1][k][xsize + 1] : k \in tokens}
        BY DEF TrainsOnRuns
    <2>1. InOrder(x, Pieces)
        BY AllGivenOut DEF Out
    <2>2. /\ y = LabelsOf(Given(files[1]))
          /\ \A k \in Given(files[1]) :
               ~Blank(files[1][k]) => Columns(files[1][k]) = xsize + 1
        BY DEF LabelsInv
    <2> DEFINE tokens == {k \in Given(files[1]) : ~Blank(files[1][k])}
    <2>3. \A k \in tokens : Columns(files[1][k]) = xsize + 1
        BY <2>2
    <2>4. y = {files[1][k][Columns(files[1][k])] : k \in tokens}
        BY <2>2 DEF LabelsOf
    <2>5. y = {files[1][k][xsize + 1] : k \in tokens}
        <3> HIDE DEF tokens
        <3> QED BY <2>3, <2>4
    <2> QED
        BY <2>1, <2>3, <2>5
<1>2. LearnInv /\ [Next]_vars => LearnInv'
    BY LearnStep
<1> QED
    BY LearnInit, LabelsInit, PiecesInit, <1>2, LabelsStep, PiecesStep, <1>1, PTL DEF Spec

=============================================================================
