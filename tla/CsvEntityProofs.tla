--------------------------- MODULE CsvEntityProofs ---------------------------
(******************************************************************************)
(* Proofs about the streaming parser of CsvEntity, for every set of lines,    *)
(* every length of the file, every terminator and every way the stream cuts   *)
(* it into chunks.                                                            *)
(*                                                                            *)
(* The argument has three parts.  Rows and Chunks: the rows of a text are a   *)
(* fold of its characters, and a chunk put after the row the last one left    *)
(* open gives the same open row and the same products as the whole text so    *)
(* far (ChunkIsText); a chunk boundary between CR and LF makes a row without  *)
(* a character more, which changes nothing once the header was read.  The     *)
(* file: its rows are its lines (FileSplit).  What the rows mean: reading the *)
(* first k lines gathers their products or meets a faulty one (LinesRead).    *)
(*                                                                            *)
(* The inductive invariant IInv joins them: the variables are those of one    *)
(* reading of the text delivered so far (AsWhole), which the properties, that *)
(* speak of lines, do not say by themselves.                                  *)
(*                                                                            *)
(* The last part is about the output.  A row of buildCSV is parsed character  *)
(* by character into its four columns (ColumnsReadBack), a list of urls is    *)
(* what its text is split into (JoinedSplit), and the products the parser     *)
(* keeps have trimmed names and urls isUrl accepts (the invariant Kept).      *)
(******************************************************************************)
EXTENDS CsvEntity, SequenceTheorems, FiniteSetTheorems, TLAPS

Splits == INSTANCE FoldTheory WITH Step <- SplitStep
Rows == INSTANCE FoldTheory WITH Step <- ReadRow
News == INSTANCE FoldTheory WITH Step <- AddNew
Columns == INSTANCE FoldTheory WITH Step <- ColumnStep
Commas == INSTANCE FoldTheory WITH Step <- CommaStep
Joins == INSTANCE FoldTheory WITH Step <- JoinStep

Token == STRING \cup {CR, LF, Space, Comma, Quote, Wide, Replacement, "1"}
Text == Seq(Token)
Plain(t) == \A i \in 1..Len(t) : t[i] \notin EndOfLine

(* SplitRows is a fold of SplitStep, to which the lemmas of FoldTheory apply.  *)
LEMMA SplitRowsIs == \A t : SplitRows(t) = Splits!Fold(NoText, t)
  BY DEF SplitRows, Splits!Fold, FoldLeft, MapThenFoldSet, Max,
         Splits!FoldLeft, Splits!MapThenFoldSet, Splits!Max

(* The characters the splitter distinguishes differ from one another.          *)
LEMMA EndsDiffer ==
    /\ CR # LF /\ Space # CR /\ Space # LF
    /\ EndOfLine = {CR, LF} /\ {CR, LF, Space, Wide, Replacement} \subseteq Token
  <1>1. CR # LF /\ Space # CR /\ Space # LF
      BY SMT DEF CR, LF, Space
  <1> QED
      BY <1>1 DEF EndOfLine, Token

(* An instance has its own copy of the operators its module extends.           *)
LEMMA FlattenIs == \A q : FlattenSeq(q) = Splits!FlattenSeq(q)
  BY DEF FlattenSeq, Splits!FlattenSeq

(* Texts can be joined, and the rows of a joined text are read on from those   *)
(* of its first part.                                                          *)
LEMMA TextsJoin ==
  ASSUME NEW s \in Text, NEW t \in Text
  PROVE  /\ s \o t \in Text /\ << >> \in Text
         /\ << >> \o s = s /\ s \o << >> = s
         /\ SplitRows(s \o t) = Splits!Fold(SplitRows(s), t)
  <1>1. s \in Seq(Token) /\ t \in Seq(Token)
      BY DEF Text
  <1>2. s \o t \in Seq(Token) /\ << >> \in Seq(Token)
      BY <1>1, ConcatProperties, EmptySeq
  <1>3. << >> \o s = s /\ s \o << >> = s
      BY <1>1, ConcatEmptySeq
  <1>4. SplitRows(s \o t) = Splits!Fold(SplitRows(s), t)
      BY <1>1, SplitRowsIs, Splits!FoldConcat
  <1> QED
      BY <1>2, <1>3, <1>4 DEF Text

(* Texts can be flattened, one more at a time.                                 *)
LEMMA TextsFlatten ==
  ASSUME NEW q \in Seq(Text), NEW t \in Text
  PROVE  /\ FlattenSeq(q) \in Text
         /\ FlattenSeq(Append(q, t)) = FlattenSeq(q) \o t
         /\ FlattenSeq(<< >>) = << >>
  <1>1. q \in Seq(Seq(Token)) /\ t \in Seq(Token)
      BY DEF Text
  <1>2. Splits!FlattenSeq(q) \in Seq(Token)
      BY <1>1, Splits!FlattenType
  <1>3. Splits!FlattenSeq(Append(q, t)) = Splits!FlattenSeq(q) \o t
      BY <1>1, Splits!FlattenAppend
  <1>4. Splits!FlattenSeq(<< >>) = << >>
      BY Splits!FlattenEmpty
  <1> QED
      BY <1>2, <1>3, <1>4, FlattenIs DEF Text

-------------------------------------------------------------------------------
(* Rows                                                                        *)

Acc == [rows : Seq(Text), open : Text, last : Token]

(* What one character does to the rows split so far: it joins the open row,    *)
(* is the second half of a terminator of two, or ends the row.                 *)
LEMMA SplitStepIs ==
  ASSUME NEW a \in Acc, NEW c \in Token
  PROVE  LET b == SplitStep(a, c)
         IN /\ b \in Acc
            /\ c \notin EndOfLine =>
                  b.rows = a.rows /\ b.open = Append(a.open, c) /\ b.last = Space
            /\ c \in EndOfLine /\ a.last \in EndOfLine \ {c} =>
                  b.rows = a.rows /\ b.open = a.open /\ b.last = Space
            /\ c \in EndOfLine /\ a.last \notin EndOfLine \ {c} =>
                  b.rows = Append(a.rows, a.open) /\ b.open = << >> /\ b.last = c
  <1>0. a.rows \in Seq(Text) /\ a.open \in Text /\ a.last \in Token /\ << >> \in Text
      BY EmptySeq DEF Acc, Text
  <1>1. CASE c \notin EndOfLine
    <2>1. Append(a.open, c) \in Text
        BY <1>0, AppendProperties DEF Text
    <2> QED
        BY <1>0, <1>1, <2>1, EndsDiffer DEF SplitStep, Acc
  <1>2. CASE c \in EndOfLine /\ a.last \in EndOfLine \ {c}
      BY <1>2, EndsDiffer DEF SplitStep, Acc
  <1>3. CASE c \in EndOfLine /\ a.last \notin EndOfLine \ {c}
    <2>1. Append(a.rows, a.open) \in Seq(Text)
        BY <1>0, AppendProperties
    <2> QED
        BY <1>0, <1>3, <2>1, EndsDiffer DEF SplitStep, Acc
  <1> QED
      BY <1>1, <1>2, <1>3

(* After an end of line no row is open, and one has ended.                     *)
Shaped == {a \in Acc :
              /\ a.last \in EndOfLine => a.open = << >> /\ a.rows # << >>
              /\ a.last \notin EndOfLine => a.last = Space
              /\ Plain(a.open)}

(* Nothing read has no rows, and is Shaped.                                    *)
LEMMA NoTextShaped ==
    NoText \in Shaped /\ NoText.rows = << >> /\ NoText.open = << >> /\ NoText.last = Space
  <1>1. << >> \in Text /\ << >> \in Seq(Text) /\ Len(<< >>) = 0
      BY EmptySeq DEF Text
  <1> QED
      BY <1>1, EndsDiffer DEF NoText, Shaped, Acc, Plain

(* A text without an end of line stays one with a character that is none.      *)
LEMMA PlainAppend ==
  ASSUME NEW t \in Text, NEW c \in Token, Plain(t), c \notin EndOfLine
  PROVE  Plain(Append(t, c))
  <1>1. /\ Len(t) \in Nat /\ Len(Append(t, c)) = Len(t) + 1
        /\ \A i \in 1..Len(t) : Append(t, c)[i] = t[i]
        /\ Append(t, c)[Len(t) + 1] = c
      BY AppendProperties, LenProperties DEF Text
  <1> QED
      BY <1>1 DEF Plain

(* Every character keeps the shape.                                            *)
LEMMA ShapedStep ==
  ASSUME NEW a \in Shaped, NEW c \in Token
  PROVE  SplitStep(a, c) \in Shaped
  <1> DEFINE b == SplitStep(a, c)
  <1>1. a \in Acc /\ b \in Acc
      BY SplitStepIs DEF Shaped
  <1>2. a.open \in Text /\ a.rows \in Seq(Text) /\ Plain(a.open) /\ Plain(<< >>)
      BY <1>1, EmptySeq DEF Acc, Shaped, Plain
  <1>3. CASE c \notin EndOfLine
    <2>1. b.open = Append(a.open, c) /\ b.last = Space
        BY <1>1, <1>3, SplitStepIs
    <2>2. Plain(b.open)
        BY <1>2, <1>3, <2>1, PlainAppend
    <2> QED
        BY <1>1, <2>1, <2>2, EndsDiffer DEF Shaped
  <1>4. CASE c \in EndOfLine /\ a.last \in EndOfLine \ {c}
    <2>1. b.open = a.open /\ b.last = Space
        BY <1>1, <1>4, SplitStepIs
    <2> QED
        BY <1>1, <1>2, <2>1, EndsDiffer DEF Shaped
  <1>5. CASE c \in EndOfLine /\ a.last \notin EndOfLine \ {c}
    <2>1. b.rows = Append(a.rows, a.open) /\ b.open = << >> /\ b.last = c
        BY <1>1, <1>5, SplitStepIs
    <2>2. Append(a.rows, a.open) # << >>
        BY <1>2, AppendProperties
    <2> QED
        BY <1>1, <1>2, <1>5, <2>1, <2>2 DEF Shaped
  <1> QED
      BY <1>3, <1>4, <1>5

(* And so does every text.                                                     *)
LEMMA SplitShaped ==
  ASSUME NEW a \in Shaped, NEW t \in Text
  PROVE  Splits!Fold(a, t) \in Shaped
  BY ShapedStep, Splits!FoldKeeps DEF Text

-------------------------------------------------------------------------------
(* What a row does                                                             *)

(* Trimming nothing leaves nothing.                                            *)
LEMMA NoTextKept == Trim(<< >>) = << >>
  BY EmptySeq DEF Trim

(* The columns of a row are gathered by a fold of ColumnStep.                  *)
LEMMA ColumnsIs ==
  \A acc, row : FoldLeft(ColumnStep, acc, row) = Columns!Fold(acc, row)
  BY DEF FoldLeft, MapThenFoldSet, Max,
         Columns!Fold, Columns!FoldLeft, Columns!MapThenFoldSet, Columns!Max

(* The row without a character is closed and empty: the two ends of a CR LF    *)
(* that a chunk boundary parts make one such row too many.                     *)
LEMMA NothingParsed ==
    ParseCols(<< >>).closed /\ IsEmptyRow(ParseCols(<< >>).cols)
  <1> DEFINE none == [i \in DOMAIN << >> |-> << << >>, i >>]
             end == FoldLeft(ColumnStep, NoColumns, none)
  <1>1. none = << >>
      BY EmptySeq
  <1>2. end = Columns!Fold(NoColumns, none)
      BY ColumnsIs
  <1>3. end = NoColumns
      BY <1>1, <1>2, Columns!FoldEmpty
  <1>4. ParseCols(<< >>) = [closed |-> ~end.inQuotes, cols |-> Append(end.cols, Trim(end.col))]
      BY DEF ParseCols
  <1> HIDE DEF end
  <1>5. end.inQuotes = FALSE /\ end.cols = << >> /\ end.col = << >>
      BY <1>3 DEF NoColumns, Gathering
  <1>6. ParseCols(<< >>).cols = << << >> >>
      BY <1>4, <1>5, NoTextKept
  <1>7. IsEmptyRow(ParseCols(<< >>).cols)
      BY <1>6 DEF IsEmptyRow
  <1>8. ParseCols(<< >>).closed
    <2>1. \A x, e, c : x = [closed |-> e, cols |-> c] => x.closed = e
        BY SMT
    <2>2. ParseCols(<< >>).closed = ~end.inQuotes
        BY <1>4, <2>1, Zenon
    <2> QED
        BY <1>5, <2>2, Zenon
  <1> QED
      BY <1>7, <1>8

IsState(st) ==
    /\ st = [x \in {"header", "products", "ok"} |-> st[x]]
    /\ st.header \in BOOLEAN /\ st.ok \in BOOLEAN

(* The header was read, or the file is rejected.                               *)
Settled(st) == IsState(st) /\ (st.header \/ ~st.ok)

(* What ReadRow does, by what the row is.                                      *)
LEMMA ReadRowIs ==
  ASSUME NEW st, IsState(st), NEW row
  PROVE  LET new == ReadRow(st, row)
             parsed == ParseCols(row)
         IN /\ IsState(new)
            /\ ~st.ok => new = st
            /\ st.ok => new.header \/ ~new.ok
            /\ st.ok /\ ~st.header =>
                  /\ new.ok <=> parsed.closed /\ IsHeader(parsed.cols)
                  /\ new.products = st.products
            /\ st.ok /\ st.header =>
                  /\ parsed.closed /\ IsEmptyRow(parsed.cols) => new = st
                  /\ ~IsEmptyRow(parsed.cols) \/ ~parsed.closed =>
                        (new.ok <=> parsed.closed /\ ValidProduct(parsed.cols))
                  /\ new.ok /\ ~IsEmptyRow(parsed.cols) =>
                        new.products = MergeProductsData(st.products, ProductFromRow(parsed.cols))
  <1> DEFINE new == ReadRow(st, row)
             parsed == ParseCols(row)
             cols == parsed.cols
             thrown == [st EXCEPT !.ok = FALSE]
  <1>1. IsState(thrown) /\ thrown.ok = FALSE /\ thrown.products = st.products
      BY DEF IsState
  <1>2. CASE ~st.ok
      BY <1>2 DEF ReadRow
  <1>3. CASE st.ok /\ ~parsed.closed
    <2>1. new = thrown
        BY <1>3 DEF ReadRow
    <2> QED
        BY <1>1, <1>3, <2>1
  <1>4. CASE st.ok /\ parsed.closed /\ ~st.header
    <2>1. CASE IsHeader(cols)
      <3>1. new = [st EXCEPT !.header = TRUE]
          BY <1>4, <2>1 DEF ReadRow
      <3>2. IsState(new) /\ new.header = TRUE /\ new.ok = st.ok /\ new.products = st.products
          BY <3>1 DEF IsState
      <3> QED
          BY <1>4, <2>1, <3>2
    <2>2. CASE ~IsHeader(cols)
      <3>1. new = thrown
          BY <1>4, <2>2 DEF ReadRow
      <3> QED
          BY <1>1, <1>4, <2>2, <3>1
    <2> QED
        BY <2>1, <2>2
  <1>5. CASE st.ok /\ parsed.closed /\ st.header
    <2>1. CASE IsEmptyRow(cols)
        BY <1>5, <2>1 DEF ReadRow
    <2>2. CASE ~IsEmptyRow(cols) /\ ~ValidProduct(cols)
      <3>1. new = thrown
          BY <1>5, <2>2 DEF ReadRow
      <3> QED
          BY <1>1, <1>5, <2>2, <3>1
    <2>3. CASE ~IsEmptyRow(cols) /\ ValidProduct(cols)
      <3> DEFINE merged == MergeProductsData(st.products, ProductFromRow(cols))
      <3>1. new = [st EXCEPT !.products = merged]
          BY <1>5, <2>3 DEF ReadRow
      <3> HIDE DEF merged
      <3>2. IsState(new) /\ new.header = st.header /\ new.ok = st.ok /\ new.products = merged
          BY <3>1 DEF IsState
      <3> QED
          BY <1>5, <2>3, <3>2 DEF merged
    <2> QED
        BY <2>1, <2>2, <2>3
  <1> QED
      BY <1>2, <1>3, <1>4, <1>5 DEF IsState

(* One row suffices to read the header or to reject the file.                  *)
LEMMA RowSettles ==
  ASSUME NEW st, IsState(st), NEW row
  PROVE  Settled(ReadRow(st, row))
  BY ReadRowIs DEF Settled

(* From then on a row without a character changes nothing.                     *)
LEMMA NothingRead ==
  ASSUME NEW st, Settled(st)
  PROVE  ReadRow(st, << >>) = st
  BY ReadRowIs, NothingParsed DEF Settled

(* Any rows leave a state, and a settled one if there was a row.               *)
LEMMA RowsSettle ==
  ASSUME NEW st, IsState(st), NEW rows \in Seq(Text)
  PROVE  IsState(Rows!Fold(st, rows)) /\ (rows # << >> => Settled(Rows!Fold(st, rows)))
  <1> DEFINE T == {q \in Seq(Text) :
                      /\ IsState(Rows!Fold(st, q))
                      /\ q # << >> => Settled(Rows!Fold(st, q))}
  <1>1. << >> \in T
      BY EmptySeq, Rows!FoldEmpty
  <1>2. ASSUME NEW q \in T, NEW row \in Text PROVE Append(q, row) \in T
    <2>1. Rows!Fold(st, Append(q, row)) = ReadRow(Rows!Fold(st, q), row)
        BY Rows!FoldAppend
    <2>2. Settled(ReadRow(Rows!Fold(st, q), row))
        BY <1>2, RowSettles
    <2>3. Append(q, row) \in Seq(Text)
        BY AppendProperties
    <2> QED
        BY <2>1, <2>2, <2>3 DEF Settled
  <1> HIDE DEF T
  <1>3. T = Seq(Text)
    <2>1. T \in SUBSET Seq(Text)
        BY DEF T
    <2> QED
        BY <1>1, <1>2, <2>1, Rows!InductionSeq
  <1> QED
      BY <1>3 DEF T

-------------------------------------------------------------------------------
(* Chunks                                                                      *)

(* The rows of a chunk, read from the state cur, and those of the whole        *)
(* text, read from st, leave the same: the two may differ in rows without a    *)
(* character, once a row was read.                                             *)
Same(cur, a, st, b) ==
    /\ a.open = b.open
    /\ Rows!Fold(cur, a.rows) = Rows!Fold(st, b.rows)
    /\ a.last = b.last \/ (b.open = << >> /\ b.rows # << >>)

(* A further character keeps two splits the Same.                              *)
LEMMA SameStep ==
  ASSUME NEW cur, IsState(cur), NEW st, IsState(st),
         NEW a \in Acc, NEW b \in Acc, Same(cur, a, st, b), NEW c \in Token
  PROVE  Same(cur, SplitStep(a, c), st, SplitStep(b, c))
  <1> DEFINE a1 == SplitStep(a, c)
             b1 == SplitStep(b, c)
             afterA == Rows!Fold(cur, a.rows)
             afterB == Rows!Fold(st, b.rows)
             Pairs(x) == c \in EndOfLine /\ x.last \in EndOfLine \ {c}
             Ends(x) == c \in EndOfLine /\ x.last \notin EndOfLine \ {c}
  <1>0. /\ a.rows \in Seq(Text) /\ a.open \in Text /\ b.rows \in Seq(Text) /\ b.open \in Text
        /\ a.open = b.open /\ afterA = afterB
        /\ a.last = b.last \/ (b.open = << >> /\ b.rows # << >>)
      BY DEF Acc, Same
  <1>1. /\ Ends(a) => /\ a1.rows = Append(a.rows, a.open) /\ a1.open = << >> /\ a1.last = c
                      /\ Rows!Fold(cur, a1.rows) = ReadRow(afterA, a.open)
        /\ Ends(b) => /\ b1.rows = Append(b.rows, b.open) /\ b1.open = << >> /\ b1.last = c
                      /\ Rows!Fold(st, b1.rows) = ReadRow(afterB, b.open)
                      /\ b1.rows # << >>
    <2>1. Rows!Fold(cur, Append(a.rows, a.open)) = ReadRow(afterA, a.open)
        BY <1>0, Rows!FoldAppend
    <2>2. Rows!Fold(st, Append(b.rows, b.open)) = ReadRow(afterB, b.open)
        BY <1>0, Rows!FoldAppend
    <2>3. Append(b.rows, b.open) # << >>
        BY <1>0, AppendProperties
    <2> QED
        BY <2>1, <2>2, <2>3, SplitStepIs
  <1>2. /\ Pairs(a) => a1.rows = a.rows /\ a1.open = a.open /\ a1.last = Space
        /\ Pairs(b) => b1.rows = b.rows /\ b1.open = b.open /\ b1.last = Space
      BY SplitStepIs
  <1>3. c \notin EndOfLine =>
           /\ a1.rows = a.rows /\ a1.open = Append(a.open, c) /\ a1.last = Space
           /\ b1.rows = b.rows /\ b1.open = Append(b.open, c) /\ b1.last = Space
      BY SplitStepIs
  <1>4. b.rows # << >> => ReadRow(afterB, << >>) = afterB
      BY <1>0, RowsSettle, NothingRead
  <1> HIDE DEF a1, b1, afterA, afterB
  <1>5. CASE c \notin EndOfLine
      BY <1>0, <1>3, <1>5 DEF Same, a1, b1, afterA, afterB
  <1>6. CASE Pairs(a) /\ Pairs(b)
      BY <1>0, <1>2, <1>6 DEF Same, a1, b1, afterA, afterB
  <1>7. CASE Ends(a) /\ Ends(b)
      BY <1>0, <1>1, <1>7 DEF Same, a1, b1
  <1>8. CASE Pairs(a) /\ Ends(b)
    <2>1. b.open = << >> /\ b.rows # << >>
        BY <1>0, <1>8
    <2>2. Rows!Fold(st, b1.rows) = afterB
        BY <1>1, <1>4, <1>8, <2>1
    <2> QED
        BY <1>0, <1>1, <1>2, <1>8, <2>1, <2>2 DEF Same, a1, b1, afterA, afterB
  <1>9. CASE Ends(a) /\ Pairs(b)
    <2>1. b.open = << >> /\ b.rows # << >>
        BY <1>0, <1>9
    <2>2. Rows!Fold(cur, a1.rows) = afterB
        BY <1>0, <1>1, <1>4, <1>9, <2>1
    <2> QED
        BY <1>0, <1>1, <1>2, <1>9, <2>1, <2>2 DEF Same, a1, b1, afterA, afterB
  <1> QED
      BY <1>5, <1>6, <1>7, <1>8, <1>9

(* And so does a further text.                                                 *)
LEMMA SameText ==
  ASSUME NEW cur, IsState(cur), NEW st, IsState(st),
         NEW a \in Shaped, NEW b \in Shaped, Same(cur, a, st, b), NEW text \in Text
  PROVE  Same(cur, Splits!Fold(a, text), st, Splits!Fold(b, text))
  <1> DEFINE T == {t \in Text : Same(cur, Splits!Fold(a, t), st, Splits!Fold(b, t))}
  <1>1. << >> \in T
      BY EmptySeq, Splits!FoldEmpty DEF Text
  <1>2. ASSUME NEW t \in T, NEW c \in Token PROVE Append(t, c) \in T
    <2>1. /\ Splits!Fold(a, Append(t, c)) = SplitStep(Splits!Fold(a, t), c)
          /\ Splits!Fold(b, Append(t, c)) = SplitStep(Splits!Fold(b, t), c)
        BY Splits!FoldAppend DEF Text
    <2>2. Splits!Fold(a, t) \in Acc /\ Splits!Fold(b, t) \in Acc
        BY SplitShaped DEF Shaped
    <2>3. Same(cur, SplitStep(Splits!Fold(a, t), c), st, SplitStep(Splits!Fold(b, t), c))
        BY <1>2, <2>2, SameStep
    <2>4. Append(t, c) \in Text
        BY AppendProperties DEF Text
    <2> QED
        BY <2>1, <2>3, <2>4
  <1> HIDE DEF T
  <1>3. T = Text
    <2>1. T \in SUBSET Seq(Token)
        BY DEF T, Text
    <2> QED
        BY <1>1, <1>2, <2>1, Splits!InductionSeq DEF Text
  <1> QED
      BY <1>3 DEF T

(* A text without an end of line is the open row.                              *)
LEMMA PlainSplit ==
  ASSUME NEW a \in Acc, NEW text \in Text, Plain(text)
  PROVE  /\ Splits!Fold(a, text).rows = a.rows
         /\ Splits!Fold(a, text).open = a.open \o text
         /\ Splits!Fold(a, text).last = IF text = << >> THEN a.last ELSE Space
         /\ Splits!Fold(a, text) \in Acc
  <1> DEFINE Good(t) == /\ Splits!Fold(a, t).rows = a.rows
                        /\ Splits!Fold(a, t).open = a.open \o t
                        /\ Splits!Fold(a, t).last = IF t = << >> THEN a.last ELSE Space
                        /\ Splits!Fold(a, t) \in Acc
             T == {t \in Text : Plain(t) => Good(t)}
  <1>0. a.open \in Text
      BY DEF Acc
  <1>1. << >> \in T
    <2>1. Good(<< >>)
        BY <1>0, Splits!FoldEmpty, ConcatEmptySeq DEF Text
    <2> QED
        BY <2>1, EmptySeq DEF Text
  <1>2. ASSUME NEW t \in T, NEW c \in Token PROVE Append(t, c) \in T
    <2>0. t \in Text /\ (Plain(t) => Good(t))
        OBVIOUS
    <2> HIDE DEF T
    <2>1. Append(t, c) \in Text /\ Append(t, c) # << >>
        BY <2>0, AppendProperties DEF Text
    <2>2. ASSUME Plain(Append(t, c)) PROVE Good(Append(t, c))
      <3>1. /\ Len(t) \in Nat /\ Len(Append(t, c)) = Len(t) + 1
            /\ \A i \in 1..Len(t) : Append(t, c)[i] = t[i]
            /\ Append(t, c)[Len(t) + 1] = c
          BY <2>0, AppendProperties, LenProperties DEF Text
      <3>2. Plain(t) /\ c \notin EndOfLine
          BY <2>2, <3>1 DEF Plain
      <3>3. Splits!Fold(a, Append(t, c)) = SplitStep(Splits!Fold(a, t), c)
          BY <2>0, Splits!FoldAppend DEF Text
      <3>4. Good(t)
          BY <2>0, <3>2
      <3>5. a.open \o Append(t, c) = Append(a.open \o t, c)
        <4>1. \A o, u \in Text : o \o Append(u, c) = Append(o \o u, c)
            BY Splits!ConcatAppend DEF Text
        <4> QED
            BY <1>0, <2>0, <4>1
      <3> DEFINE before == Splits!Fold(a, t)
      <3>6. before \in Acc /\ before.rows = a.rows /\ before.open = a.open \o t
          BY <3>4
      <3> HIDE DEF before
      <3>7. /\ SplitStep(before, c) \in Acc /\ SplitStep(before, c).rows = a.rows
            /\ SplitStep(before, c).open = Append(a.open \o t, c)
            /\ SplitStep(before, c).last = Space
        <4>1. before.open = a.open \o t
            BY <3>6
        <4>2. LET b == SplitStep(before, c)
              IN b \in Acc /\ b.rows = before.rows /\ b.open = Append(before.open, c) /\ b.last = Space
            BY <3>2, <3>6, SplitStepIs
        <4> QED
            BY <3>6, <4>1, <4>2
      <3> QED
          BY <2>1, <3>3, <3>5, <3>7 DEF before
    <2> QED
        BY <2>1, <2>2 DEF T
  <1> HIDE DEF T
  <1>3. T = Text
    <2>1. T \in SUBSET Seq(Token)
        BY DEF T, Text
    <2> QED
        BY <1>1, <1>2, <2>1, Splits!InductionSeq DEF Text
  <1> QED
      BY <1>3 DEF T

Fresh == [header |-> FALSE, products |-> [n \in {} |-> << >>], ok |-> TRUE]

(* What ReadChunk makes of a chunk is what the whole text so far makes.        *)
THEOREM ChunkIsText ==
  ASSUME NEW before \in Text, NEW chunk \in Text, NEW st, IsState(st)
  PROVE  LET told == SplitRows(before)
             split == SplitRows(told.open \o chunk)
             whole == SplitRows(before \o chunk)
         IN /\ split.open = whole.open
            /\ Rows!Fold(Rows!Fold(st, told.rows), split.rows) = Rows!Fold(st, whole.rows)
  <1> DEFINE told == SplitRows(before)
             again == SplitRows(told.open)
             cur == Rows!Fold(st, told.rows)
  <1>1. told \in Shaped
      BY SplitRowsIs, SplitShaped, NoTextShaped
  <1>2. told.open \in Text /\ told.rows \in Seq(Text) /\ Plain(told.open)
      BY <1>1 DEF Shaped, Acc
  <1>3. IsState(cur)
      BY <1>2, RowsSettle
  <1>4. again.rows = << >> /\ again.open = told.open /\ again.last = Space /\ again \in Shaped
    <2>1. NoText \in Acc
        BY NoTextShaped DEF Shaped
    <2>2. << >> \o told.open = told.open
        BY <1>2, ConcatEmptySeq DEF Text
    <2>3. PICK t : t = told.open
        OBVIOUS
    <2>4. t \in Text /\ Plain(t)
        BY <1>2, <2>3, Zenon
    <2>5. again = Splits!Fold(NoText, t)
        BY <2>3, <2>4, SplitRowsIs, Zenon
    <2>6. again \in Shaped
        BY <2>4, <2>5, NoTextShaped, SplitShaped, Zenon
    <2>7. again.rows = << >> /\ again.open = t /\ again.last = Space
      <3>1. PICK a : a = NoText
          OBVIOUS
      <3>2. a \in Acc /\ a.rows = << >> /\ a.open = << >> /\ a.last = Space
          BY <2>1, <3>1, NoTextShaped, Zenon
      <3>3. again = Splits!Fold(a, t)
          BY <2>5, <3>1, Zenon
      <3>4. /\ Splits!Fold(a, t).rows = a.rows
            /\ Splits!Fold(a, t).open = a.open \o t
            /\ Splits!Fold(a, t).last = IF t = << >> THEN a.last ELSE Space
          BY <2>4, <3>2, PlainSplit, Zenon
      <3>5. a.open \o t = t
          BY <2>2, <2>3, <3>2, Zenon
      <3> QED
          BY <3>2, <3>3, <3>4, <3>5
    <2> QED
        BY <2>3, <2>6, <2>7, Zenon
  <1>5. Rows!Fold(cur, again.rows) = cur
      BY <1>4, Rows!FoldEmpty
  <1>6. Same(cur, again, st, told)
    <2>1. told.last = Space \/ (told.open = << >> /\ told.rows # << >>)
        BY <1>1 DEF Shaped
    <2> QED
        BY <1>4, <1>5, <2>1 DEF Same
  <1>7. Same(cur, Splits!Fold(again, chunk), st, Splits!Fold(told, chunk))
      BY <1>1, <1>3, <1>4, <1>6, SameText
  <1>8. Splits!Fold(again, chunk) = SplitRows(told.open \o chunk)
      BY <1>2, SplitRowsIs, Splits!FoldConcat DEF Text
  <1>9. Splits!Fold(told, chunk) = SplitRows(before \o chunk)
      BY SplitRowsIs, Splits!FoldConcat DEF Text
  <1> QED
      BY <1>7, <1>8, <1>9 DEF Same

-------------------------------------------------------------------------------
(* The file                                                                    *)

SplitMore(a, b) ==
    /\ Len(a.rows) <= Len(b.rows)
    /\ \A i \in 1..Len(a.rows) : b.rows[i] = a.rows[i]

(* Reading on only adds rows.                                                  *)
LEMMA RowsGrow ==
  ASSUME NEW a \in Shaped, NEW text \in Text
  PROVE  SplitMore(a, Splits!Fold(a, text))
  <1> DEFINE T == {t \in Text : SplitMore(a, Splits!Fold(a, t))}
  <1>0. a.rows \in Seq(Text) /\ Len(a.rows) \in Nat
      BY LenProperties DEF Shaped, Acc
  <1>1. << >> \in T
    <2>1. SplitMore(a, a)
        BY <1>0 DEF SplitMore
    <2> QED
        BY <2>1, EmptySeq, Splits!FoldEmpty DEF Text
  <1>2. ASSUME NEW t \in T, NEW c \in Token PROVE Append(t, c) \in T
    <2> DEFINE b == Splits!Fold(a, t)
    <2>0. t \in Text /\ SplitMore(a, b)
        OBVIOUS
    <2> HIDE DEF T
    <2>1. Append(t, c) \in Text /\ Splits!Fold(a, Append(t, c)) = SplitStep(b, c)
        BY <2>0, AppendProperties, Splits!FoldAppend DEF Text
    <2>2. b \in Acc /\ b.rows \in Seq(Text) /\ b.open \in Text /\ Len(b.rows) \in Nat
        BY <2>0, SplitShaped, LenProperties DEF Shaped, Acc
    <2> HIDE DEF b
    <2>3. SplitStep(b, c).rows = b.rows \/ SplitStep(b, c).rows = Append(b.rows, b.open)
        BY <2>2, SplitStepIs
    <2>4. /\ Len(Append(b.rows, b.open)) = Len(b.rows) + 1
          /\ \A i \in 1..Len(b.rows) : Append(b.rows, b.open)[i] = b.rows[i]
        BY <2>2, AppendProperties
    <2>5. SplitMore(a, SplitStep(b, c))
        BY <1>0, <2>0, <2>2, <2>3, <2>4 DEF SplitMore
    <2> QED
        BY <2>1, <2>5 DEF T
  <1> HIDE DEF T
  <1>3. T = Text
    <2>1. T \in SUBSET Seq(Token)
        BY DEF T, Text
    <2> QED
        BY <1>1, <1>2, <2>1, Splits!InductionSeq DEF Text
  <1> QED
      BY <1>3 DEF T

(* Between two lines the next terminator ends a row.                           *)
Ready(a, end) == a \in Acc /\ a.last \notin EndOfLine \ {end[1]} /\ a.open = << >>

(* A terminator is one end of line, or two different ones.                     *)
LEMMA TerminatorIs ==
  ASSUME NEW end \in Terminators
  PROVE  /\ end \in Text /\ end # << >> /\ end[1] \in EndOfLine
         /\ \/ end = <<end[1]>>
            \/ /\ end = Append(<<end[1]>>, end[2])
               /\ end[2] \in EndOfLine \ {end[1]}
  <1>1. CASE end = <<LF>>
      BY <1>1, EndsDiffer DEF Text
  <1>2. CASE end = <<CR>>
      BY <1>2, EndsDiffer DEF Text
  <1>3. CASE end = <<CR, LF>>
    <2>1. <<CR, LF>> = Append(<<CR>>, LF)
        OBVIOUS
    <2> QED
        BY <1>3, <2>1, EndsDiffer DEF Text
  <1>4. CASE end = <<LF, CR>>
    <2>1. <<LF, CR>> = Append(<<LF>>, CR)
        OBVIOUS
    <2> QED
        BY <1>4, <2>1, EndsDiffer DEF Text
  <1> QED
      BY <1>1, <1>2, <1>3, <1>4, FileAssumption

(* A line and its terminator make one row more, whatever the terminator.       *)
LEMMA LineSplit ==
  ASSUME NEW end \in Terminators, NEW a, Ready(a, end), NEW text \in Text, Plain(text)
  PROVE  LET b == Splits!Fold(a, text \o end)
         IN Ready(b, end) /\ b.rows = Append(a.rows, text)
  <1> DEFINE line == Splits!Fold(a, text)
             half == Splits!Fold(line, <<end[1]>>)
             whole == Splits!Fold(a, text \o end)
  <1>1. whole = Splits!Fold(line, end)
      BY TerminatorIs, Splits!FoldConcat DEF Text
  <1>2. /\ line \in Acc /\ line.rows = a.rows /\ line.open = text
        /\ line.last \notin EndOfLine \ {end[1]}
    <2>1. a.open \o text = text
        BY ConcatEmptySeq DEF Ready, Text
    <2> QED
        BY <2>1, PlainSplit, EndsDiffer DEF Ready
  <1>3. end[1] \in EndOfLine /\ end[1] \in Token
      BY TerminatorIs, EndsDiffer
  <1> HIDE DEF line, whole
  <1>4. half = SplitStep(line, end[1])
      BY Splits!FoldOne
  <1>5. /\ half \in Acc /\ half.rows = Append(a.rows, text)
        /\ half.open = << >> /\ half.last = end[1]
      BY <1>2, <1>3, <1>4, SplitStepIs
  <1>6. CASE end = <<end[1]>>
    <2>1. whole = half
        BY <1>1, <1>6
    <2> HIDE DEF half
    <2>2. Ready(whole, end) /\ whole.rows = Append(a.rows, text)
        BY <1>5, <2>1 DEF Ready
    <2> QED
        BY <2>2 DEF whole
  <1>7. CASE end = Append(<<end[1]>>, end[2]) /\ end[2] \in EndOfLine \ {end[1]}
    <2>1. end[2] \in Token
        BY <1>7, EndsDiffer
    <2>2. <<end[1]>> \in Seq(Token)
        BY <1>3
    <2>3. Splits!Fold(line, Append(<<end[1]>>, end[2])) = SplitStep(half, end[2])
        BY <2>1, <2>2, Splits!FoldAppend
    <2>4. whole = SplitStep(half, end[2])
        BY <1>1, <1>7, <2>3
    <2> HIDE DEF half
    <2>5. half.last \in EndOfLine \ {end[2]}
        BY <1>3, <1>5, <1>7
    <2>6. whole \in Acc /\ whole.rows = half.rows /\ whole.open = half.open /\ whole.last = Space
        BY <1>5, <1>7, <2>1, <2>4, <2>5, SplitStepIs
    <2>7. Ready(whole, end) /\ whole.rows = Append(a.rows, text)
        BY <1>5, <2>6, EndsDiffer DEF Ready
    <2> QED
        BY <2>7 DEF whole
  <1> QED
      BY <1>6, <1>7, TerminatorIs

(* A sequence of k + 1 values is that of the first k and the last.             *)
LEMMA OneMore ==
  ASSUME NEW S, NEW k \in Nat, NEW f, \A i \in 1..(k + 1) : f[i] \in S
  PROVE  /\ [i \in 1..(k + 1) |-> f[i]] = Append([i \in 1..k |-> f[i]], f[k + 1])
         /\ [i \in 1..k |-> f[i]] \in Seq(S)
  <1> DEFINE short == [i \in 1..k |-> f[i]]
             long == [i \in 1..(k + 1) |-> f[i]]
  <1>1. short \in Seq(S) /\ long \in Seq(S) /\ f[k + 1] \in S
      OBVIOUS
  <1>2. Len(short) = k /\ Len(long) = k + 1
      OBVIOUS
  <1>3. /\ Append(short, f[k + 1]) \in Seq(S) /\ Len(Append(short, f[k + 1])) = k + 1
        /\ \A i \in 1..k : Append(short, f[k + 1])[i] = f[i]
        /\ Append(short, f[k + 1])[k + 1] = f[k + 1]
      BY <1>1, <1>2, AppendProperties
  <1>4. \A i \in 1..(k + 1) : long[i] = Append(short, f[k + 1])[i]
      BY <1>3
  <1>5. long = Append(short, f[k + 1])
      BY <1>1, <1>2, <1>3, <1>4, SeqEqual
  <1> QED
      BY <1>1, <1>5

(* The bytes of a line are a text without an end of line.                      *)
LEMMA LineIs ==
  ASSUME lines \in Seq(Lines), NEW i \in 1..Len(lines)
  PROVE  lines[i] \in Lines /\ lines[i].bytes \in Text /\ Plain(lines[i].bytes)
  <1> DEFINE l == lines[i]
  <1>1. l \in Lines
      BY ElementOfSeq
  <1> HIDE DEF l
  <1>2. l.bytes \in Seq(STRING) /\ EndOfLine \cap ToSet(l.bytes) = {}
      BY <1>1, LineAssumption DEF FileLine
  <1>3. l.bytes \in Text
      BY <1>2, SeqMonotonic DEF Text, Token
  <1>4. Plain(l.bytes)
      BY <1>2, LenProperties DEF Plain, ToSet
  <1> QED
      BY <1>1, <1>3, <1>4 DEF l

RowsTo(k) == [i \in 1..k |-> lines[i].bytes]
Ended(k, end) == FlattenSeq([i \in 1..k |-> lines[i].bytes \o end])

(* The rows of k + 1 lines are those of k and one more.                        *)
LEMMA RowsToNext ==
  ASSUME lines \in Seq(Lines), NEW k \in Nat, k + 1 <= Len(lines)
  PROVE  /\ RowsTo(k + 1) = Append(RowsTo(k), lines[k + 1].bytes)
         /\ RowsTo(k) \in Seq(Text) /\ lines[k + 1].bytes \in Text
  <1> DEFINE g == [i \in 1..(k + 1) |-> lines[i].bytes]
  <1>1. Len(lines) \in Nat
      BY LenProperties
  <1>2. \A i \in 1..(k + 1) : g[i] \in Text
      BY <1>1, LineIs
  <1>3. /\ [i \in 1..k |-> g[i]] = RowsTo(k) /\ [i \in 1..(k + 1) |-> g[i]] = RowsTo(k + 1)
        /\ g[k + 1] = lines[k + 1].bytes
      BY DEF RowsTo
  <1> HIDE DEF g
  <1>4. k + 1 \in 1..(k + 1)
      OBVIOUS
  <1>5. /\ [i \in 1..(k + 1) |-> g[i]] = Append([i \in 1..k |-> g[i]], g[k + 1])
        /\ [i \in 1..k |-> g[i]] \in Seq(Text)
      BY <1>2, OneMore
  <1> QED
      BY <1>2, <1>3, <1>4, <1>5

(* The lines, each with its terminator, are the rows.                          *)
LEMMA EndedSplit ==
  ASSUME lines \in Seq(Lines), NEW end \in Terminators, NEW k \in 0..Len(lines)
  PROVE  /\ Ended(k, end) \in Text
         /\ Ready(SplitRows(Ended(k, end)), end)
         /\ SplitRows(Ended(k, end)).rows = RowsTo(k)
  <1> DEFINE Good(j) == /\ Ended(j, end) \in Text
                        /\ Ready(SplitRows(Ended(j, end)), end)
                        /\ SplitRows(Ended(j, end)).rows = RowsTo(j)
             T == {j \in Nat : j <= Len(lines) => Good(j)}
  <1>0. Len(lines) \in Nat /\ end \in Text
      BY LenProperties, TerminatorIs
  <1>1. 0 \in T
    <2>1. [i \in 1..0 |-> lines[i].bytes \o end] = << >> /\ RowsTo(0) = << >>
        BY DEF RowsTo
    <2>2. Ended(0, end) = << >>
      <3>1. << >> \in Seq(Text)
          BY EmptySeq
      <3>2. FlattenSeq(<< >>) = << >>
          BY <1>0, <3>1, TextsFlatten
      <3> QED
          BY <2>1, <3>2 DEF Ended
    <2>3. SplitRows(<< >>) = NoText
        BY SplitRowsIs, Splits!FoldEmpty
    <2>4. Ready(NoText, end) /\ NoText.rows = << >>
        BY NoTextShaped, EndsDiffer DEF Ready, Shaped
    <2>5. << >> \in Text
        BY <1>0, TextsJoin
    <2> QED
        BY <2>1, <2>2, <2>3, <2>4, <2>5
  <1>2. ASSUME NEW j \in T PROVE j + 1 \in T
    <2> SUFFICES ASSUME j + 1 <= Len(lines) PROVE Good(j + 1)
        OBVIOUS
    <2>1. j \in Nat /\ Good(j)
        BY <1>0
    <2> HIDE DEF T
    <2> DEFINE line == lines[j + 1].bytes
    <2>2. \A i \in 1..(j + 1) : lines[i].bytes \in Text /\ Plain(lines[i].bytes)
        BY <1>0, <2>1, LineIs
    <2>3. line \in Text /\ Plain(line) /\ line \o end \in Text
      <3>1. line \in Text /\ Plain(line)
          BY <2>1, <2>2
      <3> QED
          BY <1>0, <3>1, TextsJoin
    <2>4. RowsTo(j + 1) = Append(RowsTo(j), line)
        BY <2>1, RowsToNext
    <2>5. Ended(j + 1, end) = Ended(j, end) \o (line \o end)
      <3> DEFINE f == [i \in 1..(j + 1) |-> lines[i].bytes \o end]
      <3>1. \A i \in 1..(j + 1) : f[i] \in Text
          BY <1>0, <2>2, TextsJoin
      <3>2. [i \in 1..j |-> f[i]] = [i \in 1..j |-> lines[i].bytes \o end]
          BY <2>1
      <3>3. f[j + 1] = line \o end
          BY <2>1
      <3>4. Ended(j + 1, end) = FlattenSeq([i \in 1..(j + 1) |-> f[i]])
          BY DEF Ended
      <3> HIDE DEF f
      <3> DEFINE short == [i \in 1..j |-> f[i]]
      <3>5. [i \in 1..(j + 1) |-> f[i]] = Append(short, f[j + 1]) /\ short \in Seq(Text)
          BY <2>1, <3>1, OneMore
      <3> HIDE DEF short
      <3>6. FlattenSeq(Append(short, line \o end)) = FlattenSeq(short) \o (line \o end)
          BY <2>3, <3>5, TextsFlatten
      <3>7. FlattenSeq(short) = Ended(j, end)
          BY <3>2 DEF short, Ended
      <3> HIDE DEF line
      <3> QED
          BY <3>3, <3>4, <3>5, <3>6, <3>7
    <2> HIDE DEF line
    <2>6. SplitRows(Ended(j + 1, end)) = Splits!Fold(SplitRows(Ended(j, end)), line \o end)
        BY <2>1, <2>3, <2>5, TextsJoin
    <2>7. /\ Ready(SplitRows(Ended(j + 1, end)), end)
          /\ SplitRows(Ended(j + 1, end)).rows = Append(RowsTo(j), line)
        BY <2>1, <2>3, <2>6, LineSplit
    <2>8. Ended(j + 1, end) \in Text
        BY <2>1, <2>3, <2>5, TextsJoin
    <2> QED
        BY <2>4, <2>7, <2>8
  <1> HIDE DEF T
  <1>3. T = Nat
    <2>1. T \in SUBSET Nat
        BY DEF T
    <2> QED
        BY <1>1, <1>2, <2>1, Splits!InductionNat
  <1> QED
      BY <1>0, <1>3 DEF T

(* The file is its lines, each ended, and perhaps one that is not.             *)
Written(end, last) ==
    bytes = FlattenSeq([i \in DOMAIN lines |->
               lines[i].bytes \o IF i = Len(lines) THEN last ELSE end])

(* A file whose last line is ended, or that has none, is its lines and         *)
(* terminators.                                                                *)
LEMMA AllEnded ==
  ASSUME lines \in Seq(Lines), NEW end, NEW last, Written(end, last),
         Len(lines) = 0 \/ last = end
  PROVE  bytes = Ended(Len(lines), end)
  <1>1. Len(lines) \in Nat /\ DOMAIN lines = 1..Len(lines)
      BY LenProperties
  <1>2. [i \in DOMAIN lines |-> lines[i].bytes \o IF i = Len(lines) THEN last ELSE end]
           = [i \in 1..Len(lines) |-> lines[i].bytes \o end]
    <2>1. ASSUME NEW i \in 1..Len(lines)
          PROVE  (IF i = Len(lines) THEN last ELSE end) = end
      <3>1. Len(lines) # 0
          BY <1>1
      <3>2. last = end
          BY <3>1
      <3> QED
          BY <3>2, Zenon
    <2>2. ASSUME NEW i \in 1..Len(lines)
          PROVE  lines[i].bytes \o (IF i = Len(lines) THEN last ELSE end) = lines[i].bytes \o end
        BY <2>1, Zenon
    <2> QED
        BY <1>1, <2>2, Zenon
  <1> QED
      BY <1>2 DEF Written, Ended

(* Otherwise it is that without the last line, and the last line.              *)
LEMMA LastOpen ==
  ASSUME lines \in Seq(Lines), NEW end \in Text, Written(end, << >>), Len(lines) > 0
  PROVE  bytes = Ended(Len(lines) - 1, end) \o lines[Len(lines)].bytes
  <1> DEFINE f == [i \in 1..Len(lines) |->
                     lines[i].bytes \o IF i = Len(lines) THEN << >> ELSE end]
  <1>1. PICK n \in Nat : n = Len(lines)
      BY LenProperties
  <1>2. PICK k \in Nat : n = k + 1
      BY <1>1
  <1>3. bytes = FlattenSeq(f) /\ f = [i \in 1..(k + 1) |-> f[i]]
      BY <1>1, <1>2, LenProperties DEF Written
  <1>4. \A i \in 1..(k + 1) : lines[i].bytes \in Text
      BY <1>1, <1>2, LineIs
  <1>5. \A i \in 1..(k + 1) : f[i] \in Text
    <2> TAKE i \in 1..(k + 1)
    <2>1. f[i] = lines[i].bytes \o IF i = n THEN << >> ELSE end
        BY <1>1, <1>2
    <2>2. (IF i = n THEN << >> ELSE end) \in Text
        BY TextsJoin
    <2> HIDE DEF f
    <2> QED
        BY <1>4, <2>1, <2>2, TextsJoin
  <1>6. f[k + 1] = lines[k + 1].bytes
    <2>1. f[k + 1] = lines[k + 1].bytes \o << >>
        BY <1>1, <1>2
    <2>2. lines[k + 1].bytes \in Text
        BY <1>2, <1>4
    <2> HIDE DEF f
    <2> QED
        BY <2>1, <2>2, TextsJoin
  <1>7. [i \in 1..k |-> f[i]] = [i \in 1..k |-> lines[i].bytes \o end]
    <2>1. ASSUME NEW i \in 1..k PROVE f[i] = lines[i].bytes \o end
      <3>1. i \in 1..Len(lines) /\ i # Len(lines)
          BY <1>1, <1>2
      <3>2. f[i] = lines[i].bytes \o IF i = Len(lines) THEN << >> ELSE end
          BY <3>1
      <3> QED
          BY <3>1, <3>2
    <2> HIDE DEF f
    <2> QED
        BY <2>1
  <1> HIDE DEF f
  <1> DEFINE short == [i \in 1..k |-> f[i]]
  <1>8. [i \in 1..(k + 1) |-> f[i]] = Append(short, f[k + 1]) /\ short \in Seq(Text)
      BY <1>5, OneMore
  <1>9. f[k + 1] \in Text
      BY <1>2, <1>5
  <1> HIDE DEF short
  <1>10. bytes = FlattenSeq(short) \o f[k + 1]
      BY <1>3, <1>8, <1>9, TextsFlatten
  <1>11. FlattenSeq(short) = Ended(k, end)
      BY <1>7 DEF short, Ended
  <1> QED
      BY <1>1, <1>2, <1>6, <1>10, <1>11

(* The rows of the whole file are its lines, but for the last when it has no   *)
(* terminator: that one is the open row.                                       *)
LEMMA FileSplit ==
  ASSUME lines \in Seq(Lines), NEW end \in Terminators, NEW last \in {end, << >>},
         Written(end, last)
  PROVE  /\ bytes \in Text
         /\ LET split == SplitRows(bytes)
            IN \/ split.rows = RowsTo(Len(lines)) /\ split.open = << >>
               \/ /\ Len(lines) > 0 /\ split.rows = RowsTo(Len(lines) - 1)
                  /\ split.open = lines[Len(lines)].bytes
  <1>0. Len(lines) \in Nat /\ end \in Text
      BY LenProperties, TerminatorIs
  <1>1. CASE Len(lines) = 0 \/ last = end
    <2>1. bytes = Ended(Len(lines), end)
        BY <1>1, AllEnded
    <2>2. Len(lines) \in 0..Len(lines)
        BY <1>0
    <2> QED
        BY <2>1, <2>2, EndedSplit DEF Ready
  <1>2. CASE Len(lines) > 0 /\ last = << >>
    <2> DEFINE k == Len(lines) - 1
               line == lines[Len(lines)].bytes
    <2>1. bytes = Ended(k, end) \o line
        BY <1>0, <1>2, LastOpen
    <2>2. k \in 0..Len(lines) /\ Len(lines) \in 1..Len(lines)
        BY <1>0, <1>2
    <2>3. line \in Text /\ Plain(line)
        BY <2>2, LineIs
    <2>4. /\ Ended(k, end) \in Text /\ Ready(SplitRows(Ended(k, end)), end)
          /\ SplitRows(Ended(k, end)).rows = RowsTo(k)
        BY <2>2, EndedSplit
    <2> HIDE DEF k, line
    <2>5. /\ bytes \in Text /\ << >> \o line = line
          /\ SplitRows(bytes) = Splits!Fold(SplitRows(Ended(k, end)), line)
        BY <2>1, <2>3, <2>4, TextsJoin
    <2>6. SplitRows(bytes).rows = RowsTo(k) /\ SplitRows(bytes).open = line
      <3>1. \A a \in Acc : a.open = << >> => /\ Splits!Fold(a, line).rows = a.rows
                                             /\ Splits!Fold(a, line).open = line
        <4> TAKE a \in Acc
        <4> HAVE a.open = << >>
        <4>1. /\ Splits!Fold(a, line).rows = a.rows
              /\ Splits!Fold(a, line).open = a.open \o line
            BY <2>3, PlainSplit
        <4> QED
            BY <2>5, <4>1
      <3> QED
          BY <2>4, <2>5, <3>1 DEF Ready
    <2> QED
        BY <1>2, <2>5, <2>6 DEF k, line
  <1> QED
      BY <1>0, <1>1, <1>2

(* The rows of a chunk are read by a fold of ReadRow.                          *)
LEMMA ReadRowsIs == \A st, rows : FoldLeft(ReadRow, st, rows) = Rows!Fold(st, rows)
  BY DEF FoldLeft, MapThenFoldSet, Max,
         Rows!Fold, Rows!FoldLeft, Rows!MapThenFoldSet, Rows!Max

(* A record of the three fields is a state.                                    *)
LEMMA StateIs ==
  ASSUME NEW h \in BOOLEAN, NEW p, NEW o \in BOOLEAN
  PROVE  LET st == [header |-> h, products |-> p, ok |-> o]
         IN IsState(st) /\ st.header = h /\ st.products = p /\ st.ok = o
  BY Zenon DEF IsState

(* A state that is ok is the record of its header and its products.            *)
LEMMA StatesEqual ==
  ASSUME NEW st, IsState(st), st.ok
  PROVE  st = [header |-> st.header, products |-> st.products, ok |-> TRUE]
  BY DEF IsState

-------------------------------------------------------------------------------
(* What the rows mean                                                          *)

(* Distinct returns the same urls, each once.                                  *)
LEMMA DistinctIs ==
  ASSUME NEW S, NEW urls \in Seq(S)
  PROVE  /\ Distinct(urls) \in Seq(S)
         /\ ToSet(Distinct(urls)) = ToSet(urls)
         /\ IsInjective(Distinct(urls))
  <1> DEFINE Good(q) == /\ News!Fold(<< >>, q) \in Seq(S)
                        /\ ToSet(News!Fold(<< >>, q)) = ToSet(q)
                        /\ IsInjective(News!Fold(<< >>, q))
             T == {q \in Seq(S) : Good(q)}
  <1>1. Distinct(urls) = News!Fold(<< >>, urls)
      BY DEF Distinct, FoldLeft, MapThenFoldSet, Max,
             News!Fold, News!FoldLeft, News!MapThenFoldSet, News!Max
  <1>2. << >> \in T
    <2>1. News!Fold(<< >>, << >>) = << >>
        BY News!FoldEmpty
    <2>2. << >> \in Seq(S) /\ IsInjective(<< >>)
        BY EmptySeq DEF IsInjective
    <2> QED
        BY <2>1, <2>2
  <1>3. ASSUME NEW q \in T, NEW u \in S PROVE Append(q, u) \in T
    <2> DEFINE seen == News!Fold(<< >>, q)
    <2>0. q \in Seq(S) /\ seen \in Seq(S) /\ ToSet(seen) = ToSet(q) /\ IsInjective(seen)
        OBVIOUS
    <2>1. News!Fold(<< >>, Append(q, u)) = AddNew(seen, u)
        BY <2>0, News!FoldAppend
    <2> HIDE DEF T, seen
    <2>2. Append(q, u) \in Seq(S) /\ ToSet(Append(q, u)) = ToSet(q) \cup {u}
      <3>1. /\ Append(q, u) \in Seq(S) /\ DOMAIN q = 1..Len(q) /\ Len(q) \in Nat
            /\ DOMAIN Append(q, u) = 1..(Len(q) + 1)
            /\ \A i \in 1..Len(q) : Append(q, u)[i] = q[i]
            /\ Append(q, u)[Len(q) + 1] = u
          BY <2>0, AppendProperties, LenProperties
      <3> QED
          BY <3>1 DEF ToSet
    <2>3. /\ Append(seen, u) \in Seq(S) /\ DOMAIN seen = 1..Len(seen) /\ Len(seen) \in Nat
          /\ DOMAIN Append(seen, u) = 1..(Len(seen) + 1)
          /\ \A i \in 1..Len(seen) : Append(seen, u)[i] = seen[i]
          /\ Append(seen, u)[Len(seen) + 1] = u
        BY <2>0, AppendProperties, LenProperties
    <2>4. CASE Contains(seen, u)
      <3>1. AddNew(seen, u) = seen
          BY <2>4 DEF AddNew
      <3>2. u \in ToSet(seen)
          BY <2>3, <2>4 DEF Contains, ToSet
      <3> QED
          BY <2>0, <2>1, <2>2, <3>1, <3>2 DEF T
    <2>5. CASE ~Contains(seen, u)
      <3>1. AddNew(seen, u) = Append(seen, u)
          BY <2>5 DEF AddNew
      <3>2. ToSet(Append(seen, u)) = ToSet(seen) \cup {u}
          BY <2>3 DEF ToSet
      <3>3. IsInjective(Append(seen, u))
          BY <2>0, <2>3, <2>5 DEF IsInjective, Contains
      <3> QED
          BY <2>0, <2>1, <2>2, <2>3, <3>1, <3>2, <3>3 DEF T
    <2> QED
        BY <2>4, <2>5
  <1> HIDE DEF T
  <1>4. T = Seq(S)
    <2>1. T \in SUBSET Seq(S)
        BY DEF T
    <2> QED
        BY <1>2, <1>3, <2>1, News!InductionSeq
  <1> QED
      BY <1>1, <1>4 DEF T

(* A joined sequence holds what its two parts hold.                            *)
LEMMA JoinedSet ==
  ASSUME NEW S, NEW s \in Seq(S), NEW t \in Seq(S)
  PROVE  ToSet(s \o t) = ToSet(s) \cup ToSet(t)
  <1>1. /\ Len(s) \in Nat /\ DOMAIN s = 1..Len(s) /\ Len(t) \in Nat /\ DOMAIN t = 1..Len(t)
        /\ DOMAIN (s \o t) = 1..(Len(s) + Len(t))
        /\ \A i \in 1..(Len(s) + Len(t)) :
              (s \o t)[i] = IF i <= Len(s) THEN s[i] ELSE t[i - Len(s)]
      BY ConcatProperties, LenProperties
  <1>2. \A i \in 1..Len(s) : i \in 1..(Len(s) + Len(t)) /\ (s \o t)[i] = s[i]
      BY <1>1
  <1>3. \A i \in 1..Len(t) : /\ i + Len(s) \in 1..(Len(s) + Len(t))
                              /\ (s \o t)[i + Len(s)] = t[i]
      BY <1>1
  <1>4. \A i \in 1..(Len(s) + Len(t)) :
           \/ i \in 1..Len(s) /\ (s \o t)[i] = s[i]
           \/ i - Len(s) \in 1..Len(t) /\ (s \o t)[i] = t[i - Len(s)]
      BY <1>1
  <1> QED
      BY <1>1, <1>2, <1>3, <1>4 DEF ToSet

Names == Seq(STRING)
Gathered(data, k) == GatheredFrom(data, k) /\ \A n \in DOMAIN data : data[n] \in Seq(Names)

(* mergeProductsData with the product of the next line makes what was          *)
(* gathered from k lines that of k + 1: a new product has the urls of its      *)
(* line, one met before those of all its lines, each once.                     *)
LEMMA Merged ==
  ASSUME NEW data, NEW k \in Nat \ {0}, Gathered(data, k),
         lines[k + 1].kind = "product", lines[k + 1].urls \in Seq(Names)
  PROVE  Gathered(MergeProductsData(data, [name |-> lines[k + 1].name,
                                           urls |-> lines[k + 1].urls]), k + 1)
  <1> DEFINE name == lines[k + 1].name
             urls == lines[k + 1].urls
             new == MergeProductsData(data, [name |-> name, urls |-> urls])
  <1>1. ProductLines(k + 1) = ProductLines(k) \cup {k + 1}
      BY DEF ProductLines
  <1>2. /\ \A n : n # name => LinesOf(n, k + 1) = LinesOf(n, k)
        /\ LinesOf(name, k + 1) = LinesOf(name, k) \cup {k + 1}
      BY <1>1 DEF LinesOf
  <1>3. /\ DOMAIN data = {lines[i].name : i \in ProductLines(k)}
        /\ \A n \in DOMAIN data :
              /\ ToSet(data[n]) = UNION {ToSet(lines[i].urls) : i \in LinesOf(n, k)}
              /\ Cardinality(LinesOf(n, k)) > 1 => IsInjective(data[n])
              /\ data[n] \in Seq(Names)
      BY DEF Gathered, GatheredFrom
  <1>4. new = [n \in DOMAIN data \cup {name} |->
                 IF n # name THEN data[n]
                 ELSE IF n \in DOMAIN data THEN Distinct(data[n] \o urls) ELSE urls]
      BY DEF MergeProductsData
  <1> HIDE DEF new
  <1>5. DOMAIN new = {lines[i].name : i \in ProductLines(k + 1)}
      BY <1>1, <1>3, <1>4
  <1>6. ASSUME NEW n \in DOMAIN new
        PROVE  /\ ToSet(new[n]) = UNION {ToSet(lines[i].urls) : i \in LinesOf(n, k + 1)}
               /\ Cardinality(LinesOf(n, k + 1)) > 1 => IsInjective(new[n])
               /\ new[n] \in Seq(Names)
    <2>0. n \in DOMAIN data \cup {name}
        BY <1>4
    <2>1. CASE n # name
      <3>1. new[n] = data[n] /\ n \in DOMAIN data /\ LinesOf(n, k + 1) = LinesOf(n, k)
          BY <1>2, <1>4, <2>0, <2>1
      <3> QED
          BY <1>3, <3>1
    <2>2. CASE n = name /\ n \in DOMAIN data
      <3>1. new[n] = Distinct(data[n] \o urls)
          BY <1>4, <2>2
      <3>2. data[n] \in Seq(Names) /\ urls \in Seq(Names)
          BY <1>3, <2>2
      <3>3. data[n] \o urls \in Seq(Names)
          BY <3>2, ConcatProperties
      <3>4. ToSet(data[n] \o urls) = ToSet(data[n]) \cup ToSet(urls)
          BY <3>2, JoinedSet
      <3>5. ToSet(data[n]) = UNION {ToSet(lines[i].urls) : i \in LinesOf(n, k)}
          BY <1>3, <2>2
      <3>6. UNION {ToSet(lines[i].urls) : i \in LinesOf(n, k + 1)}
              = (UNION {ToSet(lines[i].urls) : i \in LinesOf(n, k)}) \cup ToSet(urls)
          BY <1>2, <2>2
      <3>7. ToSet(new[n]) = ToSet(data[n] \o urls) /\ IsInjective(new[n]) /\ new[n] \in Seq(Names)
          BY <3>1, <3>3, DistinctIs
      <3> QED
          BY <3>4, <3>5, <3>6, <3>7
    <2>3. CASE n = name /\ n \notin DOMAIN data
      <3>1. new[n] = urls
          BY <1>4, <2>3
      <3>2. LinesOf(n, k) = {}
          BY <1>3, <2>3 DEF LinesOf
      <3>3. LinesOf(n, k + 1) = {k + 1}
          BY <1>2, <2>3, <3>2
      <3>4. Cardinality(LinesOf(n, k + 1)) = 1
          BY <3>3, FS_Singleton
      <3>5. UNION {ToSet(lines[i].urls) : i \in LinesOf(n, k + 1)} = ToSet(urls)
          BY <3>3
      <3> QED
          BY <3>1, <3>4, <3>5
    <2> QED
        BY <2>0, <2>1, <2>2, <2>3
  <1> QED
      BY <1>5, <1>6 DEF Gathered, GatheredFrom, new

SingleByte == \A l \in Lines : {Lead, Trail} \cap ToSet(l.bytes) = {}

Ascii == Token \ {Lead, Trail}

(* Every text without a character of two bytes is decoded as it is.            *)
LEMMA DecodePlain ==
  ASSUME NEW text \in Seq(Ascii)
  PROVE  Decode(text) = text
  <1> DEFINE Singles(t) == [i \in 1..Len(t) |-> <<t[i]>>]
             T == {t \in Seq(Ascii) : FlattenSeq(Singles(t)) = t}
  <1>1. << >> \in T
    <2>1. Singles(<< >>) = << >> /\ << >> \in Seq(Ascii)
        BY EmptySeq
    <2>2. FlattenSeq(<< >>) = << >>
        BY Splits!FlattenEmpty, FlattenIs
    <2> HIDE DEF Singles
    <2> QED
        BY <2>1, <2>2
  <1>2. ASSUME NEW t \in T, NEW c \in Ascii PROVE Append(t, c) \in T
    <2>0. t \in Seq(Ascii) /\ FlattenSeq(Singles(t)) = t
        OBVIOUS
    <2> HIDE DEF T
    <2>1. /\ Append(t, c) \in Seq(Ascii) /\ Len(t) \in Nat /\ Len(Append(t, c)) = Len(t) + 1
          /\ \A i \in 1..Len(t) : Append(t, c)[i] = t[i] /\ t[i] \in Ascii
          /\ Append(t, c)[Len(t) + 1] = c
      BY <2>0, AppendProperties, LenProperties, ElementOfSeq
    <2>2. Singles(Append(t, c)) = Append(Singles(t), <<c>>) /\ Singles(t) \in Seq(Seq(Ascii))
      <3> DEFINE f == [i \in 1..(Len(t) + 1) |-> <<Append(t, c)[i]>>]
      <3>1. \A i \in 1..(Len(t) + 1) : f[i] \in Seq(Ascii)
        <4>1. \A i \in 1..(Len(t) + 1) : Append(t, c)[i] \in Ascii
            BY <2>1
        <4> QED
            BY <4>1
      <3>2. f[Len(t) + 1] = <<c>>
          BY <2>1
      <3>3. [i \in 1..Len(t) |-> f[i]] = Singles(t)
        <4>1. ASSUME NEW i \in 1..Len(t) PROVE f[i] = <<t[i]>>
          <5>1. f[i] = <<Append(t, c)[i]>>
              BY <2>1
          <5>2. Append(t, c)[i] = t[i]
              BY <2>1
          <5> HIDE DEF f
          <5> QED
              BY <5>1, <5>2
        <4> HIDE DEF f
        <4> QED
            BY <4>1
      <3>4. Singles(Append(t, c)) = [i \in 1..(Len(t) + 1) |-> f[i]]
          BY <2>1
      <3> HIDE DEF f, Singles
      <3>5. Len(t) \in Nat
          BY <2>1
      <3>6. /\ [i \in 1..(Len(t) + 1) |-> f[i]]
                   = Append([i \in 1..Len(t) |-> f[i]], f[Len(t) + 1])
            /\ [i \in 1..Len(t) |-> f[i]] \in Seq(Seq(Ascii))
          BY <3>1, <3>5, OneMore
      <3> QED
          BY <3>2, <3>3, <3>4, <3>6
    <2> HIDE DEF Singles
    <2>3. <<c>> \in Seq(Ascii)
        OBVIOUS
    <2>4. FlattenSeq(Append(Singles(t), <<c>>)) = FlattenSeq(Singles(t)) \o <<c>>
        BY <2>2, <2>3, Splits!FlattenAppend, FlattenIs
    <2>5. t \o <<c>> = Append(t, c)
        BY <2>0
    <2> QED
        BY <2>0, <2>1, <2>2, <2>4, <2>5 DEF T
  <1> HIDE DEF T
  <1>3. T = Seq(Ascii)
    <2>1. T \in SUBSET Seq(Ascii)
        BY DEF T
    <2> QED
        BY <1>1, <1>2, <2>1, Splits!InductionSeq
  <1>4. Decode(text) = FlattenSeq(Singles(text))
    <2>1. Len(text) \in Nat /\ DOMAIN text = 1..Len(text)
          /\ \A i \in 1..Len(text) : text[i] \notin {Lead, Trail}
        BY LenProperties, ElementOfSeq DEF Ascii
    <2> DEFINE Pair(i) == i \in 1..(Len(text) - 1) /\ text[i] = Lead /\ text[i + 1] = Trail
               Char(i) == IF Pair(i) THEN <<Wide>>
                          ELSE IF Pair(i - 1) THEN <<>>
                          ELSE IF text[i] \in {Lead, Trail} THEN <<Replacement>>
                          ELSE <<text[i]>>
    <2>2. \A i \in Int : ~Pair(i)
        BY <2>1
    <2>3. ASSUME NEW i \in 1..Len(text) PROVE Char(i) = <<text[i]>>
      <3>1. ~Pair(i) /\ ~Pair(i - 1) /\ text[i] \notin {Lead, Trail}
          BY <2>1, <2>2
      <3> HIDE DEF Pair
      <3> QED
          BY <3>1
    <2>4. Decode(text) = FlattenSeq([i \in DOMAIN text |-> Char(i)])
        BY DEF Decode
    <2> HIDE DEF Char
    <2>5. [i \in DOMAIN text |-> Char(i)] = Singles(text)
        BY <2>1, <2>3
    <2> QED
        BY <2>4, <2>5
  <1> QED
      BY <1>3, <1>4 DEF T

(* What the line's own text says of it.                                        *)
LEMMA LineSays ==
  ASSUME lines \in Seq(Lines), SingleByte, NEW i \in 1..Len(lines)
  PROVE  LET l == lines[i]
             parsed == ParseCols(l.bytes)
         IN /\ l.bytes \in Seq(Ascii)
            /\ l.kind = "header" <=> parsed.closed /\ IsHeader(parsed.cols)
            /\ l.kind = "empty" <=> parsed.closed /\ IsEmptyRow(parsed.cols)
            /\ l.kind = "product" <=> parsed.closed /\ ValidProduct(parsed.cols)
            /\ l.kind = "product" =>
                  ProductFromRow(parsed.cols) = [name |-> l.name, urls |-> l.urls]
            /\ Trim(l.bytes) = << >> => l.kind = "empty"
            /\ l.urls \in Seq(Names)
  <1> DEFINE l == lines[i]
             parsed == ParseCols(Decode(l.bytes))
  <1>1. l \in Lines /\ l.bytes \in Text
      BY LineIs
  <1>2. \A j \in 1..Len(l.bytes) : l.bytes[j] \in Ascii
    <2>1. {Lead, Trail} \cap ToSet(l.bytes) = {}
        BY <1>1 DEF SingleByte
    <2>2. DOMAIN l.bytes = 1..Len(l.bytes) /\ \A j \in 1..Len(l.bytes) : l.bytes[j] \in Token
        BY <1>1, LenProperties, ElementOfSeq DEF Text
    <2> HIDE DEF l
    <2> QED
        BY <2>1, <2>2 DEF ToSet, Ascii
  <1>3. l.bytes \in Seq(Ascii)
    <2>1. Len(l.bytes) \in Nat /\ l.bytes = [j \in 1..Len(l.bytes) |-> l.bytes[j]]
        BY <1>1, LenProperties DEF Text
    <2> HIDE DEF l
    <2> QED
        BY <1>2, <2>1
  <1>4. Decode(l.bytes) = l.bytes
      BY <1>3, DecodePlain
  <1> HIDE DEF l
  <1>5. /\ l \in FileLine
        /\ l.kind = "header" <=> parsed.closed /\ IsHeader(parsed.cols)
        /\ l.kind = "empty" <=> parsed.closed /\ IsEmptyRow(parsed.cols)
        /\ l.kind = "product" <=> parsed.closed /\ ValidProduct(parsed.cols)
        /\ l.kind = "product" =>
              ProductFromRow(parsed.cols) = [name |-> l.name, urls |-> l.urls]
        /\ Trim(Decode(l.bytes)) = << >> => l.kind = "empty"
      BY <1>1, LineAssumption, Zenon
  <1>6. l.urls \in Seq(Names)
      BY <1>5 DEF FileLine, Names
  <1> QED
      BY <1>3, <1>4, <1>5, <1>6 DEF l

(* What st says of the first k lines is so.                                    *)
ReadTo(st, k) ==
    /\ IsState(st)
    /\ st.ok => /\ st.header <=> k # 0
                /\ \A i \in 1..k : ~Faulty(i)
                /\ Gathered(st.products, k)
    /\ ~st.ok => \E i \in 1..k : Faulty(i)

(* Reading the next line keeps ReadTo: the one that is faulty at its place     *)
(* rejects the file, a product is merged and an empty one skipped.             *)
LEMMA LineRead ==
  ASSUME lines \in Seq(Lines), SingleByte, NEW k \in Nat, k + 1 <= Len(lines),
         NEW st, ReadTo(st, k)
  PROVE  ReadTo(ReadRow(st, lines[k + 1].bytes), k + 1)
  <1> DEFINE l == lines[k + 1]
             new == ReadRow(st, l.bytes)
             parsed == ParseCols(l.bytes)
  <1>0. Len(lines) \in Nat /\ k + 1 \in 1..Len(lines) /\ k + 1 \in 1..(k + 1)
      BY LenProperties
  <1>1. /\ l.kind = "header" <=> parsed.closed /\ IsHeader(parsed.cols)
        /\ l.kind = "empty" <=> parsed.closed /\ IsEmptyRow(parsed.cols)
        /\ l.kind = "product" <=> parsed.closed /\ ValidProduct(parsed.cols)
        /\ l.kind = "product" =>
              ProductFromRow(parsed.cols) = [name |-> l.name, urls |-> l.urls]
        /\ l.urls \in Seq(Names)
      BY <1>0, LineSays
  <1>2. IsState(st) /\ IsState(new)
      BY ReadRowIs DEF ReadTo
  <1>3. \A i \in 1..(k + 1) : i \in 1..k \/ i = k + 1
      OBVIOUS
  <1>4. CASE ~st.ok
    <2>1. new = st
        BY <1>2, <1>4, ReadRowIs
    <2>2. PICK i \in 1..k : Faulty(i)
        BY <1>4 DEF ReadTo
    <2>3. i \in 1..(k + 1)
        OBVIOUS
    <2> QED
        BY <1>2, <1>4, <2>1, <2>2, <2>3 DEF ReadTo
  <1>5. CASE st.ok /\ k = 0
    <2>1. ~st.header /\ Gathered(st.products, 0)
        BY <1>5 DEF ReadTo
    <2>2. /\ new.header \/ ~new.ok
          /\ new.ok <=> parsed.closed /\ IsHeader(parsed.cols)
          /\ new.products = st.products
        BY <1>2, <1>5, <2>1, ReadRowIs
    <2>3. new.ok <=> ~Faulty(1)
        BY <1>1, <1>5, <2>2 DEF Faulty
    <2>4. ProductLines(1) = ProductLines(0)
        BY DEF ProductLines
    <2>5. Gathered(st.products, 1)
        BY <2>1, <2>4 DEF Gathered, GatheredFrom, LinesOf
    <2>6. 1..1 = {1}
        OBVIOUS
    <2> HIDE DEF new
    <2> QED
        BY <1>2, <1>5, <2>2, <2>3, <2>5, <2>6 DEF ReadTo, new
  <1>6. CASE st.ok /\ k # 0
    <2>1. /\ st.header /\ Gathered(st.products, k)
          /\ \A i \in 1..k : ~Faulty(i)
        BY <1>6 DEF ReadTo
    <2>2. Faulty(k + 1) <=> l.kind \notin {"product", "empty"}
        BY <1>6 DEF Faulty
    <2>3. new.header \/ ~new.ok
        BY <1>2, <1>6, ReadRowIs
    <2>4. CASE l.kind = "empty"
      <3>1. new = st
          BY <1>1, <1>2, <1>6, <2>1, <2>4, ReadRowIs
      <3>2. ProductLines(k + 1) = ProductLines(k)
          BY <2>4 DEF ProductLines
      <3>3. Gathered(st.products, k + 1)
          BY <2>1, <3>2 DEF Gathered, GatheredFrom, LinesOf
      <3>4. ~Faulty(k + 1)
          BY <2>2, <2>4
      <3> QED
          BY <1>2, <1>3, <1>6, <2>1, <3>1, <3>3, <3>4 DEF ReadTo
    <2>5. CASE l.kind = "product"
      <3>1. parsed.closed /\ ~IsEmptyRow(parsed.cols) /\ ValidProduct(parsed.cols)
          BY <1>1, <2>5
      <3>2. new.ok /\ new.products = MergeProductsData(st.products, ProductFromRow(parsed.cols))
          BY <1>2, <1>6, <2>1, <3>1, ReadRowIs
      <3>3. Gathered(new.products, k + 1)
          BY <1>1, <1>6, <2>1, <2>5, <3>2, Merged
      <3>4. ~Faulty(k + 1)
          BY <2>2, <2>5
      <3> HIDE DEF new
      <3> QED
          BY <1>2, <1>3, <1>6, <2>1, <2>3, <3>2, <3>3, <3>4 DEF ReadTo, new
    <2>6. CASE l.kind \notin {"product", "empty"}
      <3>1. ~(parsed.closed /\ IsEmptyRow(parsed.cols)) /\ ~(parsed.closed /\ ValidProduct(parsed.cols))
          BY <1>1, <2>6
      <3>2. ~new.ok
          BY <1>2, <1>6, <2>1, <3>1, ReadRowIs
      <3>3. Faulty(k + 1)
          BY <2>2, <2>6
      <3> HIDE DEF new
      <3> QED
          BY <1>0, <1>2, <3>2, <3>3 DEF ReadTo, new
    <2> QED
        BY <2>4, <2>5, <2>6
  <1> QED
      BY <1>4, <1>5, <1>6

(* The state before the first row.                                             *)
LEMMA FreshIs == IsState(Fresh) /\ Fresh.ok = TRUE /\ Fresh.header = FALSE
                    /\ Fresh.products = [n \in {} |-> << >>]
  BY StateIs DEF Fresh

(* The first k rows, read from the start.                                      *)
LEMMA LinesRead ==
  ASSUME lines \in Seq(Lines), SingleByte, NEW k \in 0..Len(lines)
  PROVE  ReadTo(Rows!Fold(Fresh, RowsTo(k)), k)
  <1> DEFINE T == {j \in Nat : j <= Len(lines) => ReadTo(Rows!Fold(Fresh, RowsTo(j)), j)}
  <1>0. Len(lines) \in Nat
      BY LenProperties
  <1>1. 0 \in T
    <2>1. RowsTo(0) = << >>
        BY DEF RowsTo
    <2>2. Rows!Fold(Fresh, RowsTo(0)) = Fresh
        BY <2>1, Rows!FoldEmpty
    <2>3. ProductLines(0) = {} /\ 1..0 = {}
        BY DEF ProductLines
    <2>4. Gathered(Fresh.products, 0)
        BY <2>3, FreshIs DEF Gathered, GatheredFrom
    <2>5. ReadTo(Fresh, 0)
        BY <2>3, <2>4, FreshIs DEF ReadTo
    <2> QED
        BY <2>2, <2>5
  <1>2. ASSUME NEW j \in T PROVE j + 1 \in T
    <2> SUFFICES ASSUME j + 1 <= Len(lines)
                 PROVE  ReadTo(Rows!Fold(Fresh, RowsTo(j + 1)), j + 1)
        OBVIOUS
    <2>1. j \in Nat /\ ReadTo(Rows!Fold(Fresh, RowsTo(j)), j)
        BY <1>0
    <2> HIDE DEF T
    <2>2. Rows!Fold(Fresh, RowsTo(j + 1))
             = ReadRow(Rows!Fold(Fresh, RowsTo(j)), lines[j + 1].bytes)
        BY <2>1, RowsToNext, Rows!FoldAppend
    <2> QED
        BY <2>1, <2>2, LineRead
  <1> HIDE DEF T
  <1>3. T = Nat
    <2>1. T \in SUBSET Nat
        BY DEF T
    <2> QED
        BY <1>1, <1>2, <2>1, Splits!InductionNat
  <1> QED
      BY <1>0, <1>3 DEF T

(* Whatever its bytes, a chunk is decoded to a text.                           *)
LEMMA DecodeText ==
  ASSUME NEW text \in Text
  PROVE  Decode(text) \in Text
  <1> DEFINE Pair(i) == i \in 1..(Len(text) - 1) /\ text[i] = Lead /\ text[i + 1] = Trail
             Char(i) == IF Pair(i) THEN <<Wide>>
                        ELSE IF Pair(i - 1) THEN <<>>
                        ELSE IF text[i] \in {Lead, Trail} THEN <<Replacement>>
                        ELSE <<text[i]>>
             chars == [i \in DOMAIN text |-> Char(i)]
  <1>1. /\ Len(text) \in Nat /\ DOMAIN text = 1..Len(text)
        /\ \A i \in 1..Len(text) : text[i] \in Token
      BY LenProperties, ElementOfSeq DEF Text
  <1>2. \A c \in Token : <<c>> \in Text
      BY DEF Text
  <1>3. << >> \in Text /\ Wide \in Token /\ Replacement \in Token
      BY EmptySeq, EndsDiffer DEF Text
  <1>4. ASSUME NEW i \in 1..Len(text) PROVE Char(i) \in Text
    <2> HIDE DEF Pair
    <2> QED
        BY <1>1, <1>2, <1>3, Zenon
  <1>5. Decode(text) = FlattenSeq(chars)
      BY DEF Decode
  <1> HIDE DEF Char
  <1>6. chars \in Seq(Text)
      BY <1>1, <1>4
  <1> HIDE DEF chars
  <1> QED
      BY <1>5, <1>6, <1>3, TextsFlatten

Typed == TypeOK /\ bytes \in Text /\ partialRow \in Text

File == \E end \in Terminators : \E last \in {end, << >>} : Written(end, last)

(* The variables as a state.                                                   *)
LEMMA CurrentIs ==
  ASSUME headerRow \in BOOLEAN
  PROVE  /\ IsState(Current) /\ Current.header = headerRow
         /\ Current.products = products /\ Current.ok = TRUE
  BY StateIs DEF Current

(* What a chunk leaves is a state and texts.                                   *)
LEMMA ChunkTyped ==
  ASSUME NEW row \in Text, NEW chunk \in Text, NEW st, IsState(st)
  PROVE  LET split == SplitRows(row \o Decode(chunk))
         IN /\ split.open \in Text
            /\ IsState(FoldLeft(ReadRow, st, split.rows))
  <1> DEFINE split == SplitRows(row \o Decode(chunk))
  <1>1. row \o Decode(chunk) \in Text
      BY DecodeText, TextsJoin
  <1>2. split \in Shaped
      BY <1>1, SplitRowsIs, SplitShaped, NoTextShaped
  <1>3. split.open \in Text /\ split.rows \in Seq(Text)
      BY <1>2 DEF Shaped, Acc
  <1> QED
      BY <1>3, ReadRowsIs, RowsSettle

(* The row the stream leaves open is skipped or read.                          *)
LEMMA FlushTyped ==
  ASSUME NEW st, IsState(st), NEW row
  PROVE  IsState(FlushRow(st, row)) /\ FlushRow(st, row) \in {st, ReadRow(st, row)}
  BY ReadRowIs DEF FlushRow

(* A part of a text is a text, and two adjacent parts are one.                 *)
LEMMA SubText ==
  ASSUME NEW S, NEW text \in Seq(S), NEW from \in 0..Len(text), NEW to \in from..Len(text)
  PROVE  /\ SubSeq(text, from + 1, to) \in Seq(S) /\ SubSeq(text, 1, to) \in Seq(S)
         /\ SubSeq(text, 1, from) \o SubSeq(text, from + 1, to) = SubSeq(text, 1, to)
  <1>1. Len(text) \in Nat
      BY LenProperties
  <1>2. \A i \in 1..Len(text) : text[i] \in S
      BY ElementOfSeq
  <1>3. SubSeq(text, from + 1, to) \in Seq(S)
      BY <1>1, <1>2, SubSeqProperties
  <1>4. SubSeq(text, 1, to) \in Seq(S)
      BY <1>1, <1>2, SubSeqProperties
  <1>5. SubSeq(text, 1, from) \o SubSeq(text, from + 1, to) = SubSeq(text, 1, to)
    <2>1. 1 \in 1..(Len(text) + 1) /\ from \in (1 - 1)..Len(text)
        BY <1>1
    <2> QED
        BY <2>1, ConcatAdjacentSubSeq
  <1> QED
      BY <1>3, <1>4, <1>5

(* Initially the variables have their types and the file is its lines.         *)
LEMMA FileTyped == Init => Typed /\ File
  <1> SUFFICES ASSUME Init PROVE Typed /\ File
      OBVIOUS
  <1>1. PICK n \in 0..MaxLines : lines \in [1..n -> Lines]
      BY DEF Init
  <1>2. n \in Nat
      BY FileAssumption
  <1>3. lines \in Seq(Lines)
      BY <1>1, <1>2
  <1>4. File
      BY DEF Init, File, Written
  <1>5. bytes \in Text /\ << >> \in Text
      BY <1>3, <1>4, FileSplit, EmptySeq DEF File, Text
  <1>6. Len(bytes) \in Nat
      BY <1>5, LenProperties DEF Text
  <1>7. pos = 0 /\ partialRow = << >> /\ headerRow = FALSE /\ outcome = "reading"
      BY DEF Init
  <1>8. pos \in 0..Len(bytes)
      BY <1>6, <1>7
  <1>9. Typed
      BY <1>3, <1>5, <1>7, <1>8 DEF Typed, TypeOK
  <1> QED
      BY <1>4, <1>9

(* Every step keeps the types.                                                 *)
LEMMA TypedStep == Typed /\ [Next]_vars => Typed'
  <1> SUFFICES ASSUME Typed, [Next]_vars PROVE Typed'
      OBVIOUS
  <1>0. /\ lines \in Seq(Lines) /\ pos \in 0..Len(bytes) /\ headerRow \in BOOLEAN
        /\ bytes \in Text /\ partialRow \in Text /\ Len(bytes) \in Nat
      BY LenProperties DEF Typed, TypeOK, Text
  <1>1. CASE ReadChunk
    <2>1. PICK to \in (pos + 1)..Len(bytes) :
             LET split == SplitRows(partialRow \o Decode(SubSeq(bytes, pos + 1, to)))
             IN /\ pos' = to
                /\ partialRow' = split.open
                /\ Become(FoldLeft(ReadRow, Current, split.rows), "reading")
        BY <1>1 DEF ReadChunk
    <2> DEFINE chunk == SubSeq(bytes, pos + 1, to)
               split == SplitRows(partialRow \o Decode(chunk))
               st == FoldLeft(ReadRow, Current, split.rows)
    <2>2. chunk \in Text
        BY <1>0, SubText DEF Text
    <2>3. split.open \in Text /\ IsState(st)
        BY <1>0, <2>2, CurrentIs, ChunkTyped
    <2>4. /\ pos' = to /\ partialRow' = split.open /\ Become(st, "reading")
          /\ lines' = lines /\ bytes' = bytes
        BY <1>1, <2>1 DEF ReadChunk
    <2>5. to \in 0..Len(bytes)
        BY <1>0
    <2> HIDE DEF st, split, chunk
    <2>6. headerRow' \in BOOLEAN /\ outcome' \in {"reading", "rejected"}
        BY <2>3, <2>4 DEF Become, IsState
    <2> QED
        BY <1>0, <2>3, <2>4, <2>5, <2>6 DEF Typed, TypeOK
  <1>2. CASE End
    <2> DEFINE st == FlushRow(Current, partialRow)
    <2>1. IsState(st)
        BY <1>0, CurrentIs, FlushTyped
    <2>2. /\ Become(st, "accepted") /\ pos = Len(bytes)
          /\ UNCHANGED <<lines, bytes, pos, partialRow>>
        BY <1>2 DEF End
    <2> HIDE DEF st
    <2>3. headerRow' \in BOOLEAN /\ outcome' \in {"accepted", "rejected"}
        BY <2>1, <2>2 DEF Become, IsState
    <2> QED
        BY <1>0, <2>2, <2>3 DEF Typed, TypeOK
  <1>3. CASE UNCHANGED vars
      BY <1>3 DEF Typed, TypeOK, vars
  <1> QED
      BY <1>1, <1>2, <1>3 DEF Next

(* The types hold, and only a file read to its end is accepted, whatever the   *)
(* lines and however the stream of parseData cuts the file into chunks, also   *)
(* inside a character of two bytes.                                            *)
THEOREM TypeCorrect == Spec => []TypeOK
  <1>1. Init => Typed
      BY FileTyped
  <1>2. Typed /\ [Next]_vars => Typed'
      BY TypedStep
  <1>3. Typed => TypeOK
      BY DEF Typed
  <1> QED
      BY <1>1, <1>2, <1>3, PTL DEF Spec

-------------------------------------------------------------------------------
(* The result                                                                  *)

(* Where no line has a character of two bytes, the file has none.              *)
LEMMA FileAscii ==
  ASSUME Typed, File, SingleByte
  PROVE  bytes \in Seq(Ascii)
  <1>1. PICK end \in Terminators : \E last \in {end, << >>} : Written(end, last)
      BY DEF File
  <1>2. lines \in Seq(Lines) /\ DOMAIN lines = 1..Len(lines) /\ Len(lines) \in Nat
      BY LenProperties DEF Typed, TypeOK
  <1> PICK last \in {end, << >>} : Written(end, last)
      BY <1>1
  <1>3. end \in Seq(Ascii) /\ << >> \in Seq(Ascii)
    <2>1. CR \in Ascii /\ LF \in Ascii
      <3>1. CR \in Token /\ LF \in Token
          BY EndsDiffer
      <3>2. CR \notin {Lead, Trail} /\ LF \notin {Lead, Trail}
          BY DEF CR, LF, Lead, Trail
      <3> QED
          BY <3>1, <3>2 DEF Ascii
    <2> QED
        BY <2>1, FileAssumption
  <1> DEFINE f == [i \in DOMAIN lines |-> lines[i].bytes \o IF i = Len(lines) THEN last ELSE end]
  <1>4. ASSUME NEW i \in 1..Len(lines) PROVE f[i] \in Seq(Ascii)
    <2>1. lines[i].bytes \in Seq(Ascii)
        BY <1>2, LineSays
    <2>2. (IF i = Len(lines) THEN last ELSE end) \in Seq(Ascii)
        BY <1>3
    <2>3. f[i] = lines[i].bytes \o IF i = Len(lines) THEN last ELSE end
        BY <1>2
    <2> HIDE DEF f
    <2> QED
        BY <2>1, <2>2, <2>3, ConcatProperties
  <1>5. f = [i \in 1..Len(lines) |-> f[i]]
      BY <1>2
  <1>6. bytes = FlattenSeq(f)
      BY DEF Written
  <1> HIDE DEF f
  <1>7. f \in Seq(Seq(Ascii))
      BY <1>2, <1>4, <1>5
  <1> QED
      BY <1>6, <1>7, Splits!FlattenType, FlattenIs

Told(p) == SplitRows(SubSeq(bytes, 1, p))

StateAt(p) == Rows!Fold(Fresh, Told(p).rows)

(* The first p bytes, as one text: their rows are the first lines of the       *)
(* file, and what was read of them is so.                                      *)
LEMMA ToldIs ==
  ASSUME Typed, File, SingleByte, NEW p \in 0..Len(bytes)
  PROVE  /\ SubSeq(bytes, 1, p) \in Text
         /\ Decode(SubSeq(bytes, 1, p)) = SubSeq(bytes, 1, p)
         /\ Len(Told(p).rows) \in 0..Len(lines)
         /\ Told(p).rows = RowsTo(Len(Told(p).rows))
         /\ ReadTo(StateAt(p), Len(Told(p).rows))
  <1> DEFINE before == SubSeq(bytes, 1, p)
             rest == SubSeq(bytes, p + 1, Len(bytes))
             whole == SplitRows(bytes)
             told == Told(p)
             m == Len(told.rows)
  <1>0. /\ lines \in Seq(Lines) /\ Len(lines) \in Nat /\ bytes \in Text /\ bytes \in Seq(Ascii)
        /\ Len(bytes) \in Nat
      BY FileAscii, LenProperties DEF Typed, TypeOK, Text
  <1>1. before \in Seq(Ascii) /\ before \in Text /\ rest \in Text /\ before \o rest = bytes
    <2>1. before \in Seq(Ascii)
        BY <1>0, SubText
    <2>2. bytes \in Seq(Token) /\ p \in 0..Len(bytes) /\ Len(bytes) \in p..Len(bytes)
        BY <1>0 DEF Text
    <2>3. /\ rest \in Seq(Token) /\ before \o rest = SubSeq(bytes, 1, Len(bytes))
        BY <2>2, SubText
    <2>4. before \in Seq(Token)
        BY <2>1, SeqMonotonic DEF Ascii
    <2>5. SubSeq(bytes, 1, Len(bytes)) = bytes
        BY <2>2, SubSeqFull
    <2> QED
        BY <2>1, <2>3, <2>4, <2>5 DEF Text
  <1>2. Decode(before) = before
      BY <1>1, DecodePlain
  <1>3. told \in Shaped /\ whole = Splits!Fold(told, rest)
    <2>1. Splits!Fold(NoText, before) \in Shaped
        BY <1>1, NoTextShaped, SplitShaped
    <2>2. SplitRows(before \o rest) = Splits!Fold(SplitRows(before), rest)
        BY <1>1, TextsJoin
    <2> QED
        BY <1>1, <2>1, <2>2, SplitRowsIs DEF Told
  <1>4. m <= Len(whole.rows) /\ \A i \in 1..m : whole.rows[i] = told.rows[i]
      BY <1>1, <1>3, RowsGrow DEF SplitMore
  <1>5. PICK k \in 0..Len(lines) : whole.rows = RowsTo(k)
    <2>1. Len(lines) \in 0..Len(lines) /\ (Len(lines) > 0 => Len(lines) - 1 \in 0..Len(lines))
        BY <1>0
    <2>2. PICK end \in Terminators : \E last \in {end, << >>} : Written(end, last)
        BY DEF File
    <2>3. PICK last \in {end, << >>} : Written(end, last)
        BY <2>2
    <2>4. \/ whole.rows = RowsTo(Len(lines))
          \/ Len(lines) > 0 /\ whole.rows = RowsTo(Len(lines) - 1)
        BY <1>0, <2>3, FileSplit
    <2> HIDE DEF whole
    <2> QED
        BY <2>1, <2>4
  <1>6. told.rows \in Seq(Text) /\ m \in Nat
      BY <1>3, LenProperties DEF Shaped, Acc
  <1>7. Len(RowsTo(k)) = k /\ \A i \in 1..k : RowsTo(k)[i] = lines[i].bytes
      BY DEF RowsTo
  <1> HIDE DEF m, whole, before, rest, told
  <1>8. m <= k /\ \A i \in 1..m : told.rows[i] = lines[i].bytes
      BY <1>0, <1>4, <1>5, <1>6, <1>7
  <1>9. told.rows = RowsTo(m)
    <2>1. told.rows = [i \in 1..m |-> told.rows[i]]
        BY <1>6, LenProperties DEF m
    <2> QED
        BY <1>8, <2>1 DEF RowsTo
  <1>10. m \in 0..Len(lines)
      BY <1>0, <1>6, <1>8
  <1>11. ReadTo(Rows!Fold(Fresh, told.rows), m)
      BY <1>0, <1>9, <1>10, LinesRead
  <1> QED
      BY <1>1, <1>2, <1>9, <1>10, <1>11 DEF m, before, told, StateAt

(* What an end of the file after k lines may say.                              *)
ResultTo(st, k) ==
    /\ IsState(st)
    /\ st.ok => GatheredFrom(st.products, k) /\ \A i \in 2..k : ~Faulty(i)
    /\ ~st.ok => \E i \in 1..k : Faulty(i)

(* What ReadTo says suffices for a result.                                     *)
LEMMA ReadResult ==
  ASSUME NEW st, NEW k \in Nat, ReadTo(st, k)
  PROVE  ResultTo(st, k)
  <1>1. \A i \in 2..k : i \in 1..k
      OBVIOUS
  <1> QED
      BY <1>1 DEF ReadTo, ResultTo, Gathered

(* Flushing the unterminated last line gives a result of all lines: an empty   *)
(* one is skipped, even where the header should be, any other is read.         *)
LEMMA FlushResult ==
  ASSUME lines \in Seq(Lines), SingleByte, NEW k \in Nat, k + 1 = Len(lines),
         NEW st, ReadTo(st, k), st.ok
  PROVE  ResultTo(FlushRow(st, lines[k + 1].bytes), k + 1)
  <1> DEFINE l == lines[k + 1]
             parsed == ParseCols(l.bytes)
  <1>1. /\ l.kind = "empty" <=> parsed.closed /\ IsEmptyRow(parsed.cols)
        /\ Trim(l.bytes) = << >> => l.kind = "empty"
    <2>1. k + 1 \in 1..Len(lines)
        OBVIOUS
    <2> QED
        BY <2>1, LineSays
  <1>2. CASE l.kind = "empty"
    <2>1. FlushRow(st, l.bytes) = st
        BY <1>1, <1>2 DEF FlushRow
    <2>2. ProductLines(k + 1) = ProductLines(k)
        BY <1>2 DEF ProductLines
    <2>3. GatheredFrom(st.products, k) /\ IsState(st) /\ \A i \in 1..k : ~Faulty(i)
        BY DEF ReadTo, Gathered
    <2>4. GatheredFrom(st.products, k + 1)
        BY <2>2, <2>3 DEF GatheredFrom, LinesOf
    <2>5. ASSUME NEW i \in 2..(k + 1) PROVE ~Faulty(i)
      <3>1. i \in 1..k \/ (i = k + 1 /\ i # 1)
          OBVIOUS
      <3> QED
          BY <1>2, <2>3, <3>1 DEF Faulty
    <2> QED
        BY <2>1, <2>3, <2>4, <2>5 DEF ResultTo
  <1>3. CASE l.kind # "empty"
    <2>1. FlushRow(st, l.bytes) = ReadRow(st, l.bytes)
        BY <1>1, <1>3 DEF FlushRow
    <2>2. k + 1 <= Len(lines) /\ k + 1 \in Nat
        OBVIOUS
    <2> QED
        BY <2>1, <2>2, LineRead, ReadResult
  <1> QED
      BY <1>2, <1>3

(* The state of the parser is that of the whole text so far.                   *)
AsWhole == outcome = "reading" => partialRow = Told(pos).open /\ Current = StateAt(pos)

(* Before the first chunk nothing was read.                                    *)
LEMMA AsWholeInit ==
  ASSUME Init
  PROVE  AsWhole /\ ResultIsOfTheFile
  <1>1. pos = 0 /\ partialRow = << >> /\ Current = Fresh /\ outcome = "reading"
      BY DEF Init, Current, Fresh
  <1>2. SubSeq(bytes, 1, 0) = << >>
      BY SubSeqEmpty
  <1>3. Told(0) = NoText
      BY <1>2, SplitRowsIs, Splits!FoldEmpty DEF Told
  <1>4. StateAt(0) = Fresh
      BY <1>3, NoTextShaped, Rows!FoldEmpty DEF StateAt
  <1> QED
      BY <1>1, <1>3, <1>4, NoTextShaped DEF AsWhole, ResultIsOfTheFile

(* After a chunk the parser is where the whole text up to its end, read at     *)
(* once, would have it; it has rejected only what a line is to blame for.      *)
LEMMA AsWholeChunk ==
  ASSUME Typed, File, SingleByte, AsWhole, ReadChunk
  PROVE  AsWhole' /\ ResultIsOfTheFile'
  <1>0. /\ lines \in Seq(Lines) /\ Len(lines) \in Nat /\ bytes \in Seq(Ascii)
        /\ bytes \in Text /\ Len(bytes) \in Nat /\ pos \in 0..Len(bytes)
        /\ outcome = "reading" /\ DOMAIN lines = 1..Len(lines)
      BY FileAscii, LenProperties DEF Typed, TypeOK, Text, ReadChunk
  <1>1. PICK to \in (pos + 1)..Len(bytes) :
           LET split == SplitRows(partialRow \o Decode(SubSeq(bytes, pos + 1, to)))
           IN /\ pos' = to
              /\ partialRow' = split.open
              /\ Become(FoldLeft(ReadRow, Current, split.rows), "reading")
      BY DEF ReadChunk
  <1> DEFINE before == SubSeq(bytes, 1, pos)
             chunk == SubSeq(bytes, pos + 1, to)
             split == SplitRows(partialRow \o Decode(chunk))
             st == StateAt(to)
             m == Len(Told(to).rows)
  <1>2. to \in 0..Len(bytes) /\ to \in pos..Len(bytes)
      BY <1>0
  <1>3. chunk \in Text /\ Decode(chunk) = chunk /\ before \in Text
        /\ before \o chunk = SubSeq(bytes, 1, to)
    <2>1. chunk \in Seq(Ascii)
        BY <1>0, <1>2, SubText
    <2>2. chunk \in Text /\ before \o chunk = SubSeq(bytes, 1, to)
        BY <1>0, <1>2, SubText DEF Text
    <2>3. before \in Text
        BY <1>0, ToldIs
    <2> QED
        BY <2>1, <2>2, <2>3, DecodePlain
  <1>4. partialRow = SplitRows(before).open /\ Current = Rows!Fold(Fresh, SplitRows(before).rows)
      BY <1>0 DEF AsWhole, StateAt, Told
  <1>5. /\ split.open = Told(to).open
        /\ FoldLeft(ReadRow, Current, split.rows) = st
    <2>1. /\ SplitRows(SplitRows(before).open \o chunk).open = SplitRows(before \o chunk).open
          /\ Rows!Fold(Rows!Fold(Fresh, SplitRows(before).rows),
                       SplitRows(SplitRows(before).open \o chunk).rows)
                = Rows!Fold(Fresh, SplitRows(before \o chunk).rows)
        BY <1>3, FreshIs, ChunkIsText
    <2>2. split = SplitRows(SplitRows(before).open \o chunk)
        BY <1>3, <1>4
    <2>3. Told(to) = SplitRows(before \o chunk)
        BY <1>3 DEF Told
    <2>4. FoldLeft(ReadRow, Current, split.rows) = Rows!Fold(Current, split.rows)
        BY ReadRowsIs
    <2> HIDE DEF split, before, chunk
    <2> QED
        BY <1>4, <2>1, <2>2, <2>3, <2>4 DEF StateAt
  <1>6. /\ pos' = to /\ partialRow' = Told(to).open /\ Become(st, "reading")
        /\ bytes' = bytes /\ lines' = lines
      BY <1>1, <1>5 DEF ReadChunk
  <1>7. ReadTo(st, m) /\ m \in 0..Len(lines)
      BY <1>2, ToldIs
  <1>8. (Told(pos))' = Told(to) /\ (StateAt(pos))' = st
      BY <1>6 DEF Told, StateAt
  <1> HIDE DEF st, m
  <1>9. CASE st.ok
    <2>1. outcome' = "reading" /\ headerRow' = st.header /\ products' = st.products
        BY <1>6, <1>9 DEF Become
    <2>2. Current' = st
        BY <1>7, <1>9, <2>1, StatesEqual DEF ReadTo, Current
    <2> QED
        BY <1>6, <1>8, <2>1, <2>2 DEF AsWhole, ResultIsOfTheFile
  <1>10. CASE ~st.ok
    <2>1. outcome' = "rejected"
        BY <1>6, <1>10 DEF Become
    <2>2. PICK i \in 1..m : Faulty(i)
        BY <1>7, <1>10 DEF ReadTo
    <2>3. i \in DOMAIN lines'
        BY <1>0, <1>6, <1>7
    <2>4. Faulty(i)'
        BY <1>6, <2>2 DEF Faulty
    <2> QED
        BY <2>1, <2>3, <2>4 DEF AsWhole, ResultIsOfTheFile
  <1> QED
      BY <1>9, <1>10

(* What was gathered stays so when the file and what was gathered stay.        *)
LEMMA GatheredKept ==
  ASSUME NEW d, NEW k, lines' = lines, products' = d, k = Len(lines), GatheredFrom(d, k)
  PROVE GatheredFrom(products, Len(lines))'
  <1>1. ProductLines(Len(lines))' = ProductLines(k)
      BY DEF ProductLines
  <1>2. \A n : LinesOf(n, Len(lines))' = LinesOf(n, k)
      BY <1>1 DEF LinesOf
  <1>3. DOMAIN d = {lines'[i].name : i \in ProductLines(Len(lines))'}
      BY <1>1 DEF GatheredFrom
  <1>4. \A n \in DOMAIN d :
          /\ ToSet(d[n]) = UNION {ToSet(lines'[i].urls) : i \in LinesOf(n, Len(lines))'}
          /\ Cardinality(LinesOf(n, Len(lines))') > 1 => IsInjective(d[n])
    <2> TAKE n \in DOMAIN d
    <2>1. LinesOf(n, Len(lines))' = LinesOf(n, k)
        BY <1>2
    <2>2. /\ ToSet(d[n]) = UNION {ToSet(lines[i].urls) : i \in LinesOf(n, k)}
          /\ Cardinality(LinesOf(n, k)) > 1 => IsInjective(d[n])
        BY DEF GatheredFrom
    <2> QED
        BY <2>1, <2>2
  <1> QED
      BY <1>3, <1>4, Zenon DEF GatheredFrom

(* At the end of the stream every line was read.                               *)
LEMMA AsWholeEnd ==
  ASSUME Typed, File, SingleByte, AsWhole, End
  PROVE  AsWhole' /\ ResultIsOfTheFile'
  <1>0. /\ lines \in Seq(Lines) /\ Len(lines) \in Nat
        /\ bytes \in Text /\ Len(bytes) \in Nat /\ pos = Len(bytes)
        /\ outcome = "reading" /\ DOMAIN lines = 1..Len(lines)
      BY LenProperties DEF Typed, TypeOK, Text, End
  <1> DEFINE st == StateAt(pos)
             last == Told(pos).open
             new == FlushRow(st, last)
  <1>1. Told(pos) = SplitRows(bytes)
      BY <1>0, SubSeqFull DEF Told, Text
  <1>2. Become(new, "accepted") /\ lines' = lines
      BY <1>0 DEF End, AsWhole
  <1>3. ReadTo(st, Len(Told(pos).rows))
    <2>1. pos \in 0..Len(bytes)
        BY <1>0
    <2> QED
        BY <2>1, ToldIs
  <1>4. st.ok /\ IsState(st)
    <2>1. Current = st
        BY <1>0 DEF AsWhole
    <2>2. headerRow \in BOOLEAN
        BY DEF Typed, TypeOK
    <2> QED
        BY <2>1, <2>2, CurrentIs
  <1>5. ResultTo(new, Len(lines))
    <2>1. PICK end \in Terminators : \E l \in {end, << >>} : Written(end, l)
        BY DEF File
    <2>2. PICK l \in {end, << >>} : Written(end, l)
        BY <2>1
    <2>3. \A k \in Nat : Len(RowsTo(k)) = k
        BY DEF RowsTo
    <2>4. \/ Told(pos).rows = RowsTo(Len(lines)) /\ last = << >>
          \/ /\ Len(lines) > 0 /\ Told(pos).rows = RowsTo(Len(lines) - 1)
             /\ last = lines[Len(lines)].bytes
        BY <1>0, <1>1, <2>2, FileSplit
    <2> HIDE DEF st, last
    <2>5. CASE Told(pos).rows = RowsTo(Len(lines)) /\ last = << >>
      <3>1. new = st
          BY <2>5, NoTextKept DEF FlushRow
      <3>2. ReadTo(st, Len(lines))
          BY <1>0, <1>3, <2>3, <2>5
      <3> QED
          BY <1>0, <3>1, <3>2, ReadResult
    <2>6. CASE /\ Len(lines) > 0 /\ Told(pos).rows = RowsTo(Len(lines) - 1)
               /\ last = lines[Len(lines)].bytes
      <3> DEFINE k == Len(lines) - 1
      <3>1. k \in Nat /\ k + 1 = Len(lines)
          BY <1>0, <2>6
      <3>2. Len(Told(pos).rows) = k
          BY <2>3, <2>6, <3>1
      <3> HIDE DEF k
      <3>3. ReadTo(st, k)
          BY <1>3, <3>2
      <3>4. ResultTo(FlushRow(st, lines[k + 1].bytes), k + 1)
          BY <1>0, <1>4, <3>1, <3>3, FlushResult
      <3> QED
          BY <2>6, <3>1, <3>4
    <2> QED
        BY <2>4, <2>5, <2>6
  <1> HIDE DEF new
  <1>7. CASE new.ok
    <2>1. outcome' = "accepted" /\ products' = new.products
        BY <1>2, <1>7 DEF Become
    <2>2. GatheredFrom(new.products, Len(lines)) /\ \A i \in 2..Len(lines) : ~Faulty(i)
        BY <1>5, <1>7 DEF ResultTo
    <2>3. \A i \in 2..Len(lines') : ~Faulty(i)'
        BY <1>2, <2>2 DEF Faulty
    <2>4. GatheredFrom(products, Len(lines))'
      <3>1. lines' = lines /\ products' = new.products
          BY <1>2, <2>1
      <3>2. GatheredFrom(new.products, Len(lines))
          BY <2>2
      <3>3. PICK d : d = new.products
          OBVIOUS
      <3>4. PICK k : k = Len(lines)
          OBVIOUS
      <3>5. products' = d /\ GatheredFrom(d, k)
          BY <3>1, <3>2, <3>3, <3>4
      <3> QED
          BY <3>1, <3>4, <3>5, GatheredKept
    <2> QED
        BY <2>1, <2>3, <2>4 DEF AsWhole, ResultIsOfTheFile
  <1>8. CASE ~new.ok
    <2>1. outcome' = "rejected"
        BY <1>2, <1>8 DEF Become
    <2>2. PICK i \in 1..Len(lines) : Faulty(i)
        BY <1>5, <1>8 DEF ResultTo
    <2>3. i \in DOMAIN lines' /\ Faulty(i)'
        BY <1>0, <1>2, <2>2 DEF Faulty
    <2> QED
        BY <2>1, <2>3 DEF AsWhole, ResultIsOfTheFile
  <1> QED
      BY <1>7, <1>8

IInv == Typed /\ File /\ AsWhole /\ ResultIsOfTheFile

(* The invariant is inductive.                                                 *)
LEMMA IInvStep ==
  ASSUME SingleByte, IInv, [Next]_vars
  PROVE  IInv'
  <1> USE DEF IInv
  <1>1. Typed'
      BY TypedStep
  <1>2. File'
    <2>1. lines' = lines /\ bytes' = bytes
        BY DEF Next, ReadChunk, End, vars
    <2> QED
        BY <2>1 DEF File, Written
  <1>3. AsWhole' /\ ResultIsOfTheFile'
    <2>1. CASE ReadChunk
        BY <2>1, AsWholeChunk
    <2>2. CASE End
        BY <2>2, AsWholeEnd
    <2>3. CASE UNCHANGED vars
      <3>1. AsWhole'
          BY <2>3 DEF vars, AsWhole, Told, StateAt, Current
      <3>2. ResultIsOfTheFile'
        <4>1. lines' = lines /\ products' = products /\ outcome' = outcome
            BY <2>3 DEF vars
        <4>2. \A p, k : GatheredFrom(p, k)' <=> GatheredFrom(p, k)
            BY <4>1 DEF GatheredFrom, LinesOf, ProductLines
        <4> QED
            BY <4>1, <4>2 DEF ResultIsOfTheFile, Faulty
      <3> QED
          BY <3>1, <3>2
    <2> QED
        BY <2>1, <2>2, <2>3 DEF Next
  <1> QED
      BY <1>1, <1>2, <1>3

(* And it implies what a reader of the parser is promised between chunks.      *)
LEMMA ChunksFromIInv ==
  ASSUME SingleByte, IInv
  PROVE  ChunksDoNotMatter
  <1> SUFFICES ASSUME outcome = "reading" PROVE ChunksDoNotMatter
      BY DEF ChunksDoNotMatter
  <1>1. pos \in 0..Len(bytes) /\ headerRow \in BOOLEAN
      BY DEF IInv, Typed, TypeOK
  <1>2. Delivered = Told(pos) /\ ReadTo(StateAt(pos), Len(Told(pos).rows))
      BY <1>1, ToldIs DEF IInv, Delivered, Told
  <1>3. partialRow = Told(pos).open /\ Current = StateAt(pos)
      BY DEF IInv, AsWhole
  <1>4. Current.ok = TRUE /\ Current.products = products
      BY <1>1, CurrentIs
  <1>5. GatheredFrom(products, Len(Told(pos).rows))
      BY <1>2, <1>3, <1>4 DEF ReadTo, Gathered
  <1> QED
      BY <1>2, <1>3, <1>5 DEF ChunksDoNotMatter

(* Where no line has a character of two bytes, partialRow and the products     *)
(* are those of the text delivered so far, however parseData was given it:     *)
(* for any lines, any number of them, any of the four terminators and any      *)
(* chunks.                                                                     *)
THEOREM ChunksAreTheFile ==
  ASSUME SingleByte
  PROVE  Spec => []ChunksDoNotMatter
  <1>1. Init => IInv
      BY FileTyped, AsWholeInit DEF IInv
  <1>2. IInv /\ [Next]_vars => IInv'
      BY IInvStep
  <1>3. IInv => ChunksDoNotMatter
      BY ChunksFromIInv
  <1> QED
      BY <1>1, <1>2, <1>3, PTL DEF Spec

(* And so is the result: a file is rejected only for a line of its own, and    *)
(* the products of an accepted one are those of all its lines.                 *)
THEOREM ResultOfTheFile ==
  ASSUME SingleByte
  PROVE  Spec => []ResultIsOfTheFile
  <1>1. Init => IInv
      BY FileTyped, AsWholeInit DEF IInv
  <1>2. IInv /\ [Next]_vars => IInv'
      BY IInvStep
  <1>3. IInv => ResultIsOfTheFile
      BY DEF IInv
  <1> QED
      BY <1>1, <1>2, <1>3, PTL DEF Spec

-------------------------------------------------------------------------------
(* Trimmed texts                                                               *)

(* The characters parseCols distinguishes differ from one another.             *)
LEMMA CharsDiffer ==
    /\ Quote # Comma /\ Quote # Space /\ Comma # Space
    /\ "1" # Quote /\ "1" # Comma /\ "1" # Space
    /\ {Space, Comma, Quote, "1"} \subseteq Token
  <1>1. /\ Quote # Comma /\ Quote # Space /\ Comma # Space
        /\ "1" # Quote /\ "1" # Comma /\ "1" # Space
      BY SMT DEF Quote, Comma, Space
  <1> QED
      BY <1>1 DEF Token

(* A text is a sequence of its length.                                         *)
LEMMA TextIs ==
  ASSUME NEW t \in Text
  PROVE  /\ t \in Seq(Token) /\ Len(t) \in Nat /\ DOMAIN t = 1..Len(t)
         /\ \A i \in 1..Len(t) : t[i] \in Token
         /\ t = << >> <=> Len(t) = 0
  BY LenProperties, ElementOfSeq, EmptySeq DEF Text

(* It begins and ends with another character than a space.                     *)
NoSpaceAround(t) == t # << >> => t[1] # Space /\ t[Len(t)] # Space

(* Such a text is left as it is.                                               *)
LEMMA TrimKeeps ==
  ASSUME NEW t \in Text, NoSpaceAround(t)
  PROVE  Trim(t) = t
  <1>1. CASE t = << >>
      BY <1>1, NoTextKept
  <1>2. CASE t # << >>
    <2> DEFINE kept == {i \in DOMAIN t : t[i] # Space}
               first == CHOOSE i \in kept : \A j \in kept : i <= j
               last == CHOOSE i \in kept : \A j \in kept : j <= i
    <2>1. Len(t) \in Nat /\ DOMAIN t = 1..Len(t) /\ Len(t) # 0
        BY <1>2, TextIs
    <2>2. kept \subseteq 1..Len(t) /\ 1 \in kept /\ Len(t) \in kept
        BY <1>2, <2>1 DEF NoSpaceAround
    <2>3. Trim(t) = SubSeq(t, first, last)
        BY <2>2 DEF Trim
    <2> HIDE DEF kept
    <2>4. first = 1
      <3>1. \A i \in kept : (\A j \in kept : i <= j) => i = 1
          BY <2>1, <2>2
      <3>2. \A j \in kept : 1 <= j
          BY <2>1, <2>2
      <3> QED
          BY <2>2, <3>1, <3>2
    <2>5. last = Len(t)
      <3>1. \A n \in Nat : \A S : S \subseteq 1..n /\ n \in S =>
               (CHOOSE i \in S : \A j \in S : j <= i) = n
        <4> TAKE n \in Nat
        <4> TAKE S
        <4> HAVE S \subseteq 1..n /\ n \in S
        <4>1. \A i \in S : (\A j \in S : j <= i) => i = n
            OBVIOUS
        <4>2. \A j \in S : j <= n
            OBVIOUS
        <4> QED
            BY <4>1, <4>2
      <3> QED
          BY <2>1, <2>2, <3>1, Zenon
    <2> HIDE DEF first, last
    <2>6. SubSeq(t, 1, Len(t)) = t
        BY SubSeqFull DEF Text
    <2> QED
        BY <2>3, <2>4, <2>5, <2>6
  <1> QED
      BY <1>1, <1>2

(* Trimming makes a text such a text.                                          *)
LEMMA TrimTrims ==
  ASSUME NEW t \in Text
  PROVE  Trim(t) \in Text /\ NoSpaceAround(Trim(t))
  <1> DEFINE kept == {i \in DOMAIN t : t[i] # Space}
             first == CHOOSE i \in kept : \A j \in kept : i <= j
             last == CHOOSE i \in kept : \A j \in kept : j <= i
  <1>1. Len(t) \in Nat /\ DOMAIN t = 1..Len(t) /\ t \in Seq(Token) /\ << >> \in Text
      BY TextIs, EmptySeq DEF Text
  <1>2. CASE kept = {}
      BY <1>1, <1>2 DEF Trim, NoSpaceAround
  <1>3. CASE kept # {}
    <2>1. Trim(t) = SubSeq(t, first, last)
        BY <1>3 DEF Trim
    <2>2. kept \in SUBSET Nat /\ kept \subseteq 1..Len(t) /\ \A i \in kept : t[i] # Space
        BY <1>1
    <2> HIDE DEF kept
    <2>3. first \in kept /\ \A j \in kept : first <= j
      <3>1. \E i \in kept : \A j \in kept : i <= j
          BY <1>3, <2>2, Splits!LeastNat
      <3> QED
          BY <3>1
    <2>4. last \in kept /\ \A j \in kept : j <= last
      <3> DEFINE from == {Len(t) - i : i \in kept}
      <3>1. from \in SUBSET Nat /\ from # {}
        <4>1. \A i \in kept : Len(t) - i \in Nat
            BY <1>1, <2>2
        <4> QED
            BY <1>3, <4>1
      <3>2. PICK m \in from : \A k \in from : m <= k
          BY <3>1, Splits!LeastNat
      <3>3. PICK i \in kept : m = Len(t) - i
          BY <3>2
      <3>4. ASSUME NEW j \in kept PROVE j <= i
        <4>1. Len(t) - j \in from
            OBVIOUS
        <4>2. m <= Len(t) - j
            BY <3>2, <4>1
        <4> QED
            BY <1>1, <2>2, <3>3, <4>2
      <3>5. \E k \in kept : \A j \in kept : j <= k
          BY <3>4
      <3> QED
          BY <3>5
    <2> HIDE DEF first, last
    <2>5. first \in 1..Len(t) /\ last \in 1..Len(t) /\ first <= last
        BY <2>2, <2>3, <2>4
    <2>6. /\ SubSeq(t, first, last) \in Seq(Token)
          /\ Len(SubSeq(t, first, last)) = last - first + 1
          /\ \A i \in 1..(last - first + 1) : SubSeq(t, first, last)[i] = t[first + i - 1]
        BY <1>1, <2>5
    <2>7. /\ SubSeq(t, first, last)[1] = t[first]
          /\ SubSeq(t, first, last)[last - first + 1] = t[last]
      <3>1. 1 \in 1..(last - first + 1) /\ last - first + 1 \in 1..(last - first + 1)
          BY <1>1, <2>5
      <3>2. first + 1 - 1 = first /\ first + (last - first + 1) - 1 = last
          BY <1>1, <2>5
      <3> QED
          BY <2>6, <3>1, <3>2
    <2> QED
        BY <2>1, <2>2, <2>3, <2>4, <2>6, <2>7 DEF NoSpaceAround, Text
  <1> QED
      BY <1>2, <1>3

-------------------------------------------------------------------------------
(* A row position by position                                                  *)

SpotsBefore(row, i) == {j \in 1..(i - 1) : row[j] # Space}
SpotsAfter(row, i) == {j \in (i + 1)..Len(row) : row[j] # Space}

(* The two characters AtEdge looks at.                                         *)
LEMMA AtEdgeIs ==
  ASSUME NEW row, NEW i
  PROVE  LET before == IF SpotsBefore(row, i) # {} THEN Max(SpotsBefore(row, i)) ELSE 0
             after == IF SpotsAfter(row, i) # {} THEN Min(SpotsAfter(row, i)) ELSE 0
         IN AtEdge(row, i) <=> \/ before = 0 \/ row[before] = Comma
                               \/ after = 0 \/ row[after] = Comma
  BY DEF AtEdge, SelectLastInSubSeq, SelectInSubSeq, SpotsBefore, SpotsAfter

(* A quote after a comma is at an edge, and so is one before a comma and one   *)
(* at the end of the row.                                                      *)
LEMMA EdgeIs ==
  ASSUME NEW row \in Text, NEW i \in 1..Len(row),
         \/ i > 1 /\ row[i - 1] = Comma
         \/ i = Len(row)
         \/ i < Len(row) /\ row[i + 1] = Comma
  PROVE  AtEdge(row, i)
  <1>0. Len(row) \in Nat
      BY TextIs
  <1>1. CASE i > 1 /\ row[i - 1] = Comma
    <2>1. /\ i - 1 \in SpotsBefore(row, i) /\ SpotsBefore(row, i) \in SUBSET Nat
          /\ \A j \in SpotsBefore(row, i) : j <= i - 1
        BY <1>0, <1>1, CharsDiffer DEF SpotsBefore
    <2>2. Max(SpotsBefore(row, i)) = i - 1
      <3>1. \A x \in SpotsBefore(row, i) : (\A y \in SpotsBefore(row, i) : x >= y) => x = i - 1
          BY <1>0, <2>1
      <3>2. \A y \in SpotsBefore(row, i) : i - 1 >= y
          BY <1>0, <2>1
      <3> QED
          BY <2>1, <3>1, <3>2 DEF Max
    <2> QED
        BY <1>1, <2>1, <2>2, AtEdgeIs
  <1>2. CASE i = Len(row)
    <2>1. SpotsAfter(row, i) = {}
        BY <1>0, <1>2 DEF SpotsAfter
    <2> QED
        BY <2>1, AtEdgeIs
  <1>3. CASE i < Len(row) /\ row[i + 1] = Comma
    <2>1. /\ i + 1 \in SpotsAfter(row, i) /\ SpotsAfter(row, i) \in SUBSET Nat
          /\ \A j \in SpotsAfter(row, i) : i + 1 <= j
        BY <1>0, <1>3, CharsDiffer DEF SpotsAfter
    <2>2. Min(SpotsAfter(row, i)) = i + 1
      <3>1. \A x \in SpotsAfter(row, i) : (\A y \in SpotsAfter(row, i) : x =< y) => x = i + 1
          BY <1>0, <2>1
      <3>2. \A y \in SpotsAfter(row, i) : i + 1 =< y
          BY <1>0, <2>1
      <3> QED
          BY <2>1, <3>1, <3>2 DEF Min
    <2> QED
        BY <1>3, <2>1, <2>2, AtEdgeIs
  <1> QED
      BY <1>1, <1>2, <1>3

(* What was gathered inside or outside quotes, and what a position does to it. *)
Reading(side, cols, col) == Gathering(cols, col, side = "inside", FALSE)
StepAt(row, i, acc) == ColumnStep(acc, <<row, i>>)

(* A character other than a quote joins the column, a comma only inside       *)
(* quotes.                                                                     *)
LEMMA StepJoins ==
  ASSUME NEW row, NEW i, NEW side, NEW cols, NEW col,
         row[i] # Quote, side = "inside" \/ row[i] # Comma
  PROVE  StepAt(row, i, Reading(side, cols, col)) = Reading(side, cols, Append(col, row[i]))
  <1> DEFINE acc == Reading(side, cols, col)
  <1>1. acc.cols = cols /\ acc.col = col /\ acc.inQuotes = (side = "inside") /\ acc.skip = FALSE
      BY Zenon DEF Reading, Gathering
  <1>2. ~Escaped(row, i) /\ <<row, i>>[1] = row /\ <<row, i>>[2] = i
      BY DEF Escaped
  <1> HIDE DEF acc
  <1>3. ColumnStep(acc, <<row, i>>) = Gathering(cols, Append(col, row[i]), side = "inside", FALSE)
      BY <1>1, <1>2, Zenon DEF ColumnStep
  <1> QED
      BY <1>3, Zenon DEF acc, StepAt, Reading

(* A comma outside quotes ends the column.                                     *)
LEMMA StepComma ==
  ASSUME NEW row, NEW i, NEW cols, NEW col, row[i] = Comma
  PROVE  StepAt(row, i, Reading("outside", cols, col))
            = Reading("outside", Append(cols, Trim(col)), << >>)
  <1> DEFINE acc == Reading("outside", cols, col)
             out == "outside" = "inside"
  <1>0. out = FALSE
      OBVIOUS
  <1>1. acc.cols = cols /\ acc.col = col /\ acc.inQuotes = out /\ acc.skip = FALSE
      BY Zenon DEF Reading, Gathering
  <1>2. row[i] # Quote /\ <<row, i>>[1] = row /\ <<row, i>>[2] = i
      BY CharsDiffer
  <1>3. ~Escaped(row, i)
      BY <1>2 DEF Escaped
  <1>5. Reading("outside", Append(cols, Trim(col)), << >>)
           = Gathering(Append(cols, Trim(col)), << >>, out, FALSE)
      BY Zenon DEF Reading
  <1> HIDE DEF acc, out
  <1>4. ColumnStep(acc, <<row, i>>) = Gathering(Append(cols, Trim(col)), << >>, out, FALSE)
      BY <1>0, <1>1, <1>2, <1>3, Zenon DEF ColumnStep
  <1> QED
      BY <1>4, <1>5, Zenon DEF acc, StepAt

(* A quote at the edge of a column opens or closes it.                         *)
LEMMA StepQuote ==
  ASSUME NEW row, NEW i, NEW cols, NEW col,
         row[i] = Quote, ~Escaped(row, i), AtEdge(row, i)
  PROVE  /\ StepAt(row, i, Reading("outside", cols, col)) = Reading("inside", cols, col)
         /\ StepAt(row, i, Reading("inside", cols, col)) = Reading("outside", cols, col)
  <1>1. <<row, i>>[1] = row /\ <<row, i>>[2] = i
      OBVIOUS
  <1>2. ASSUME NEW acc, NEW q \in BOOLEAN, acc.cols = cols, acc.col = col, acc.inQuotes = q,
               acc.skip = FALSE
        PROVE  ColumnStep(acc, <<row, i>>) = Gathering(cols, col, ~q, FALSE)
      BY <1>1, <1>2, Zenon DEF ColumnStep
  <1> DEFINE in == "inside" = "inside"
             out == "outside" = "inside"
             accIn == Reading("inside", cols, col)
             accOut == Reading("outside", cols, col)
  <1>3. in = TRUE /\ out = FALSE /\ in \in BOOLEAN /\ out \in BOOLEAN /\ (~in) = out /\ (~out) = in
      OBVIOUS
  <1>4. /\ accIn.cols = cols /\ accIn.col = col /\ accIn.inQuotes = in /\ accIn.skip = FALSE
        /\ accIn = Gathering(cols, col, in, FALSE)
      BY Zenon DEF Reading, Gathering
  <1>5. /\ accOut.cols = cols /\ accOut.col = col /\ accOut.inQuotes = out /\ accOut.skip = FALSE
        /\ accOut = Gathering(cols, col, out, FALSE)
      BY Zenon DEF Reading, Gathering
  <1> HIDE DEF in, out, accIn, accOut
  <1>6. ColumnStep(accIn, <<row, i>>) = accOut
      BY <1>2, <1>3, <1>4, <1>5, Zenon
  <1>7. ColumnStep(accOut, <<row, i>>) = accIn
      BY <1>2, <1>3, <1>4, <1>5, Zenon
  <1> QED
      BY <1>6, <1>7, Zenon DEF accIn, accOut, StepAt

(* Nothing gathered is nothing gathered outside quotes.                        *)
LEMMA NoColumnsIs == NoColumns = Reading("outside", << >>, << >>)
  <1>1. ("outside" = "inside") = FALSE
      OBVIOUS
  <1> QED
      BY <1>1, Zenon DEF NoColumns, Reading, Gathering

(* A text begins with another.                                                 *)
Begins(row, s) ==
    s \in Text /\ Len(s) <= Len(row) /\ \A i \in 1..Len(s) : row[i] = s[i]

(* With a longer text a row begins with a shorter one.                         *)
LEMMA BeginsShorter ==
  ASSUME NEW row \in Text, NEW s \in Text, NEW t \in Text, Begins(row, s \o t)
  PROVE  Begins(row, s) /\ Len(s \o t) = Len(s) + Len(t)
         /\ \A i \in 1..Len(t) : row[Len(s) + i] = t[i]
  <1>1. /\ s \in Seq(Token) /\ t \in Seq(Token) /\ Len(s) \in Nat /\ Len(t) \in Nat
        /\ Len(row) \in Nat
      BY TextIs
  <1>2. /\ Len(s \o t) = Len(s) + Len(t)
        /\ \A i \in 1..Len(s) : (s \o t)[i] = s[i]
        /\ \A i \in 1..Len(t) : (s \o t)[Len(s) + i] = t[i]
      BY <1>1, ConcatProperties
  <1>3. \A i \in 1..Len(s) : i \in 1..Len(s \o t)
      BY <1>1, <1>2
  <1>4. \A i \in 1..Len(t) : Len(s) + i \in 1..Len(s \o t)
      BY <1>1, <1>2
  <1>5. /\ \A i \in 1..Len(s) : row[i] = s[i]
        /\ \A i \in 1..Len(t) : row[Len(s) + i] = t[i]
      BY <1>2, <1>3, <1>4 DEF Begins
  <1> QED
      BY <1>1, <1>2, <1>5 DEF Begins

(* What the first k characters of a row leave gathered.                        *)
GatheredAt(row, k) == Columns!Fold(NoColumns, [i \in 1..k |-> <<row, i>>])

(* It is gathered one position at a time.                                      *)
LEMMA GatheredNext ==
  ASSUME NEW row, NEW k \in Nat
  PROVE  /\ GatheredAt(row, 0) = NoColumns
         /\ GatheredAt(row, k + 1) = StepAt(row, k + 1, GatheredAt(row, k))
  <1> DEFINE places(n) == [i \in 1..n |-> <<row, i>>]
             S == {<<row, i>> : i \in Nat}
  <1>1. places(0) = << >>
    <2>1. 1..0 = {}
        OBVIOUS
    <2> QED
        BY <2>1
  <1>2. /\ places(k + 1) = Append(places(k), <<row, k + 1>>)
        /\ places(k) \in Seq(S) /\ <<row, k + 1>> \in S
    <2> DEFINE g == [i \in 1..(k + 1) |-> <<row, i>>]
    <2>1. /\ [i \in 1..k |-> g[i]] = places(k) /\ [i \in 1..(k + 1) |-> g[i]] = places(k + 1)
          /\ g[k + 1] = <<row, k + 1>>
        OBVIOUS
    <2>2. \A i \in 1..(k + 1) : g[i] \in S
        OBVIOUS
    <2>3. k + 1 \in 1..(k + 1)
        OBVIOUS
    <2> HIDE DEF g, S, places
    <2>4. /\ [i \in 1..(k + 1) |-> g[i]] = Append([i \in 1..k |-> g[i]], g[k + 1])
          /\ [i \in 1..k |-> g[i]] \in Seq(S)
        BY <2>2, OneMore
    <2> QED
        BY <2>1, <2>2, <2>3, <2>4
  <1> HIDE DEF S
  <1> HIDE DEF places
  <1>3. Columns!Fold(NoColumns, places(0)) = NoColumns
      BY <1>1, Columns!FoldEmpty
  <1>4. Columns!Fold(NoColumns, places(k + 1))
           = ColumnStep(Columns!Fold(NoColumns, places(k)), <<row, k + 1>>)
      BY <1>1, <1>2, Columns!FoldAppend
  <1> QED
      BY <1>3, <1>4 DEF GatheredAt, places, StepAt

NoQuote(t) == \A i \in 1..Len(t) : t[i] # Quote
NoComma(t) == \A i \in 1..Len(t) : t[i] # Comma

(* A text with one character more.                                             *)
LEMMA BeginsAppend ==
  ASSUME NEW row \in Text, NEW s \in Text, NEW c \in Token, Begins(row, Append(s, c))
  PROVE  /\ Begins(row, s) /\ Len(Append(s, c)) = Len(s) + 1
         /\ Len(s) + 1 \in 1..Len(row) /\ row[Len(s) + 1] = c
  <1>1. s \in Seq(Token) /\ Len(s) \in Nat /\ Len(row) \in Nat
      BY TextIs
  <1>2. /\ Append(s, c) \in Seq(Token) /\ Len(Append(s, c)) = Len(s) + 1
        /\ \A i \in 1..Len(s) : Append(s, c)[i] = s[i]
        /\ Append(s, c)[Len(s) + 1] = c
      BY <1>1, AppendProperties
  <1>3. \A i \in 1..Len(s) : i \in 1..(Len(s) + 1)
      BY <1>1
  <1>4. Len(s) + 1 \in 1..(Len(s) + 1)
      BY <1>1
  <1>5. /\ \A i \in 1..Len(s) : row[i] = s[i]
        /\ row[Len(s) + 1] = c /\ Len(s) + 1 <= Len(row)
      BY <1>2, <1>3, <1>4 DEF Begins
  <1> QED
      BY <1>1, <1>2, <1>5 DEF Begins

(* The next character of a row: a comma outside quotes.                        *)
LEMMA ReadComma ==
  ASSUME NEW row \in Text, NEW s \in Text, Begins(row, Append(s, Comma)),
         NEW cols, NEW col, GatheredAt(row, Len(s)) = Reading("outside", cols, col)
  PROVE  GatheredAt(row, Len(Append(s, Comma)))
            = Reading("outside", Append(cols, Trim(col)), << >>)
  <1>1. Comma \in Token /\ Len(s) \in Nat
      BY CharsDiffer, TextIs
  <1>2. Len(Append(s, Comma)) = Len(s) + 1 /\ row[Len(s) + 1] = Comma
      BY <1>1, BeginsAppend
  <1>3. PICK i : i = Len(s) + 1
      OBVIOUS
  <1>4. GatheredAt(row, i) = StepAt(row, i, Reading("outside", cols, col))
      BY <1>1, <1>3, GatheredNext
  <1>5. row[i] = Comma
      BY <1>2, <1>3
  <1>6. StepAt(row, i, Reading("outside", cols, col))
           = Reading("outside", Append(cols, Trim(col)), << >>)
      BY <1>5, StepComma
  <1> QED
      BY <1>2, <1>3, <1>4, <1>6

(* A quote at an edge, not the first of two, opens or closes the column.       *)
LEMMA ReadQuote ==
  ASSUME NEW row \in Text, NEW s \in Text, Begins(row, Append(s, Quote)),
         NEW cols, NEW col, NEW side,
         GatheredAt(row, Len(s)) = Reading(side, cols, col),
         Len(s) + 1 = Len(row) \/ row[Len(s) + 2] # Quote,
         \/ Len(s) > 0 /\ row[Len(s)] = Comma
         \/ Len(s) + 1 = Len(row)
         \/ Len(s) + 1 < Len(row) /\ row[Len(s) + 2] = Comma
  PROVE  /\ side = "outside" =>
              GatheredAt(row, Len(Append(s, Quote))) = Reading("inside", cols, col)
         /\ side = "inside" =>
              GatheredAt(row, Len(Append(s, Quote))) = Reading("outside", cols, col)
  <1>0. Quote \in Token /\ Len(s) \in Nat /\ Len(row) \in Nat
      BY CharsDiffer, TextIs
  <1>1. PICK i : i = Len(s) + 1
      OBVIOUS
  <1>2. /\ Len(Append(s, Quote)) = i /\ row[i] = Quote /\ i \in 1..Len(row)
        /\ i + 1 = Len(s) + 2 /\ i - 1 = Len(s)
      BY <1>0, <1>1, BeginsAppend
  <1>3. AtEdge(row, i)
    <2>1. \/ i > 1 /\ row[i - 1] = Comma
          \/ i = Len(row)
          \/ i < Len(row) /\ row[i + 1] = Comma
        BY <1>0, <1>1, <1>2
    <2> QED
        BY <1>2, <2>1, EdgeIs
  <1>4. ~Escaped(row, i)
      BY <1>0, <1>1, <1>2 DEF Escaped
  <1>5. GatheredAt(row, i) = StepAt(row, i, Reading(side, cols, col))
      BY <1>0, <1>1, GatheredNext
  <1> QED
      BY <1>2, <1>3, <1>4, <1>5, StepQuote

(* A run of characters without a quote, and without a comma outside quotes,    *)
(* joins the column.                                                           *)
LEMMA ReadRun ==
  ASSUME NEW row \in Text, NEW s \in Text, NEW t \in Text, Begins(row, s \o t),
         NEW cols, NEW col \in Text, NEW side,
         GatheredAt(row, Len(s)) = Reading(side, cols, col),
         NoQuote(t), side = "inside" \/ NoComma(t)
  PROVE  GatheredAt(row, Len(s \o t)) = Reading(side, cols, col \o t)
  <1> DEFINE Fits(x) == Begins(row, s \o x) /\ NoQuote(x) /\ (side = "inside" \/ NoComma(x))
             T == {x \in Text : Fits(x) => GatheredAt(row, Len(s \o x))
                                              = Reading(side, cols, col \o x)}
  <1>1. << >> \in T
    <2>1. s \o << >> = s /\ col \o << >> = col /\ << >> \in Text
        BY TextsJoin
    <2> QED
        BY <2>1
  <1>2. ASSUME NEW x \in T, NEW c \in Token PROVE Append(x, c) \in T
    <2>0. /\ x \in Text /\ x \in Seq(Token) /\ s \in Seq(Token) /\ col \in Seq(Token)
          /\ Len(x) \in Nat
        BY TextIs
    <2>1. /\ s \o Append(x, c) = Append(s \o x, c) /\ col \o Append(x, c) = Append(col \o x, c)
        BY <2>0, Splits!ConcatAppend
    <2>2. Append(x, c) \in Text /\ s \o x \in Text
        BY <2>0, AppendProperties, TextsJoin DEF Text
    <2>3. ASSUME Fits(Append(x, c))
          PROVE  GatheredAt(row, Len(s \o Append(x, c))) = Reading(side, cols, col \o Append(x, c))
      <3>1. /\ Len(Append(x, c)) = Len(x) + 1 /\ \A i \in 1..Len(x) : Append(x, c)[i] = x[i]
            /\ Append(x, c)[Len(x) + 1] = c
          BY <2>0, AppendProperties
      <3>2. (\A i \in 1..Len(x) : i \in 1..(Len(x) + 1)) /\ Len(x) + 1 \in 1..(Len(x) + 1)
          BY <2>0
      <3>3. /\ NoQuote(x) /\ c # Quote
            /\ side = "inside" \/ (NoComma(x) /\ c # Comma)
          BY <2>3, <3>1, <3>2 DEF NoQuote, NoComma
      <3>4. /\ Begins(row, s \o x) /\ Len(s \o Append(x, c)) = Len(s \o x) + 1
            /\ row[Len(s \o x) + 1] = c
        <4>1. Begins(row, Append(s \o x, c)) /\ s \o x \in Text
            BY <2>1, <2>2, <2>3
        <4>2. PICK y \in Text : y = s \o x
            BY <4>1
        <4>3. /\ Begins(row, y) /\ Len(Append(y, c)) = Len(y) + 1
              /\ row[Len(y) + 1] = c
          <5>1. Begins(row, Append(y, c))
              BY <4>1, <4>2
          <5> QED
              BY <5>1, BeginsAppend
        <4> QED
            BY <2>1, <4>2, <4>3
      <3>5. GatheredAt(row, Len(s \o x)) = Reading(side, cols, col \o x)
          BY <1>2, <3>3, <3>4
      <3>6. Len(s \o x) \in Nat
          BY <2>2, TextIs
      <3>7. PICK i : i = Len(s \o x) + 1
          OBVIOUS
      <3>8. row[i] = c /\ row[i] # Quote /\ (side = "inside" \/ row[i] # Comma)
          BY <3>3, <3>4, <3>7
      <3>9. GatheredAt(row, i) = StepAt(row, i, Reading(side, cols, col \o x))
          BY <3>5, <3>6, <3>7, GatheredNext
      <3>10. StepAt(row, i, Reading(side, cols, col \o x))
               = Reading(side, cols, Append(col \o x, c))
          BY <3>8, StepJoins
      <3> QED
          BY <2>1, <3>4, <3>7, <3>9, <3>10
    <2> QED
        BY <2>2, <2>3
  <1> HIDE DEF T
  <1>3. T = Seq(Token)
    <2>1. T \in SUBSET Seq(Token)
        BY DEF T, Text
    <2> QED
        BY <1>1, <1>2, <2>1, Splits!InductionSeq
  <1> QED
      BY <1>3 DEF T, Text

(* A text followed by a quoted column.                                         *)
QuotedAfter(s, u) == Append(Append(s, Quote) \o u, Quote)

(* A quoted column without a quote inside, between two commas or at the end.   *)
LEMMA ReadQuoted ==
  ASSUME NEW row \in Text, NEW s \in Text, NEW u \in Text, u # << >>, NoQuote(u),
         NEW z, z = QuotedAfter(s, u), Begins(row, z),
         NEW cols, GatheredAt(row, Len(s)) = Reading("outside", cols, << >>),
         Len(s) > 0, row[Len(s)] = Comma,
         Len(z) = Len(row) \/ (Len(z) < Len(row) /\ row[Len(z) + 1] = Comma)
  PROVE  GatheredAt(row, Len(z)) = Reading("outside", cols, u)
  <1>0. Quote \in Token /\ Quote # Comma
      BY CharsDiffer
  <1>1. PICK x : x = Append(s, Quote)
      OBVIOUS
  <1>2. PICK y : y = x \o u
      OBVIOUS
  <1>3. x \in Text /\ y \in Text /\ z = Append(y, Quote)
    <2>1. Append(s, Quote) \in Text
        BY <1>0, AppendProperties DEF Text
    <2>2. x \in Text
        BY <1>1, <2>1
    <2>3. y \in Text
        BY <1>2, <2>2, TextsJoin
    <2> QED
        BY <1>1, <1>2, <2>2, <2>3 DEF QuotedAfter
  <1>4. Begins(row, y) /\ Len(z) = Len(y) + 1
      BY <1>0, <1>3, BeginsAppend
  <1>5. Begins(row, x) /\ \A i \in 1..Len(u) : row[Len(x) + i] = u[i]
      BY <1>2, <1>3, <1>4, BeginsShorter
  <1>6. Len(x) = Len(s) + 1
      BY <1>0, <1>1, <1>5, BeginsAppend
  <1>7. Len(s) \in Nat /\ Len(y) \in Nat /\ Len(row) \in Nat
      BY <1>3, TextIs
  <1>8. row[Len(s) + 2] # Quote
    <2>1. 1 \in 1..Len(u)
      <3>1. Len(u) \in Nat /\ Len(u) # 0
          BY TextIs
      <3> QED
          BY <3>1
    <2>2. u[1] # Quote /\ row[Len(x) + 1] = u[1]
        BY <1>5, <2>1 DEF NoQuote, NoComma
    <2>3. Len(x) + 1 = Len(s) + 2
        BY <1>6, <1>7
    <2> QED
        BY <2>2, <2>3
  <1>9. GatheredAt(row, Len(x)) = Reading("inside", cols, << >>)
    <2>1. Begins(row, Append(s, Quote))
        BY <1>1, <1>5
    <2> QED
        BY <1>1, <1>8, <2>1, ReadQuote
  <1>10. GatheredAt(row, Len(y)) = Reading("inside", cols, u)
    <2>1. PICK none \in Text : none = << >>
        BY TextsJoin
    <2>2. Begins(row, x \o u)
        BY <1>2, <1>4
    <2>3. GatheredAt(row, Len(x)) = Reading("inside", cols, none)
        BY <1>9, <2>1
    <2>4. GatheredAt(row, Len(x \o u)) = Reading("inside", cols, none \o u)
        BY <1>3, <2>2, <2>3, ReadRun
    <2>5. none \o u = u
        BY <2>1, TextsJoin
    <2> QED
        BY <1>2, <2>4, <2>5
  <1>12. \/ Len(y) + 1 = Len(row)
         \/ Len(y) + 1 < Len(row) /\ row[Len(y) + 2] = Comma
    <2>1. Len(z) + 1 = Len(y) + 2
        BY <1>4, <1>7
    <2> QED
        BY <1>4, <2>1
  <1>13. /\ Begins(row, Append(y, Quote))
         /\ GatheredAt(row, Len(y)) = Reading("inside", cols, u)
         /\ Len(y) + 1 = Len(row) \/ row[Len(y) + 2] # Quote
      BY <1>0, <1>3, <1>10, <1>12
  <1> QED
      BY <1>3, <1>12, <1>13, ReadQuote

(* One more character or text.                                                 *)
LEMMA TextsAppend ==
  ASSUME NEW s \in Text, NEW c \in Token
  PROVE  Append(s, c) \in Text /\ <<c>> \in Text
  BY AppendProperties DEF Text

(* What a row is parsed into.                                                  *)
LEMMA ParsedIs ==
  ASSUME NEW row \in Text, NEW cols, NEW col,
         GatheredAt(row, Len(row)) = Reading("outside", cols, col)
  PROVE  ParseCols(row).closed /\ ParseCols(row).cols = Append(cols, Trim(col))
  <1> DEFINE end == FoldLeft(ColumnStep, NoColumns, [i \in DOMAIN row |-> <<row, i>>])
  <1>1. DOMAIN row = 1..Len(row)
      BY TextIs
  <1>2. end = Reading("outside", cols, col)
      BY <1>1, ColumnsIs DEF GatheredAt
  <1>3. ParseCols(row) = [closed |-> ~end.inQuotes, cols |-> Append(end.cols, Trim(end.col))]
      BY DEF ParseCols
  <1> HIDE DEF end
  <1>4. end.cols = cols /\ end.col = col
      BY <1>2, Zenon DEF Reading, Gathering
  <1>5. ~end.inQuotes
    <2>1. "outside" # "inside"
        OBVIOUS
    <2> QED
        BY <1>2, <2>1, Zenon DEF Reading, Gathering
  <1>6. ParseCols(row).cols = Append(end.cols, Trim(end.col))
      BY <1>3
  <1>7. ParseCols(row).closed = ~end.inQuotes
    <2>1. \A x, e, c : x = [closed |-> e, cols |-> c] => x.closed = e
        BY SMT
    <2> QED
        BY <1>3, <2>1, Zenon
  <1>8. ParseCols(row).closed
      BY <1>5, <1>7, Zenon
  <1> QED
      BY <1>4, <1>6, <1>8

(* And by a plain one with its comma.                                          *)
PlainAfter(s, t) == Append(s \o t, Comma)

(* What a row that begins with a column begins with.                           *)
LEMMA ColumnTexts ==
  ASSUME NEW s \in Text, NEW t \in Text
  PROVE  PlainAfter(s, t) \in Text /\ QuotedAfter(s, t) \in Text /\ s \o t \in Text
  <1>1. Comma \in Token /\ Quote \in Token
      BY CharsDiffer
  <1>2. s \o t \in Text
      BY TextsJoin
  <1>3. PlainAfter(s, t) \in Text
      BY <1>1, <1>2, TextsAppend DEF PlainAfter
  <1>4. PICK x : x = Append(s, Quote)
      OBVIOUS
  <1>5. x \in Text
      BY <1>1, <1>4, TextsAppend
  <1>6. x \o t \in Text
      BY <1>5, TextsJoin
  <1>7. Append(x \o t, Quote) \in Text
      BY <1>1, <1>6, TextsAppend
  <1> QED
      BY <1>2, <1>3, <1>4, <1>7 DEF QuotedAfter

(* A row that begins with a plain column ends it with a comma there.           *)
LEMMA BeginsPlain ==
  ASSUME NEW row \in Text, NEW s \in Text, NEW t \in Text,
         NEW z, z = PlainAfter(s, t), Begins(row, z)
  PROVE  /\ Begins(row, s \o t) /\ Begins(row, s) /\ Begins(row, Append(s \o t, Comma))
         /\ Len(z) > 0 /\ row[Len(z)] = Comma
  <1>1. Comma \in Token
      BY CharsDiffer
  <1>2. PICK y \in Text : y = s \o t
      BY TextsJoin
  <1>3. Begins(row, Append(y, Comma)) /\ z = Append(y, Comma)
      BY <1>2 DEF PlainAfter
  <1>4. /\ Begins(row, y) /\ Len(Append(y, Comma)) = Len(y) + 1
        /\ row[Len(y) + 1] = Comma
      BY <1>1, <1>3, BeginsAppend
  <1>5. Begins(row, s)
    <2>1. Begins(row, s \o t)
        BY <1>2, <1>4
    <2> QED
        BY <2>1, BeginsShorter
  <1>6. Len(z) > 0 /\ row[Len(z)] = Comma
    <2>1. Len(y) \in Nat /\ Len(z) = Len(y) + 1
        BY <1>2, <1>3, <1>4, TextIs
    <2> QED
        BY <1>4, <2>1
  <1>7. Begins(row, s \o t) /\ Begins(row, Append(s \o t, Comma))
      BY <1>2, <1>3, <1>4
  <1> QED
      BY <1>5, <1>6, <1>7

(* A row that begins with a quoted column begins with what is before it.       *)
LEMMA BeginsQuoted ==
  ASSUME NEW row \in Text, NEW s \in Text, NEW t \in Text, Begins(row, QuotedAfter(s, t))
  PROVE  Begins(row, s)
  <1>1. Quote \in Token
      BY CharsDiffer
  <1>2. PICK x : x = Append(s, Quote)
      OBVIOUS
  <1>3. x \in Text
      BY <1>1, <1>2, TextsAppend
  <1>4. PICK y \in Text : y = x \o t
      BY <1>3, TextsJoin
  <1>5. Begins(row, Append(y, Quote))
      BY <1>2, <1>4 DEF QuotedAfter
  <1>6. Begins(row, y)
      BY <1>1, <1>5, BeginsAppend
  <1>7. Begins(row, x)
    <2>1. Begins(row, x \o t)
        BY <1>4, <1>6
    <2> QED
        BY <1>3, <2>1, BeginsShorter
  <1>8. Begins(row, Append(s, Quote))
      BY <1>2, <1>7
  <1> QED
      BY <1>1, <1>8, BeginsAppend

(* A column without a quote or a comma, and the comma after it.                *)
LEMMA ReadPlain ==
  ASSUME NEW row \in Text, NEW s \in Text, NEW t \in Text,
         NoQuote(t), NoComma(t), NoSpaceAround(t), Begins(row, PlainAfter(s, t)),
         NEW cols, GatheredAt(row, Len(s)) = Reading("outside", cols, << >>)
  PROVE  GatheredAt(row, Len(PlainAfter(s, t))) = Reading("outside", Append(cols, t), << >>)
  <1>1. PICK none \in Text : none = << >>
      BY TextsJoin
  <1>2. Begins(row, s \o t) /\ Begins(row, Append(s \o t, Comma))
      BY BeginsPlain
  <1>3. GatheredAt(row, Len(s)) = Reading("outside", cols, none)
      BY <1>1
  <1>4. GatheredAt(row, Len(s \o t)) = Reading("outside", cols, none \o t)
      BY <1>2, <1>3, ReadRun
  <1>5. none \o t = t
      BY <1>1, TextsJoin
  <1>6. GatheredAt(row, Len(s \o t)) = Reading("outside", cols, t)
      BY <1>4, <1>5
  <1>7. PICK y : y = s \o t
      OBVIOUS
  <1>8. /\ y \in Text /\ Begins(row, Append(y, Comma))
        /\ GatheredAt(row, Len(y)) = Reading("outside", cols, t)
      BY <1>2, <1>6, <1>7, TextsJoin
  <1>9. GatheredAt(row, Len(Append(y, Comma))) = Reading("outside", Append(cols, Trim(t)), << >>)
      BY <1>8, ReadComma
  <1>10. Trim(t) = t
      BY TrimKeeps
  <1> QED
      BY <1>7, <1>9, <1>10 DEF PlainAfter

(* One column more.                                                            *)
LEMMA OneColumnMore ==
  ASSUME NEW cols \in Seq(Text), NEW n \in Nat, Len(cols) = n, NEW col \in Text,
         NEW more, more = Append(cols, col)
  PROVE  /\ more \in Seq(Text) /\ Len(more) = n + 1 /\ more[n + 1] = col
         /\ \A i \in 1..n : more[i] = cols[i]
  BY AppendProperties

(* The output row of a product, its serial number 1, and two joined lists.     *)
OutputRow(name, ins, outs) ==
    QuotedAfter(Append(QuotedAfter(PlainAfter(PlainAfter(<< >>, <<"1">>), name), ins), Comma), outs)

(* A row of buildCSV is read back into its four columns.                       *)
LEMMA ColumnsReadBack ==
  ASSUME NEW name \in Text, NoSpaceAround(name), NoQuote(name), NoComma(name),
         NEW ins \in Text, ins # << >>, NoQuote(ins), NoSpaceAround(ins),
         NEW outs \in Text, outs # << >>, NoQuote(outs), NoSpaceAround(outs)
  PROVE  LET parsed == ParseCols(OutputRow(name, ins, outs))
         IN /\ parsed.closed /\ Len(parsed.cols) = 4
            /\ parsed.cols[2] = name /\ parsed.cols[3] = ins /\ parsed.cols[4] = outs
  <1> DEFINE none == << >>
             one == <<"1">>
             s1 == PlainAfter(none, one)
             s2 == PlainAfter(s1, name)
             s3 == QuotedAfter(s2, ins)
             s4 == Append(s3, Comma)
             row == QuotedAfter(s4, outs)
             c1 == Append(none, one)
             c2 == Append(c1, name)
             c3 == Append(c2, ins)
             c4 == Append(c3, outs)
  <1>0. row = OutputRow(name, ins, outs)
      BY DEF OutputRow
  <1>1. /\ "1" \in Token /\ Comma \in Token /\ "1" # Quote /\ "1" # Comma /\ "1" # Space
      BY CharsDiffer
  <1>2. none \in Text /\ one \in Text
      BY <1>1, TextsAppend, TextsJoin
  <1>3. NoQuote(one) /\ NoComma(one) /\ NoSpaceAround(one)
      BY <1>1 DEF NoQuote, NoComma, NoSpaceAround
  <1>4. Len(none) = 0
      BY EmptySeq
  <1>5. Len(c4) = 4 /\ c4[2] = name /\ c4[3] = ins /\ c4[4] = outs
    <2> HIDE DEF one
    <2>1. none \in Seq(Text)
        BY EmptySeq
    <2>2. c1 \in Seq(Text) /\ Len(c1) = 0 + 1
        BY <1>2, <1>4, <2>1, OneColumnMore
    <2>3. c2 \in Seq(Text) /\ Len(c2) = 1 + 1 /\ c2[1 + 1] = name
      <3> HIDE DEF c1
      <3>1. Len(c1) = 1
          BY <2>2
      <3> QED
          BY <2>2, <3>1, OneColumnMore
    <2>4. c3 \in Seq(Text) /\ Len(c3) = 2 + 1 /\ c3[2 + 1] = ins /\ c3[2] = name
      <3> HIDE DEF c2
      <3>1. Len(c2) = 2 /\ c2[2] = name /\ 2 \in 1..2
          BY <2>3
      <3>2. PICK more : more = Append(c2, ins)
          OBVIOUS
      <3>3. more \in Seq(Text) /\ Len(more) = 2 + 1 /\ more[2 + 1] = ins /\ more[2] = c2[2]
          BY <2>3, <3>1, <3>2, OneColumnMore
      <3> QED
          BY <3>1, <3>2, <3>3
    <2>5. c4 \in Seq(Text) /\ Len(c4) = 3 + 1 /\ c4[3 + 1] = outs /\ c4[3] = ins /\ c4[2] = name
      <3> HIDE DEF c3
      <3>1. Len(c3) = 3 /\ c3[3] = ins /\ c3[2] = name /\ 2 \in 1..3 /\ 3 \in 1..3
          BY <2>4
      <3>2. PICK more : more = Append(c3, outs)
          OBVIOUS
      <3>3. /\ more \in Seq(Text) /\ Len(more) = 3 + 1 /\ more[3 + 1] = outs
            /\ more[3] = c3[3] /\ more[2] = c3[2]
          BY <2>4, <3>1, <3>2, OneColumnMore
      <3> QED
          BY <3>1, <3>2, <3>3
    <2> HIDE DEF c4
    <2> QED
        BY <2>5
  <1> HIDE DEF none, one, c1, c2, c3, c4, s1, s2, s3, s4, row
  <1>6. s1 \in Text /\ s2 \in Text /\ s3 \in Text /\ s4 \in Text /\ row \in Text
    <2>1. s1 \in Text
        BY <1>2, ColumnTexts DEF s1
    <2>2. s2 \in Text
        BY <2>1, ColumnTexts DEF s2
    <2>3. s3 \in Text
        BY <2>2, ColumnTexts DEF s3
    <2>4. s4 \in Text
        BY <1>1, <2>3, TextsAppend DEF s4
    <2> QED
        BY <2>1, <2>2, <2>3, <2>4, ColumnTexts DEF row
  <1>7. Begins(row, row)
    <2>1. Len(row) \in Nat
        BY <1>6, TextIs
    <2> QED
        BY <1>6, <2>1 DEF Begins
  <1>8. Begins(row, s4)
    <2>1. Begins(row, QuotedAfter(s4, outs))
        BY <1>7 DEF row
    <2> QED
        BY <1>6, <2>1, BeginsQuoted
  <1>9. /\ Begins(row, s3) /\ Len(s4) = Len(s3) + 1 /\ Len(s3) + 1 \in 1..Len(row)
        /\ row[Len(s3) + 1] = Comma
    <2>1. Begins(row, Append(s3, Comma))
        BY <1>8 DEF s4
    <2>2. /\ Begins(row, s3) /\ Len(Append(s3, Comma)) = Len(s3) + 1
          /\ Len(s3) + 1 \in 1..Len(row) /\ row[Len(s3) + 1] = Comma
        BY <1>1, <1>6, <2>1, BeginsAppend
    <2> QED
        BY <2>2 DEF s4
  <1>10. Begins(row, s2)
    <2>1. Begins(row, QuotedAfter(s2, ins))
        BY <1>9 DEF s3
    <2> QED
        BY <1>6, <2>1, BeginsQuoted
  <1>11. Begins(row, s1) /\ Len(s2) > 0 /\ row[Len(s2)] = Comma
    <2>1. s2 = PlainAfter(s1, name)
        BY DEF s2
    <2> QED
        BY <1>6, <1>10, <2>1, BeginsPlain
  <1>12. GatheredAt(row, Len(none)) = Reading("outside", none, none)
    <2>1. 0 \in Nat
        OBVIOUS
    <2>2. GatheredAt(row, 0) = NoColumns
        BY <2>1, GatheredNext
    <2> QED
        BY <1>4, <2>2, NoColumnsIs DEF none
  <1>13. GatheredAt(row, Len(s1)) = Reading("outside", c1, none)
    <2>1. Begins(row, PlainAfter(none, one))
        BY <1>11 DEF s1
    <2>3. GatheredAt(row, Len(none)) = Reading("outside", none, << >>)
        BY <1>12 DEF none
    <2>2. GatheredAt(row, Len(PlainAfter(none, one))) = Reading("outside", Append(none, one), << >>)
        BY <1>2, <1>3, <1>6, <2>1, <2>3, ReadPlain
    <2> QED
        BY <2>2 DEF s1, c1, none
  <1>14. GatheredAt(row, Len(s2)) = Reading("outside", c2, none)
    <2>1. Begins(row, PlainAfter(s1, name))
        BY <1>10 DEF s2
    <2>2. GatheredAt(row, Len(PlainAfter(s1, name))) = Reading("outside", Append(c1, name), << >>)
        BY <1>6, <1>13, <2>1, ReadPlain DEF none
    <2> QED
        BY <2>2 DEF s2, c2, none
  <1>15. GatheredAt(row, Len(s3)) = Reading("outside", c2, ins)
    <2>1. Len(s3) < Len(row) /\ row[Len(s3) + 1] = Comma
      <3>1. Len(s3) \in Nat /\ Len(row) \in Nat
          BY <1>6, TextIs
      <3> QED
          BY <1>9, <3>1
    <2>2. s3 = QuotedAfter(s2, ins)
        BY DEF s3
    <2> QED
        BY <1>6, <1>9, <1>11, <1>14, <2>1, <2>2, ReadQuoted DEF none
  <1>16. GatheredAt(row, Len(s4)) = Reading("outside", c3, none)
    <2>1. Trim(ins) = ins
        BY TrimKeeps
    <2>2. Begins(row, Append(s3, Comma))
        BY <1>8 DEF s4
    <2>3. GatheredAt(row, Len(Append(s3, Comma))) = Reading("outside", Append(c2, Trim(ins)), << >>)
        BY <1>6, <1>15, <2>2, ReadComma
    <2> QED
        BY <2>1, <2>3 DEF s4, c3, none
  <1>17. GatheredAt(row, Len(row)) = Reading("outside", c3, outs)
    <2>1. Len(s4) > 0 /\ row[Len(s4)] = Comma
      <3>1. Len(s3) \in Nat
          BY <1>6, TextIs
      <3> QED
          BY <1>9, <3>1
    <2>2. row = QuotedAfter(s4, outs)
        BY DEF row
    <2> QED
        BY <1>6, <1>7, <1>16, <2>1, <2>2, ReadQuoted DEF none
  <1>18. Trim(outs) = outs
      BY TrimKeeps
  <1>19. ParseCols(row).closed /\ ParseCols(row).cols = c4
    <2>1. ParseCols(row).closed /\ ParseCols(row).cols = Append(c3, Trim(outs))
        BY <1>6, <1>17, ParsedIs
    <2> QED
        BY <1>18, <2>1 DEF c4
  <1> QED
      BY <1>0, <1>5, <1>19

-------------------------------------------------------------------------------
(* Joined urls                                                                 *)

(* The splitting at commas is a fold.                                          *)
LEMMA CommasIs == \A t : SplitAtCommas(t) = Commas!Fold(<< << >> >>, t)
  BY DEF SplitAtCommas, Commas!Fold, FoldLeft, MapThenFoldSet, Max,
         Commas!FoldLeft, Commas!MapThenFoldSet, Commas!Max

(* And so is the joining.                                                      *)
LEMMA JoinsIs == \A q : JoinWithCommas(q) = Joins!Fold(<< >>, q)
  BY DEF JoinWithCommas, Joins!Fold, FoldLeft, MapThenFoldSet, Max,
         Joins!FoldLeft, Joins!MapThenFoldSet, Joins!Max

(* A character joins the last piece, a comma begins another.                   *)
LEMMA CommaStepIs ==
  ASSUME NEW acc \in Seq(Text), NEW x \in Text, NEW c \in Token
  PROVE  CommaStep(Append(acc, x), c)
            = IF c = Comma THEN Append(Append(acc, x), << >>) ELSE Append(acc, Append(x, c))
  <1> DEFINE long == Append(acc, x)
             n == Len(acc) + 1
             other == Append(acc, Append(x, c))
  <1>1. CASE c = Comma
      BY <1>1 DEF CommaStep
  <1>2. CASE c # Comma
    <2>1. Append(x, c) \in Text
        BY TextsAppend
    <2>2. /\ Len(acc) \in Nat /\ Len(long) = n /\ Len(other) = n
          /\ long \in Seq(Text) /\ other \in Seq(Text)
          /\ \A i \in 1..Len(acc) : long[i] = acc[i] /\ other[i] = acc[i]
          /\ long[n] = x /\ other[n] = Append(x, c)
        BY <2>1, AppendProperties, LenProperties
    <2> DEFINE v == Append(x, c)
               new == [long EXCEPT ![n] = v]
    <2>3. n \in 1..Len(long)
        BY <2>2
    <2>4. CommaStep(long, c) = new
        BY <1>2, <2>2 DEF CommaStep
    <2> HIDE DEF v, n, long, other
    <2>5. /\ new \in Seq(Text) /\ Len(new) = Len(long)
          /\ \A i \in 1..Len(long) : new[i] = IF i = n THEN v ELSE long[i]
        BY <2>1, <2>2, <2>3, ExceptSeq DEF v
    <2>6. ASSUME NEW i \in 1..Len(long) PROVE new[i] = other[i]
      <3>1. i = n \/ (i # n /\ i \in 1..Len(acc))
          BY <2>2 DEF n
      <3> QED
          BY <2>2, <2>5, <3>1 DEF v
    <2> HIDE DEF new
    <2>7. new = other
        BY <2>2, <2>5, <2>6, SeqEqual
    <2> QED
        BY <1>2, <2>4, <2>7 DEF other, long, v
  <1> QED
      BY <1>1, <1>2

(* The characters of urls, and of lists of them.                               *)
UrlToken == Token \ {Space, Comma, Quote}
ListToken == Token \ {Space, Quote}

(* A run of characters without a comma is one piece.                           *)
LEMMA CommaRun ==
  ASSUME NEW acc \in Seq(Text), NEW u \in Seq(UrlToken)
  PROVE  Commas!Fold(Append(acc, << >>), u) = Append(acc, u)
  <1> DEFINE T == {t \in Seq(UrlToken) : Commas!Fold(Append(acc, << >>), t) = Append(acc, t)}
  <1>1. << >> \in T
      BY EmptySeq, Commas!FoldEmpty
  <1>2. ASSUME NEW t \in T, NEW c \in UrlToken PROVE Append(t, c) \in T
    <2>1. c \in Token /\ c # Comma
        BY DEF UrlToken
    <2>2. t \in Seq(UrlToken) /\ Commas!Fold(Append(acc, << >>), t) = Append(acc, t)
        BY <1>2
    <2>3. t \in Text
      <3>1. UrlToken \subseteq Token
          BY DEF UrlToken
      <3> QED
          BY <2>2, <3>1 DEF Text
    <2>4. Commas!Fold(Append(acc, << >>), Append(t, c)) = CommaStep(Append(acc, t), c)
        BY <2>2, Commas!FoldAppend
    <2>5. CommaStep(Append(acc, t), c) = Append(acc, Append(t, c))
        BY <2>1, <2>3, CommaStepIs
    <2>6. Append(t, c) \in Seq(UrlToken)
        BY <2>2, AppendProperties
    <2> QED
        BY <2>4, <2>5, <2>6
  <1> HIDE DEF T
  <1>3. T = Seq(UrlToken)
    <2>1. T \in SUBSET Seq(UrlToken)
        BY DEF T
    <2> QED
        BY <1>1, <1>2, <2>1, Commas!InductionSeq
  <1> QED
      BY <1>3 DEF T

(* Urls joined with commas are split to the same urls.                         *)
LEMMA JoinedSplit ==
  ASSUME NEW q \in Seq(Seq(UrlToken) \ {<< >>}), q # << >>
  PROVE  /\ JoinWithCommas(q) \in Seq(ListToken) /\ JoinWithCommas(q) # << >>
         /\ SplitAtCommas(JoinWithCommas(q)) = q
  <1> DEFINE S == Seq(UrlToken) \ {<< >>}
             J(p) == Joins!Fold(<< >>, p)
             T == {p \in Seq(S) : p # << >> =>
                      /\ J(p) \in Seq(ListToken) /\ J(p) # << >>
                      /\ Commas!Fold(<< << >> >>, J(p)) = p}
  <1>0. UrlToken \subseteq ListToken /\ ListToken \subseteq Token /\ Comma \in ListToken
      BY CharsDiffer DEF UrlToken, ListToken
  <1>1. << >> \in T
      BY EmptySeq
  <1>2. ASSUME NEW p \in T, NEW u \in S PROVE Append(p, u) \in T
    <2>1. p \in Seq(S) /\ u \in Seq(UrlToken) /\ u # << >> /\ Append(p, u) \in Seq(S)
        BY <1>2, AppendProperties
    <2>2. J(Append(p, u)) = JoinStep(J(p), u)
        BY <2>1, Joins!FoldAppend
    <2>3. u \in Seq(ListToken) /\ u \in Text
      <3>1. \A A, B : A \subseteq B => Seq(A) \subseteq Seq(B)
          OBVIOUS
      <3> QED
          BY <1>0, <2>1, <3>1 DEF Text
    <2>4. p \in Seq(Text)
      <3>1. S \subseteq Text
          BY <1>0 DEF Text
      <3> QED
          BY <2>1, <3>1
    <2> HIDE DEF S
    <2>5. CASE p = << >>
      <3>1. J(p) = << >>
          BY <2>5, Joins!FoldEmpty
      <3>2. J(Append(p, u)) = u
          BY <2>2, <3>1 DEF JoinStep
      <3>3. Commas!Fold(Append(p, << >>), u) = Append(p, u)
          BY <2>1, <2>4, CommaRun
      <3>4. Append(p, << >>) = << << >> >>
          BY <2>5
      <3> HIDE DEF J
      <3> QED
          BY <2>1, <2>3, <3>2, <3>3, <3>4
    <2>6. CASE p # << >>
      <3>1. J(p) \in Seq(ListToken) /\ J(p) # << >> /\ Commas!Fold(<< << >> >>, J(p)) = p
          BY <1>2, <2>6
      <3> DEFINE x == Append(J(p), Comma)
      <3>2. J(Append(p, u)) = x \o u
        <4>1. J(Append(p, u)) = J(p) \o <<Comma>> \o u
            BY <2>2, <3>1 DEF JoinStep
        <4>2. J(p) \o <<Comma>> = x
            BY <1>0, <3>1
        <4> QED
            BY <4>1, <4>2
      <3>3. x \in Seq(ListToken) /\ x # << >>
        <4>1. PICK j : j = J(p)
            OBVIOUS
        <4> HIDE DEF J, T
        <4>2. j \in Seq(ListToken) /\ Comma \in ListToken
            BY <1>0, <3>1, <4>1, Zenon
        <4>3. Append(j, Comma) \in Seq(ListToken) /\ Append(j, Comma) # << >>
            BY <4>2, AppendProperties
        <4> QED
            BY <4>1, <4>3, Zenon
      <3>4. x \o u \in Seq(ListToken) /\ x \o u # << >>
        <4> HIDE DEF x, J, T
        <4>1. x \in Seq(ListToken) /\ u \in Seq(ListToken) /\ Len(x) # 0
            BY <2>3, <3>3, EmptySeq
        <4>2. x \o u \in Seq(ListToken) /\ Len(x \o u) = Len(x) + Len(u)
            BY <4>1, ConcatProperties, Zenon
        <4>3. Len(x) \in Nat /\ Len(u) \in Nat
            BY <4>1, LenProperties
        <4>4. Len(x \o u) # 0
            BY <4>1, <4>2, <4>3
        <4> QED
            BY <4>2, <4>4, EmptySeq
      <3>5. Commas!Fold(<< << >> >>, x) = Append(p, << >>)
        <4>1. Commas!Fold(<< << >> >>, x) = CommaStep(p, Comma)
            BY <1>0, <3>1, Commas!FoldAppend
        <4> QED
            BY <4>1 DEF CommaStep
      <3>6. Commas!Fold(<< << >> >>, x \o u) = Commas!Fold(Commas!Fold(<< << >> >>, x), u)
          BY <2>3, <3>3, Commas!FoldConcat
      <3>7. Commas!Fold(Append(p, << >>), u) = Append(p, u)
          BY <2>1, <2>4, CommaRun
      <3> HIDE DEF x, J
      <3>8. Commas!Fold(<< << >> >>, x \o u) = Append(p, u)
          BY <3>5, <3>6, <3>7
      <3> QED
          BY <2>1, <3>2, <3>4, <3>8
    <2> QED
        BY <2>5, <2>6
  <1> HIDE DEF T
  <1>3. T = Seq(S)
    <2>1. T \in SUBSET Seq(S)
        BY DEF T
    <2> QED
        BY <1>1, <1>2, <2>1, Joins!InductionSeq
  <1>4. q \in T
      BY <1>3
  <1> QED
      BY <1>4, CommasIs, JoinsIs DEF T

(* The row buildCSV writes.                                                    *)
QuotedText(u) == <<Quote>> \o u \o <<Quote>>

(* Joining a text of one character is appending it.                            *)
LEMMA JoinOne ==
  ASSUME NEW s \in Text, NEW c \in Token
  PROVE  s \o <<c>> = Append(s, c)
  <1>1. s \in Seq(Token)
      BY DEF Text
  <1> QED
      BY <1>1

(* And joining a quoted text is appending a quote, the text and a quote.       *)
LEMMA JoinQuoted ==
  ASSUME NEW s \in Text, NEW u \in Text
  PROVE  s \o QuotedText(u) = QuotedAfter(s, u)
  <1>1. Quote \in Token
      BY CharsDiffer
  <1> DEFINE q == <<Quote>>
  <1>2. q \in Seq(Token) /\ s \in Seq(Token) /\ u \in Seq(Token)
      BY <1>1, TextsAppend DEF Text
  <1> HIDE DEF q
  <1>3. s \o ((q \o u) \o q) = ((s \o q) \o u) \o q
    <2>1. q \o u \in Seq(Token) /\ s \o q \in Seq(Token)
        BY <1>2, ConcatProperties
    <2>2. s \o ((q \o u) \o q) = (s \o (q \o u)) \o q
      <3>1. PICK x : x = q \o u
          OBVIOUS
      <3>2. x \in Seq(Token)
          BY <2>1, <3>1, Zenon
      <3>3. s \o (x \o q) = (s \o x) \o q
          BY <1>2, <3>2, ConcatAssociative
      <3> QED
          BY <3>1, <3>3, Zenon
    <2>3. s \o (q \o u) = (s \o q) \o u
        BY <1>2, ConcatAssociative
    <2> QED
        BY <2>2, <2>3, Zenon
  <1>4. s \o q = Append(s, Quote)
      BY <1>1, JoinOne DEF q
  <1>5. PICK x : x = s \o q
      OBVIOUS
  <1>6. x \in Text
      BY <1>1, <1>4, <1>5, TextsAppend
  <1>7. PICK y : y = x \o u
      OBVIOUS
  <1>8. y \in Text
      BY <1>6, <1>7, TextsJoin
  <1>9. y \o q = Append(y, Quote)
      BY <1>1, <1>8, JoinOne DEF q
  <1>10. QuotedAfter(s, u) = Append(y, Quote)
      BY <1>4, <1>5, <1>7, Zenon DEF QuotedAfter
  <1>11. QuotedText(u) = (q \o u) \o q
      BY DEF QuotedText, q
  <1> QED
      BY <1>3, <1>5, <1>7, <1>9, <1>10, <1>11, Zenon

(* The row buildCSV writes is the output row of the joined urls.               *)
LEMMA BuiltRow ==
  ASSUME NEW name \in Text, NEW urls, JoinWithCommas(urls) \in Text
  PROVE  BuildRow("1", name, urls, urls)
            = OutputRow(name, JoinWithCommas(urls), JoinWithCommas(urls))
  <1>1. PICK j \in Text : j = JoinWithCommas(urls)
      OBVIOUS
  <1> DEFINE none == << >>
             one == <<"1">>
             s1 == PlainAfter(none, one)
             s2 == PlainAfter(s1, name)
             s3 == QuotedAfter(s2, j)
             s4 == Append(s3, Comma)
             row == QuotedAfter(s4, j)
             comma == <<Comma>>
  <1>2. Comma \in Token /\ "1" \in Token
      BY CharsDiffer
  <1>3. none \in Text /\ one \in Text
      BY <1>2, TextsAppend, TextsJoin
  <1>4. <<"1", Comma>> = s1
      BY DEF PlainAfter
  <1> HIDE DEF none, one
  <1>5. s1 \in Text /\ s2 \in Text /\ s3 \in Text /\ s4 \in Text
    <2>1. s1 \in Text
        BY <1>3, ColumnTexts
    <2> HIDE DEF s1
    <2>2. s2 \in Text
        BY <2>1, ColumnTexts
    <2> HIDE DEF s2
    <2>3. s3 \in Text
        BY <2>2, ColumnTexts
    <2> HIDE DEF s3
    <2>4. s4 \in Text
        BY <1>2, <2>3, TextsAppend
    <2> QED
        BY <2>1, <2>2, <2>3, <2>4
  <1> HIDE DEF s1
  <1>6. (s1 \o name) \o comma = s2
    <2>1. PICK y : y = s1 \o name
        OBVIOUS
    <2>2. y \in Text
        BY <1>5, <2>1, TextsJoin
    <2>3. y \o comma = Append(y, Comma)
        BY <1>2, <2>2, JoinOne
    <2> HIDE DEF comma
    <2> QED
        BY <2>1, <2>3, Zenon DEF PlainAfter
  <1> HIDE DEF s2
  <1>7. s2 \o QuotedText(j) = s3
      BY <1>5, JoinQuoted
  <1> HIDE DEF s3
  <1>8. s3 \o comma = s4
      BY <1>2, <1>5, JoinOne
  <1> HIDE DEF s4
  <1>9. s4 \o QuotedText(j) = row
      BY <1>5, JoinQuoted
  <1> HIDE DEF row
  <1>10. BuildRow("1", name, urls, urls)
            = ((((<<"1", Comma>> \o name) \o comma) \o QuotedText(j)) \o comma) \o QuotedText(j)
      BY <1>1, Zenon DEF BuildRow, QuotedText, comma
  <1>11. OutputRow(name, j, j) = row
      BY Zenon DEF OutputRow, row, s4, s3, s2, s1, none, one
  <1> HIDE DEF comma
  <1>12. BuildRow("1", name, urls, urls) = row
      BY <1>4, <1>6, <1>7, <1>8, <1>9, <1>10, Zenon
  <1> QED
      BY <1>1, <1>11, <1>12, Zenon

-------------------------------------------------------------------------------
(* What the parser accepts                                                     *)

(* Texts and columns as the parser leaves them.                                *)
Trimmed == {t \in Text : NoSpaceAround(t)}
ColumnsRead == [cols : Seq(Trimmed), col : Text, inQuotes : BOOLEAN, skip : BOOLEAN]

(* Whatever the position, what was gathered keeps its type.                    *)
LEMMA ColumnStepType ==
  ASSUME NEW acc \in ColumnsRead, NEW row \in Text, NEW i \in 1..Len(row)
  PROVE  ColumnStep(acc, <<row, i>>) \in ColumnsRead
  <1>1. /\ acc.cols \in Seq(Trimmed) /\ acc.col \in Text
        /\ acc.inQuotes \in BOOLEAN /\ acc.skip \in BOOLEAN
      BY DEF ColumnsRead
  <1>2. ASSUME NEW cols \in Seq(Trimmed), NEW col \in Text, NEW q \in BOOLEAN, NEW s \in BOOLEAN
        PROVE  Gathering(cols, col, q, s) \in ColumnsRead
      BY Zenon DEF Gathering, ColumnsRead
  <1>3. <<row, i>>[1] = row /\ <<row, i>>[2] = i
      OBVIOUS
  <1>4. Append(acc.col, Quote) \in Text /\ Append(acc.col, row[i]) \in Text /\ << >> \in Text
    <2>1. Quote \in Token /\ row[i] \in Token
        BY CharsDiffer, TextIs
    <2> QED
        BY <1>1, <2>1, TextsAppend, TextsJoin
  <1>5. Append(acc.cols, Trim(acc.col)) \in Seq(Trimmed)
    <2>1. Trim(acc.col) \in Trimmed
        BY <1>1, TrimTrims DEF Trimmed
    <2> QED
        BY <1>1, <2>1, AppendProperties
  <1>6. FALSE \in BOOLEAN /\ TRUE \in BOOLEAN /\ (~acc.inQuotes) \in BOOLEAN
      BY Zenon
  <1> QED
      BY <1>1, <1>2, <1>3, <1>4, <1>5, <1>6, Zenon DEF ColumnStep

(* The columns of a row are trimmed texts.                                     *)
LEMMA ColumnsType ==
  ASSUME NEW row \in Text
  PROVE  ParseCols(row).cols \in Seq(Trimmed)
  <1> DEFINE places == [i \in DOMAIN row |-> <<row, i>>]
             end == FoldLeft(ColumnStep, NoColumns, places)
             S == {<<row, i>> : i \in 1..Len(row)}
  <1>1. DOMAIN row = 1..Len(row) /\ Len(row) \in Nat
      BY TextIs
  <1>2. places \in Seq(S)
      BY <1>1
  <1>3. NoColumns \in ColumnsRead
    <2>1. << >> \in Seq(Trimmed) /\ << >> \in Text /\ FALSE \in BOOLEAN
        BY EmptySeq, TextsJoin
    <2> QED
        BY <2>1, Zenon DEF NoColumns, Gathering, ColumnsRead
  <1>4. \A x \in ColumnsRead : \A e \in S : ColumnStep(x, e) \in ColumnsRead
      BY ColumnStepType
  <1>5. ParseCols(row).cols = Append(end.cols, Trim(end.col))
      BY DEF ParseCols
  <1> HIDE DEF places, S
  <1>6. end \in ColumnsRead
    <2>1. end = Columns!Fold(NoColumns, places)
        BY ColumnsIs
    <2> HIDE DEF end
    <2>2. Columns!Fold(NoColumns, places) \in ColumnsRead
        BY <1>2, <1>3, <1>4, Columns!FoldKeeps
    <2> QED
        BY <2>1, <2>2
  <1> HIDE DEF end
  <1>7. end.cols \in Seq(Trimmed) /\ Trim(end.col) \in Trimmed
      BY <1>6, TrimTrims DEF ColumnsRead, Trimmed
  <1> QED
      BY <1>5, <1>7, AppendProperties

(* There is at least one piece between commas, and all are texts.              *)
LEMMA PiecesType ==
  ASSUME NEW t \in Text
  PROVE  SplitAtCommas(t) \in Seq(Text) \ {<< >>}
  <1> DEFINE I == Seq(Text) \ {<< >>}
  <1>1. << << >> >> \in I
    <2>1. << >> \in Text
        BY TextsJoin
    <2> QED
        BY <2>1
  <1>2. ASSUME NEW acc \in I, NEW c \in Token PROVE CommaStep(acc, c) \in I
    <2>1. PICK r \in Seq(Text), x \in Text : acc = Append(r, x)
        BY SequenceEmptyOrAppend
    <2>2. << >> \in Text /\ Append(x, c) \in Text
        BY TextsJoin, TextsAppend
    <2>3. /\ Append(Append(r, x), << >>) \in I /\ Append(r, Append(x, c)) \in I
        BY <2>2, AppendProperties
    <2>4. CommaStep(acc, c) = IF c = Comma THEN Append(Append(r, x), << >>) ELSE Append(r, Append(x, c))
        BY <2>1, CommaStepIs
    <2> HIDE DEF I
    <2> QED
        BY <2>3, <2>4
  <1> HIDE DEF I
  <1>3. t \in Seq(Token)
      BY DEF Text
  <1>4. Commas!Fold(<< << >> >>, t) \in I
      BY <1>1, <1>2, <1>3, Commas!FoldKeeps
  <1> QED
      BY <1>4, CommasIs DEF I

UrlLists == Seq(UrlTexts) \ {<< >>}

(* The products the parser keeps: trimmed names, and at least one url each.    *)
Sound(data) == \A n \in DOMAIN data : n \in Trimmed /\ data[n] \in UrlLists

(* A valid row has such a product.                                             *)
LEMMA ProductSound ==
  ASSUME NEW cols \in Seq(Trimmed), ValidProduct(cols)
  PROVE  LET product == ProductFromRow(cols)
         IN product.name \in Trimmed /\ product.urls \in UrlLists
  <1> DEFINE pieces == SplitAtCommas(cols[3])
             product == ProductFromRow(cols)
  <1>1. Len(cols) = 3 /\ \A i \in DOMAIN product.urls : product.urls[i] \in UrlTexts
      BY UrlAssumption DEF ValidProduct
  <1>2. cols[2] \in Trimmed /\ cols[3] \in Text
    <2>1. 2 \in 1..Len(cols) /\ 3 \in 1..Len(cols)
        BY <1>1
    <2> QED
        BY <2>1, ElementOfSeq DEF Trimmed
  <1>3. pieces \in Seq(Text) /\ pieces # << >>
      BY <1>2, PiecesType
  <1>4. product.name = cols[2] /\ product.urls = [i \in DOMAIN pieces |-> Trim(pieces[i])]
      BY DEF ProductFromRow
  <1> HIDE DEF pieces, product
  <1>5. Len(pieces) \in Nat /\ Len(pieces) # 0 /\ DOMAIN pieces = 1..Len(pieces)
      BY <1>3, LenProperties, EmptySeq
  <1>6. product.urls = [i \in 1..Len(pieces) |-> product.urls[i]]
      BY <1>4, <1>5
  <1>7. \A i \in 1..Len(pieces) : product.urls[i] \in UrlTexts
      BY <1>1, <1>4, <1>5
  <1>8. product.urls \in Seq(UrlTexts) /\ Len(product.urls) = Len(pieces)
    <2> DEFINE m == Len(pieces)
               f(i) == product.urls[i]
    <2> HIDE DEF m, f
    <2>1. m \in Nat /\ \A i \in 1..m : f(i) \in UrlTexts
        BY <1>5, <1>7 DEF m, f
    <2>2. [i \in 1..m |-> f(i)] \in Seq(UrlTexts) /\ Len([i \in 1..m |-> f(i)]) = m
        BY <2>1
    <2> QED
        BY <1>6, <2>2 DEF m, f
  <1> QED
      BY <1>2, <1>4, <1>5, <1>8, EmptySeq DEF UrlLists, product

(* Merging one more product keeps them so.                                     *)
LEMMA MergedSound ==
  ASSUME NEW data, Sound(data), NEW product,
         product.name \in Trimmed, product.urls \in UrlLists
  PROVE  Sound(MergeProductsData(data, product))
  <1> DEFINE new == MergeProductsData(data, product)
  <1>1. new = [n \in DOMAIN data \cup {product.name} |->
                 IF n # product.name THEN data[n]
                 ELSE IF n \in DOMAIN data THEN Distinct(data[n] \o product.urls)
                 ELSE product.urls]
      BY DEF MergeProductsData
  <1> HIDE DEF new
  <1> SUFFICES ASSUME NEW n \in DOMAIN new PROVE n \in Trimmed /\ new[n] \in UrlLists
      BY DEF Sound, new
  <1>2. n \in DOMAIN data \cup {product.name}
      BY <1>1
  <1>3. CASE n # product.name
      BY <1>1, <1>2, <1>3 DEF Sound
  <1>4. CASE n = product.name /\ n \notin DOMAIN data
      BY <1>1, <1>2, <1>4
  <1>5. CASE n = product.name /\ n \in DOMAIN data
    <2> DEFINE both == data[n] \o product.urls
    <2>1. data[n] \in Seq(UrlTexts) /\ product.urls \in Seq(UrlTexts) /\ product.urls # << >>
        BY <1>5 DEF Sound, UrlLists
    <2>2. both \in Seq(UrlTexts) /\ ToSet(both) = ToSet(data[n]) \cup ToSet(product.urls)
        BY <2>1, ConcatProperties, JoinedSet
    <2>3. Distinct(both) \in Seq(UrlTexts) /\ ToSet(Distinct(both)) = ToSet(both)
        BY <2>2, DistinctIs
    <2>4. ToSet(product.urls) # {}
      <3>1. 1 \in DOMAIN product.urls
          BY <2>1, LenProperties, EmptySeq
      <3> QED
          BY <3>1 DEF ToSet
    <2>5. Distinct(both) # << >>
      <3>1. ToSet(Distinct(both)) # {}
          BY <2>2, <2>3, <2>4
      <3>2. ToSet(<< >>) = {}
          BY DEF ToSet
      <3> QED
          BY <3>1, <3>2
    <2>6. new[n] = Distinct(both)
        BY <1>1, <1>5
    <2> HIDE DEF both
    <2> QED
        BY <1>5, <2>3, <2>5, <2>6 DEF UrlLists
  <1> QED
      BY <1>2, <1>3, <1>4, <1>5

SoundState(st) == IsState(st) /\ (st.ok => Sound(st.products))

(* A row keeps the products so.                                                *)
LEMMA RowSound ==
  ASSUME NEW st, SoundState(st), NEW row \in Text
  PROVE  SoundState(ReadRow(st, row))
  <1> DEFINE new == ReadRow(st, row)
             cols == ParseCols(row).cols
  <1>0. IsState(st)
      BY DEF SoundState
  <1>1. IsState(new)
      BY <1>0, ReadRowIs
  <1>2. CASE ~st.ok
    <2>1. new = st
        BY <1>0, <1>2, ReadRowIs
    <2> QED
        BY <2>1
  <1>3. CASE st.ok /\ ~st.header
    <2>1. new.products = st.products
        BY <1>0, <1>3, ReadRowIs
    <2> QED
        BY <1>1, <1>3, <2>1 DEF SoundState
  <1>4. CASE st.ok /\ st.header /\ IsEmptyRow(cols)
    <2>1. new = st \/ ~new.ok \/ ~IsEmptyRow(cols)
        BY <1>0, <1>4, ReadRowIs
    <2>2. CASE new = st
        BY <2>2
    <2>3. CASE ~new.ok
        BY <1>1, <2>3 DEF SoundState
    <2> QED
        BY <1>4, <2>1, <2>2, <2>3
  <1>5. CASE st.ok /\ st.header /\ ~IsEmptyRow(cols)
    <2>1. SUFFICES ASSUME new.ok PROVE Sound(new.products)
        BY <1>1 DEF SoundState
    <2>2. ValidProduct(cols)
        BY <1>0, <1>5, <2>1, ReadRowIs
    <2>3. new.products = MergeProductsData(st.products, ProductFromRow(cols))
        BY <1>0, <1>5, <2>1, ReadRowIs
    <2>4. cols \in Seq(Trimmed)
        BY ColumnsType
    <2>5. Sound(st.products)
        BY <1>5 DEF SoundState
    <2> HIDE DEF cols
    <2> QED
        BY <2>2, <2>3, <2>4, <2>5, ProductSound, MergedSound
  <1> QED
      BY <1>2, <1>3, <1>4, <1>5

(* And so do any rows.                                                         *)
LEMMA RowsSound ==
  ASSUME NEW st, SoundState(st), NEW rows \in Seq(Text)
  PROVE  SoundState(Rows!Fold(st, rows))
  <1> DEFINE T == {q \in Seq(Text) : SoundState(Rows!Fold(st, q))}
  <1>1. << >> \in T
      BY EmptySeq, Rows!FoldEmpty
  <1>2. ASSUME NEW q \in T, NEW row \in Text PROVE Append(q, row) \in T
    <2>1. Rows!Fold(st, Append(q, row)) = ReadRow(Rows!Fold(st, q), row)
        BY Rows!FoldAppend
    <2>2. SoundState(ReadRow(Rows!Fold(st, q), row))
        BY <1>2, RowSound
    <2>3. Append(q, row) \in Seq(Text)
        BY AppendProperties
    <2> QED
        BY <2>1, <2>2, <2>3
  <1> HIDE DEF T
  <1>3. T = Seq(Text)
    <2>1. T \in SUBSET Seq(Text)
        BY DEF T
    <2> QED
        BY <1>1, <1>2, <2>1, Rows!InductionSeq
  <1> QED
      BY <1>3 DEF T

(* The invariant: what is kept is sound, unless the file is rejected.          *)
Kept == outcome # "rejected" => Sound(products)

(* Every step keeps the products so.                                           *)
LEMMA KeptStep ==
  ASSUME Typed, Kept, [Next]_vars
  PROVE  Kept'
  <1>0. /\ lines \in Seq(Lines) /\ pos \in 0..Len(bytes) /\ headerRow \in BOOLEAN
        /\ bytes \in Text /\ partialRow \in Text /\ Len(bytes) \in Nat
      BY LenProperties DEF Typed, TypeOK, Text
  <1>1. ASSUME outcome = "reading" PROVE SoundState(Current)
    <2>1. Sound(products)
        BY <1>1 DEF Kept
    <2> QED
        BY <1>0, <2>1, CurrentIs DEF SoundState
  <1>2. ASSUME NEW st, SoundState(st), NEW accepted, Become(st, accepted) PROVE Kept'
    <2>1. products' = st.products /\ (st.ok => Sound(st.products))
        BY <1>2 DEF Become, SoundState
    <2>2. ~st.ok => outcome' = "rejected"
        BY <1>2 DEF Become
    <2>3. Kept' <=> (outcome' # "rejected" => Sound(products'))
        BY DEF Kept, Sound
    <2> QED
        BY <2>1, <2>2, <2>3
  <1>3. CASE ReadChunk
    <2>1. PICK to \in (pos + 1)..Len(bytes) :
             LET split == SplitRows(partialRow \o Decode(SubSeq(bytes, pos + 1, to)))
             IN Become(FoldLeft(ReadRow, Current, split.rows), "reading")
        BY <1>3 DEF ReadChunk
    <2> DEFINE chunk == SubSeq(bytes, pos + 1, to)
               split == SplitRows(partialRow \o Decode(chunk))
               st == FoldLeft(ReadRow, Current, split.rows)
    <2>2. chunk \in Text
        BY <1>0, SubText DEF Text
    <2>3. partialRow \o Decode(chunk) \in Text
        BY <1>0, <2>2, DecodeText, TextsJoin
    <2>4. split.rows \in Seq(Text)
      <3>1. split \in Shaped
          BY <2>3, SplitRowsIs, SplitShaped, NoTextShaped
      <3> QED
          BY <3>1 DEF Shaped, Acc
    <2>5. SoundState(Current)
        BY <1>1, <1>3 DEF ReadChunk
    <2>6. st = Rows!Fold(Current, split.rows)
        BY ReadRowsIs
    <2>7. Become(st, "reading")
        BY <2>1
    <2> HIDE DEF st, split, chunk
    <2>8. SoundState(st)
        BY <2>4, <2>5, <2>6, RowsSound
    <2> QED
        BY <1>2, <2>7, <2>8
  <1>4. CASE End
    <2>1. outcome = "reading" /\ Become(FlushRow(Current, partialRow), "accepted")
        BY <1>4 DEF End
    <2>2. SoundState(Current)
        BY <1>1, <2>1
    <2>3. FlushRow(Current, partialRow) \in {Current, ReadRow(Current, partialRow)}
        BY <2>2, FlushTyped DEF SoundState
    <2>4. SoundState(ReadRow(Current, partialRow))
        BY <1>0, <2>2, RowSound
    <2>5. SoundState(FlushRow(Current, partialRow))
        BY <2>2, <2>3, <2>4
    <2> QED
        BY <1>2, <2>1, <2>5
  <1>5. CASE UNCHANGED vars
      BY <1>5 DEF vars, Kept, Sound
  <1> QED
      BY <1>3, <1>4, <1>5 DEF Next

(* Urls without a quote are runs of characters that no list changes.           *)
LEMMA UrlsAreTokens ==
  ASSUME NEW urls \in UrlLists, Quote \notin UNION {ToSet(u) : u \in ToSet(urls)}
  PROVE  urls \in Seq(Seq(UrlToken) \ {<< >>})
  <1>1. urls \in Seq(UrlTexts) /\ Len(urls) \in Nat /\ DOMAIN urls = 1..Len(urls)
      BY LenProperties DEF UrlLists
  <1>2. ASSUME NEW i \in 1..Len(urls) PROVE urls[i] \in Seq(UrlToken) \ {<< >>}
    <2> DEFINE u == urls[i]
    <2>1. u \in UrlTexts
        BY <1>1, ElementOfSeq
    <2>2. u \in Seq(STRING) /\ u # << >> /\ {Space, Comma} \cap ToSet(u) = {}
        BY <2>1, UrlAssumption
    <2>3. Quote \notin ToSet(u)
        BY <1>1 DEF ToSet
    <2> HIDE DEF u
    <2>4. Len(u) \in Nat /\ DOMAIN u = 1..Len(u) /\ \A k \in 1..Len(u) : u[k] \in STRING
        BY <2>2, LenProperties, ElementOfSeq
    <2>5. ASSUME NEW k \in 1..Len(u) PROVE u[k] \in UrlToken
      <3>1. u[k] \in ToSet(u)
          BY <2>4 DEF ToSet
      <3>2. u[k] \in Token
          BY <2>4, Zenon DEF Token
      <3> QED
          BY <2>2, <2>3, <3>1, <3>2 DEF UrlToken
    <2>6. u \in Seq(UrlToken)
        BY <2>2, <2>4, <2>5
    <2> QED
        BY <2>2, <2>6 DEF u
  <1> QED
      BY <1>1, <1>2

(* What the parser keeps can be read back.                                     *)
LEMMA KeptReadsBack ==
  ASSUME NEW n \in Trimmed, NEW urls \in UrlLists, {Comma, Quote} \cap ToSet(n) = {},
         Quote \notin UNION {ToSet(u) : u \in ToSet(urls)}
  PROVE  LET parsed == ParseCols(BuildRow("1", n, urls, urls))
         IN /\ parsed.closed
            /\ Len(parsed.cols) = Len(Header) + 1
            /\ ProductFromRow(parsed.cols) = [name |-> n, urls |-> urls]
            /\ SplitAtCommas(parsed.cols[4]) = urls
  <1>1. n \in Text /\ NoSpaceAround(n) /\ NoQuote(n) /\ NoComma(n)
    <2>1. n \in Text /\ NoSpaceAround(n) /\ DOMAIN n = 1..Len(n)
        BY TextIs DEF Trimmed
    <2> QED
        BY <2>1 DEF NoQuote, NoComma, ToSet
  <1>2. urls \in Seq(Seq(UrlToken) \ {<< >>}) /\ urls # << >>
      BY UrlsAreTokens DEF UrlLists
  <1>3. PICK list : list = JoinWithCommas(urls)
      OBVIOUS
  <1>4. list \in Seq(ListToken) /\ list # << >> /\ SplitAtCommas(list) = urls
      BY <1>2, <1>3, JoinedSplit
  <1>5. list \in Text /\ NoQuote(list) /\ NoSpaceAround(list)
    <2>1. /\ Len(list) \in Nat /\ Len(list) # 0 /\ DOMAIN list = 1..Len(list)
          /\ \A i \in 1..Len(list) : list[i] \in ListToken
        BY <1>4, LenProperties, ElementOfSeq, EmptySeq
    <2>2. list \in Text
      <3>1. ListToken \subseteq Token
          BY DEF ListToken
      <3> QED
          BY <1>4, <3>1, SeqMonotonic DEF Text
    <2>3. \A i \in 1..Len(list) : list[i] # Quote /\ list[i] # Space
        BY <2>1 DEF ListToken
    <2>4. 1 \in 1..Len(list) /\ Len(list) \in 1..Len(list)
        BY <2>1
    <2> QED
        BY <2>2, <2>3, <2>4 DEF NoQuote, NoSpaceAround
  <1>6. BuildRow("1", n, urls, urls) = OutputRow(n, list, list)
      BY <1>1, <1>3, <1>5, BuiltRow
  <1>7. PICK row : row = BuildRow("1", n, urls, urls)
      OBVIOUS
  <1> DEFINE parsed == ParseCols(row)
             cols == parsed.cols
  <1>8. /\ parsed.closed /\ Len(cols) = 4
        /\ cols[2] = n /\ cols[3] = list /\ cols[4] = list
    <2>1. LET p == ParseCols(OutputRow(n, list, list))
          IN /\ p.closed /\ Len(p.cols) = 4
             /\ p.cols[2] = n /\ p.cols[3] = list /\ p.cols[4] = list
        BY <1>1, <1>4, <1>5, ColumnsReadBack
    <2> QED
        BY <1>6, <1>7, <2>1, Zenon
  <1>9. Len(Header) + 1 = 4
      BY UrlAssumption
  <1>10. ProductFromRow(cols) = [name |-> n, urls |-> urls]
    <2>1. ProductFromRow(cols) = [name |-> n, urls |-> [i \in DOMAIN urls |-> Trim(urls[i])]]
        BY <1>4, <1>8, Zenon DEF ProductFromRow
    <2>2. ASSUME NEW i \in DOMAIN urls PROVE Trim(urls[i]) = urls[i]
      <3> DEFINE u == urls[i]
      <3>1. u \in Seq(UrlToken) /\ u # << >>
          BY <1>2, LenProperties, ElementOfSeq
      <3> HIDE DEF u
      <3>2. /\ Len(u) \in Nat /\ Len(u) # 0 /\ UrlToken \subseteq Token
            /\ \A k \in 1..Len(u) : u[k] \in UrlToken
          BY <3>1, LenProperties, ElementOfSeq, EmptySeq DEF UrlToken
      <3>3. u \in Text
          BY <3>1, <3>2, SeqMonotonic DEF Text
      <3>4. \A k \in 1..Len(u) : u[k] # Space
          BY <3>2 DEF UrlToken
      <3>5. 1 \in 1..Len(u) /\ Len(u) \in 1..Len(u)
          BY <3>2
      <3>6. NoSpaceAround(u)
          BY <3>4, <3>5 DEF NoSpaceAround
      <3> QED
          BY <3>3, <3>6, TrimKeeps DEF u
    <2>3. [i \in DOMAIN urls |-> urls[i]] = urls
      <3>1. urls \in [1..Len(urls) -> Seq(UrlToken) \ {<< >>}]
          BY <1>2, LenProperties
      <3> QED
          BY <3>1
    <2>4. [i \in DOMAIN urls |-> Trim(urls[i])] = [i \in DOMAIN urls |-> urls[i]]
        BY <2>2
    <2> QED
        BY <2>1, <2>3, <2>4, Zenon
  <1> HIDE DEF parsed
  <1>11. SplitAtCommas(cols[4]) = urls
      BY <1>4, <1>8
  <1> QED
      BY <1>7, <1>8, <1>9, <1>10, <1>11, Zenon DEF parsed

(* The row buildCSV writes for a product the parser accepted is read back by   *)
(* the parser to the same name and the same two lists of urls: for any file,   *)
(* however long and however it was cut into chunks, in any characters, when    *)
(* the name holds neither a comma nor a quote and no url holds a quote.        *)
THEOREM OutputIsReadBack == Spec => []OutputReadsBack
  <1>1. Init => Typed /\ Kept
    <2>1. Init => Kept
        BY DEF Init, Kept, Sound
    <2> QED
        BY <2>1, FileTyped
  <1>2. Typed /\ Kept /\ [Next]_vars => (Typed /\ Kept)'
      BY TypedStep, KeptStep
  <1>3. Typed /\ Kept => OutputReadsBack
    <2> SUFFICES ASSUME Kept, outcome = "accepted", NEW n \in DOMAIN products
                 PROVE  LET urls == products[n]
                            parsed == ParseCols(BuildRow("1", n, urls, urls))
                        IN {Comma, Quote} \cap ToSet(n) = {}
                              /\ Quote \notin UNION {ToSet(u) : u \in ToSet(urls)} =>
                             /\ parsed.closed
                             /\ Len(parsed.cols) = Len(Header) + 1
                             /\ ProductFromRow(parsed.cols) = [name |-> n, urls |-> urls]
                             /\ SplitAtCommas(parsed.cols[4]) = urls
        BY Zenon DEF OutputReadsBack
    <2>1. n \in Trimmed /\ products[n] \in UrlLists
        BY DEF Kept, Sound
    <2> QED
        BY <2>1, KeptReadsBack, Zenon
  <1> QED
      BY <1>1, <1>2, <1>3, PTL DEF Spec

===============================================================================
