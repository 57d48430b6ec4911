------------------------------- MODULE CsvEntity -------------------------------
(* The streaming CSV parser of the API: CSVEntity.parseData reads the uploaded *)
(* file chunk by chunk, keeps the row a chunk leaves open in partialRow, and   *)
(* gathers the image urls of each product; buildCSV writes the output file of  *)
(* a finished request.                                                         *)
(*                                                                             *)
(* A text is a sequence of tokens.  A token is one of the characters the       *)
(* parser distinguishes, or a word: a run of characters it treats alike and    *)
(* whose own letters, and their case, do not matter.  Lead and Trail are the   *)
(* two bytes of a character that UTF-8 encodes in two.                         *)
EXTENDS Naturals, SequencesExt

CONSTANTS
    Lines,        \* the lines a file may have: [bytes, kind, name, urls]
    MaxLines,     \* the most lines a file has
    Terminators,  \* the line terminators a file may use
    Header,       \* the header row, one word a column
    UrlTexts      \* the texts without a comma that isUrl accepts

VARIABLES
    lines,        \* the lines of the uploaded file, as its author means them
    bytes,        \* the same file as the bytes of the stream
    pos,          \* how many of them have been delivered
    partialRow,
    headerRow,    \* the header has been read
    products,     \* the urls of each product, by name
    outcome

vars == <<lines, bytes, pos, partialRow, headerRow, products, outcome>>

Quote == "\""
Comma == ","
Space == " "
CR == "\r"
LF == "\n"
Lead == "lead"
Trail == "trail"
Wide == "wide"            \* the character Lead and Trail encode
Replacement == "?"        \* U+FFFD, for a byte that encodes nothing

EndOfLine == {CR, LF}

-------------------------------------------------------------------------------
(* Texts.                                                                      *)

(* Buffer.toString: every chunk is decoded by itself.                          *)
Decode(chunk) ==
    LET Pair(i) == i \in 1..(Len(chunk) - 1) /\ chunk[i] = Lead /\ chunk[i + 1] = Trail
        Char(i) == IF Pair(i) THEN <<Wide>>
                   ELSE IF Pair(i - 1) THEN <<>>
                   ELSE IF chunk[i] \in {Lead, Trail} THEN <<Replacement>>
                   ELSE <<chunk[i]>>
    IN FlattenSeq([i \in DOMAIN chunk |-> Char(i)])

(* text.split(/\r\n|\n\r|\n|\r/): the second half of a mixed pair ends no row. *)
SplitStep(acc, c) ==
    IF c \notin EndOfLine
    THEN [rows |-> acc.rows, open |-> Append(acc.open, c), last |-> Space]
    ELSE IF acc.last \in EndOfLine \ {c}
         THEN [acc EXCEPT !.last = Space]
         ELSE [rows |-> Append(acc.rows, acc.open), open |-> <<>>, last |-> c]

NoText == [rows |-> <<>>, open |-> <<>>, last |-> Space]

SplitRows(text) == FoldLeft(SplitStep, NoText, text)

(* String.split(','): the pieces between the commas.                           *)
CommaStep(acc, c) ==
    IF c = Comma THEN Append(acc, <<>>) ELSE [acc EXCEPT ![Len(acc)] = Append(@, c)]

SplitAtCommas(text) == FoldLeft(CommaStep, << <<>> >>, text)

(* Array.join(',').                                                            *)
JoinStep(acc, text) == IF acc = <<>> THEN text ELSE acc \o <<Comma>> \o text

JoinWithCommas(texts) == FoldLeft(JoinStep, <<>>, texts)

Trim(text) ==
    LET kept == {i \in DOMAIN text : text[i] # Space}
        first == CHOOSE i \in kept : \A j \in kept : i <= j
        last == CHOOSE i \in kept : \A j \in kept : j <= i
    IN IF kept = {} THEN <<>> ELSE SubSeq(text, first, last)

-------------------------------------------------------------------------------
(* Rows and columns.                                                           *)

(* A quote at the edge of a column: only spaces between it and a comma or an   *)
(* end of the row.                                                             *)
AtEdge(row, i) ==
    LET before == SelectLastInSubSeq(row, 1, i - 1, LAMBDA c : c # Space)
        after == SelectInSubSeq(row, i + 1, Len(row), LAMBDA c : c # Space)
    IN \/ before = 0 \/ row[before] = Comma
       \/ after = 0 \/ row[after] = Comma

Escaped(row, i) == i < Len(row) /\ row[i] = Quote /\ row[i + 1] = Quote

(* What parseCols has gathered, in columns and in the current one; skip is set *)
(* by the first of two quotes for the second.                                  *)
Gathering(cols, col, inQuotes, skip) ==
    [cols |-> cols, col |-> col, inQuotes |-> inQuotes, skip |-> skip]

(* The loop at the position at[2] of the row at[1].                            *)
ColumnStep(acc, at) ==
    LET row == at[1]
        i == at[2]
    IN IF acc.skip THEN Gathering(acc.cols, acc.col, acc.inQuotes, FALSE)
       ELSE IF Escaped(row, i)
            THEN Gathering(acc.cols, Append(acc.col, Quote), acc.inQuotes, TRUE)
       ELSE IF row[i] = Quote /\ AtEdge(row, i)
            THEN Gathering(acc.cols, acc.col, ~acc.inQuotes, FALSE)
       ELSE IF row[i] = Comma /\ ~acc.inQuotes
            THEN Gathering(Append(acc.cols, Trim(acc.col)), <<>>, acc.inQuotes, FALSE)
       ELSE Gathering(acc.cols, Append(acc.col, row[i]), acc.inQuotes, FALSE)

NoColumns == Gathering(<<>>, <<>>, FALSE, FALSE)

ParseCols(row) ==
    LET end == FoldLeft(ColumnStep, NoColumns, [i \in DOMAIN row |-> <<row, i>>])
    IN [closed |-> ~end.inQuotes, cols |-> Append(end.cols, Trim(end.col))]

IsHeader(cols) == cols = [i \in DOMAIN Header |-> <<Header[i]>>]

IsEmptyRow(cols) == \A i \in DOMAIN cols : cols[i] = <<>>

ProductFromRow(cols) ==
    LET urls == SplitAtCommas(cols[3])
    IN [name |-> cols[2], urls |-> [i \in DOMAIN urls |-> Trim(urls[i])]]

(* validateRow, and the decorators of CSVProduct: isNotEmpty and isUrl.        *)
ValidProduct(cols) ==
    /\ Len(cols) = Len(Header)
    /\ LET product == ProductFromRow(cols)
       IN /\ product.name # <<>>
          /\ \A i \in DOMAIN product.urls : product.urls[i] \in UrlTexts

(* Array.from(new Set(...)): the first occurrence of each url.                 *)
AddNew(acc, u) == IF Contains(acc, u) THEN acc ELSE Append(acc, u)

Distinct(urls) == FoldLeft(AddNew, <<>>, urls)

(* Mutant: a second row of a product replaces the first.                       *)
RowReplaces(data, product) ==
    [n \in DOMAIN data \cup {product.name} |->
        IF n # product.name THEN data[n] ELSE product.urls]

MergeProductsData(data, product) ==
    [n \in DOMAIN data \cup {product.name} |->
        IF n # product.name THEN data[n]
        ELSE IF n \in DOMAIN data THEN Distinct(data[n] \o product.urls)
        ELSE product.urls]

(* One row of the loop.  A throw leaves st.ok FALSE and the rest unread.       *)
ReadRow(st, row) ==
    LET parsed == ParseCols(row)
        cols == parsed.cols
        thrown == [st EXCEPT !.ok = FALSE]
    IN IF ~st.ok THEN st
       ELSE IF ~parsed.closed THEN thrown
       ELSE IF ~st.header THEN IF IsHeader(cols) THEN [st EXCEPT !.header = TRUE] ELSE thrown
       ELSE IF IsEmptyRow(cols) THEN st
       ELSE IF ~ValidProduct(cols) THEN thrown
       ELSE [st EXCEPT !.products = MergeProductsData(@, ProductFromRow(cols))]

(* Mutant: the row the last chunk leaves open is forgotten.                    *)
NoFlush(st, row) == st

(* The row without a terminator at the end of the stream: nothing but spaces   *)
(* and empty columns are skipped even where the header should be.              *)
FlushRow(st, row) ==
    LET parsed == ParseCols(row)
    IN IF Trim(row) = <<>> \/ (parsed.closed /\ IsEmptyRow(parsed.cols)) THEN st
       ELSE ReadRow(st, row)

(* Mutant: the urls are not quoted.                                            *)
BuildRowUnquoted(i, name, inputs, outputs) ==
    <<i, Comma>> \o name \o <<Comma>> \o FlattenSeq(inputs) \o <<Comma>> \o FlattenSeq(outputs)

(* One row of buildCSV: nothing in the name or the urls is escaped.            *)
BuildRow(i, name, inputs, outputs) ==
    LET Quoted(urls) == <<Quote>> \o JoinWithCommas(urls) \o <<Quote>>
    IN <<i, Comma>> \o name \o <<Comma>> \o Quoted(inputs) \o <<Comma>> \o Quoted(outputs)

-------------------------------------------------------------------------------
(* The stream.                                                                 *)

FileLine ==
    [bytes : Seq(STRING), kind : {"header", "product", "empty", "faulty"},
     name : Seq(STRING), urls : Seq(Seq(STRING))]

(* A line holds no terminator, and its kind, name and urls are what its own    *)
(* text says.                                                                  *)
ASSUME LineAssumption ==
    \A l \in Lines :
        LET text == Decode(l.bytes)
            parsed == ParseCols(text)
        IN /\ l \in FileLine /\ EndOfLine \cap ToSet(l.bytes) = {}
           /\ l.kind = "header" <=> parsed.closed /\ IsHeader(parsed.cols)
           /\ l.kind = "empty" <=> parsed.closed /\ IsEmptyRow(parsed.cols)
           /\ l.kind = "product" <=> parsed.closed /\ ValidProduct(parsed.cols)
           /\ l.kind = "product" =>
                 ProductFromRow(parsed.cols) = [name |-> l.name, urls |-> l.urls]
           /\ Trim(text) = <<>> => l.kind = "empty"

(* isUrl accepts neither nothing nor a space.                                  *)
ASSUME UrlAssumption ==
    /\ Len(Header) = 3
    /\ \A u \in UrlTexts : u \in Seq(STRING) \ {<<>>} /\ {Space, Comma} \cap ToSet(u) = {}

ASSUME FileAssumption ==
    MaxLines \in Nat /\ Terminators \subseteq {<<LF>>, <<CR>>, <<CR, LF>>, <<LF, CR>>}

(* The upload: up to MaxLines lines, each ended by a terminator except perhaps *)
(* the last.                                                                   *)
Init ==
    /\ lines \in UNION {[1..n -> Lines] : n \in 0..MaxLines}
    /\ \E end \in Terminators : \E last \in {end, <<>>} :
          bytes = FlattenSeq([i \in DOMAIN lines |->
                     lines[i].bytes \o IF i = Len(lines) THEN last ELSE end])
    /\ pos = 0
    /\ partialRow = <<>>
    /\ headerRow = FALSE
    /\ products = [n \in {} |-> <<>>]
    /\ outcome = "reading"

Current == [header |-> headerRow, products |-> products, ok |-> TRUE]

Become(st, accepted) ==
    /\ headerRow' = st.header
    /\ products' = st.products
    /\ outcome' = IF st.ok THEN accepted ELSE "rejected"

(* Mutant: the chunk is parsed without the row the last one left open.         *)
ReadChunkAlone ==
    /\ outcome = "reading"
    /\ \E to \in (pos + 1)..Len(bytes) :
          LET split == SplitRows(Decode(SubSeq(bytes, pos + 1, to)))
          IN /\ pos' = to
             /\ partialRow' = split.open
             /\ Become(FoldLeft(ReadRow, Current, split.rows), "reading")
    /\ UNCHANGED <<lines, bytes>>

(* The next chunk of the stream: any number of bytes.                          *)
ReadChunk ==
    /\ outcome = "reading"
    /\ \E to \in (pos + 1)..Len(bytes) :
          LET split == SplitRows(partialRow \o Decode(SubSeq(bytes, pos + 1, to)))
          IN /\ pos' = to
             /\ partialRow' = split.open
             /\ Become(FoldLeft(ReadRow, Current, split.rows), "reading")
    /\ UNCHANGED <<lines, bytes>>

(* Mutant: the first chunk is taken for the whole file.                        *)
EndEarly ==
    /\ outcome = "reading"
    /\ pos > 0
    /\ Become(FlushRow(Current, partialRow), "accepted")
    /\ UNCHANGED <<lines, bytes, pos, partialRow>>

(* The stream ends.                                                            *)
End ==
    /\ outcome = "reading"
    /\ pos = Len(bytes)
    /\ Become(FlushRow(Current, partialRow), "accepted")
    /\ UNCHANGED <<lines, bytes, pos, partialRow>>

Next == ReadChunk \/ End

Spec == Init /\ [][Next]_vars

-------------------------------------------------------------------------------
(* Properties.                                                                 *)

(* The types, and that only a file read to its end is accepted.                *)
TypeOK ==
    /\ lines \in Seq(Lines)
    /\ pos \in 0..Len(bytes)
    /\ headerRow \in BOOLEAN
    /\ outcome \in {"reading", "accepted", "rejected"}
    /\ outcome = "accepted" => pos = Len(bytes)

(* What a line is at its place in the file, by what its author means.          *)
Faulty(i) == IF i = 1 THEN lines[i].kind # "header"
             ELSE lines[i].kind \notin {"product", "empty"}

ProductLines(upTo) == {i \in 2..upTo : lines[i].kind = "product"}

LinesOf(n, upTo) == {i \in ProductLines(upTo) : lines[i].name = n}

(* The products are exactly those of the first upTo lines, each with all the   *)
(* urls of all its lines; one gathered from several lines has each url once.   *)
GatheredFrom(data, upTo) ==
    /\ DOMAIN data = {lines[i].name : i \in ProductLines(upTo)}
    /\ \A n \in DOMAIN data :
          /\ ToSet(data[n]) = UNION {ToSet(lines[i].urls) : i \in LinesOf(n, upTo)}
          /\ Cardinality(LinesOf(n, upTo)) > 1 => IsInjective(data[n])

Delivered == SplitRows(Decode(SubSeq(bytes, 1, pos)))

(* Between two chunks, wherever they were cut, partialRow is the text after    *)
(* the last terminator ("Last row might be incomplete due to chunk size, so    *)
(* it's stored in partialRow for next iteration") and the products are those   *)
(* of the lines ended so far: none is lost, read twice, or read too early.     *)
ChunksDoNotMatter ==
    outcome = "reading" =>
        partialRow = Delivered.open /\ GatheredFrom(products, Len(Delivered.rows))

(* The result depends on the file alone, not on how it was cut into chunks: a  *)
(* file is rejected only for a line of its own, and the products of an         *)
(* accepted one are those of all its lines, the unterminated last included.    *)
ResultIsOfTheFile ==
    /\ outcome = "rejected" => \E i \in DOMAIN lines : Faulty(i)
    /\ outcome = "accepted" =>
          /\ GatheredFrom(products, Len(lines))
          /\ \A i \in 2..Len(lines) : ~Faulty(i)

(* The output file of an accepted request can be read back by the same parser, *)
(* row by row, when the product's name holds neither comma nor quote and its   *)
(* urls no quote.                                                              *)
OutputReadsBack ==
    outcome = "accepted" =>
        \A n \in DOMAIN products :
            LET urls == products[n]
                parsed == ParseCols(BuildRow("1", n, urls, urls))
            IN {Comma, Quote} \cap ToSet(n) = {} /\ Quote \notin UNION {ToSet(u) : u \in ToSet(urls)} =>
                 /\ parsed.closed
                 /\ Len(parsed.cols) = Len(Header) + 1
                 /\ ProductFromRow(parsed.cols) = [name |-> n, urls |-> urls]
                 /\ SplitAtCommas(parsed.cols[4]) = urls

=================================================================================
