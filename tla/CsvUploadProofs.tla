---------------------------- MODULE CsvUploadProofs ----------------------------
(* Proofs about CsvUpload, for every body, every head and every size limit:     *)
(*                                                                              *)
(*   Typed    the types, and what busboy and the controller have taken so far   *)
(*   Taken    where the first file of the body is: not yet there, waiting in    *)
(*            the stream, refused, or being parsed                              *)
(*                                                                              *)
(* Taken needs the limit of one file that the controller configures: with a     *)
(* limit of two, the second file of a body whose first has the wrong field is   *)
(* written to the stream, and parsed when it gets there before the iterator is  *)
(* asked for the error.                                                         *)
EXTENDS CsvUpload, TLAPS, FiniteSetTheorems, SequenceTheorems

Parts == 1..Len(body)

-------------------------------------------------------------------------------
(* Lemmas about bodies.                                                         *)

LEMMA MinIs ==
  ASSUME NEW S \in SUBSET Int, NEW m \in S, \A x \in S : m <= x
  PROVE  Min(S) = m
  <1>1. \A x \in S : (\A y \in S : x <= y) => x = m
      OBVIOUS
  <1> QED
      BY <1>1 DEF Min

LEMMA BodyType ==
  ASSUME body \in Bodies
  PROVE  /\ body \in Seq(BodyPart) /\ Len(body) \in Nat
         /\ \A i \in Parts : /\ body[i] \in BodyPart
                             /\ body[i].size \in Nat /\ body[i].bad \in Nat
                             /\ ~IsFile(i) => body[i].size = 0
  <1>1. body \in Seq(BodyPart) /\ Len(body) \in Nat
      BY UploadAssumption, LenProperties
  <1>2. \A i \in Parts : body[i] \in BodyPart
      BY <1>1, ElementOfSeq DEF Parts
  <1> QED
      BY <1>1, <1>2 DEF BodyPart, IsFile

(* A file ends where the limit is.                                              *)
LEMMA KeptIs ==
  ASSUME body \in Bodies, NEW i \in Parts
  PROVE  Kept(i) = IF body[i].size < FileSizeLimit THEN body[i].size ELSE FileSizeLimit
  <1>1. body[i].size \in Nat /\ FileSizeLimit \in Nat
      BY BodyType, UploadAssumption
  <1> DEFINE S == {body[i].size, FileSizeLimit}
             m == IF body[i].size < FileSizeLimit THEN body[i].size ELSE FileSizeLimit
  <1>2. S \in SUBSET Int /\ m \in S /\ \A x \in S : m <= x
      BY <1>1
  <1>3. Min(S) = m
    <2> HIDE DEF S, m
    <2> QED
        BY <1>2, MinIs
  <1> QED
      BY <1>3 DEF Kept

(* The first file of the body, and that there is none among the first n parts.  *)
IsFirst(i) == i \in Parts /\ IsFile(i) /\ \A j \in Parts : IsFile(j) => i <= j
NoFile(n) == \A j \in 1..n : ~IsFile(j)

LEMMA FirstIsMin ==
  ASSUME body \in Bodies, NEW i, IsFirst(i)
  PROVE  Files(Len(body)) # {} /\ Min(Files(Len(body))) = i
  <1>1. Files(Len(body)) \in SUBSET Int /\ i \in Files(Len(body))
      BY BodyType DEF Files, IsFirst, Parts
  <1>2. \A j \in Files(Len(body)) : i <= j
      BY DEF Files, IsFirst, Parts
  <1> QED
      BY <1>1, <1>2, MinIs

(* A file is the only one so far exactly when it is the first.                  *)
LEMMA OnlyFile ==
  ASSUME body \in Bodies, NEW n \in Parts, IsFile(n)
  PROVE  /\ Cardinality(Files(n)) > 1 <=> ~NoFile(n - 1)
         /\ NoFile(n - 1) => IsFirst(n)
         /\ \A i : IsFirst(i) /\ i < n => ~NoFile(n - 1)
  <1>1. n \in Nat /\ Len(body) \in Nat /\ n <= Len(body)
      BY BodyType DEF Parts
  <1>2. IsFiniteSet(Files(n)) /\ n \in Files(n) /\ Cardinality(Files(n)) \in Nat
    <2>1. IsFiniteSet(1..n)
        BY <1>1, FS_Interval
    <2>2. Files(n) \in SUBSET (1..n) /\ n \in Files(n)
        BY <1>1, <2>1 DEF Files, Parts
    <2> QED
        BY <2>1, <2>2, FS_Subset, FS_CardinalityType
  <1>3. Cardinality(Files(n)) # 0
      BY <1>2, FS_EmptySet
  <1>4. Cardinality(Files(n)) = 1 => Files(n) = {n}
      BY <1>2, FS_Singleton
  <1>5. Files(n) = {n} => Cardinality(Files(n)) = 1
      BY FS_Singleton
  <1>6. Files(n) = {n} <=> NoFile(n - 1)
    <2>1. \A j : j \in Files(n) <=> j \in 1..n /\ IsFile(j)
        BY DEF Files
    <2>2. \A j : j \in 1..n <=> j \in 1..(n - 1) \/ j = n
        BY <1>1, n \in 1..n DEF Parts
    <2> QED
        BY <2>1, <2>2 DEF NoFile
  <1>7. NoFile(n - 1) => IsFirst(n)
      BY <1>1 DEF NoFile, IsFirst, Parts
  <1>8. ASSUME NEW i, IsFirst(i), i < n PROVE ~NoFile(n - 1)
      BY <1>1, <1>8 DEF NoFile, IsFirst, Parts
  <1>9. Cardinality(Files(n)) > 1 <=> ~NoFile(n - 1)
      BY <1>2, <1>3, <1>4, <1>5, <1>6
  <1> QED
      BY <1>7, <1>8, <1>9

-------------------------------------------------------------------------------
(* The invariants.                                                              *)

(* What busboy has passed of the parts so far.                                  *)
Received ==
    /\ \A i \in Parts : i > part => held[i] = 0
    /\ part # 0 =>
          /\ seen <= body[part].size
          /\ held[part] = IF seen < FileSizeLimit THEN seen ELSE FileSizeLimit
    /\ \A i \in closed : held[i] = Kept(i)
    /\ \A i \in 1..(part - 1) : i \in closed

(* How far the request is: busboy gets nothing before the parameters of         *)
(* processCsv are resolved, and only a rejected query leaves its stream without *)
(* a listener.                                                                  *)
Phases ==
    /\ ctl = "done" <=> answer # "none"
    /\ answer = "query" => ~QueryIsValid
    /\ error = "uncaught" => answer = "query"
    /\ ctl \in {"params", "next"} => current = 0 /\ read = 0
    /\ ctl = "params" => /\ feed \in {"none", "aborted"} /\ part = 0
                         /\ stream = << >> /\ error = "none" /\ ~ended
    /\ ctl \in {"next", "parse"} => QueryIsValid /\ Multipart
    /\ ctl = "parse" => current # 0
    /\ ended => part = Len(body)

Typed == TypeOK /\ Received /\ Phases

(* The first file, with the field the controller asks for.                      *)
Right(i) == IsFirst(i) /\ body[i].field = "file"
NoFileYet == NoFile(part) /\ error = "none"
Waiting == \E k \in DOMAIN stream : Right(stream[k])
Refused == error = "field" /\ \E i \in 1..part : IsFirst(i) /\ body[i].field # "file"

(* Only the first file is ever written to the stream; the controller asks for   *)
(* the next part when no file has begun, when the first one waits for it, or    *)
(* when it was refused and the iterator keeps the error.                        *)
Taken ==
    /\ \A k \in DOMAIN stream : IsFile(stream[k]) => Right(stream[k])
    /\ ctl = "next" => NoFileYet \/ Waiting \/ Refused
    /\ ctl = "parse" => Right(current) /\ read < body[current].bad
    /\ answer = "accepted" => Right(current) /\ current \in closed /\ read = held[current]
    /\ AnswerIsOfFirstFile

-------------------------------------------------------------------------------
(* Types.                                                                       *)

Errors == {"none", "count", "field", "size", "uncaught"}

LEMMA Emitted ==
  ASSUME error \in Errors, NEW e \in {"count", "field", "size"}, EmitOnStream(e)
  PROVE  /\ error' \in Errors
         /\ error' = "uncaught" => answer = "query" \/ error = "uncaught"
         /\ answer # "query" => error' = IF error = "none" THEN e ELSE error
  BY DEF EmitOnStream, Errors

LEMMA InitTyped == Init => Typed
  <1> SUFFICES ASSUME Init PROVE Typed
      OBVIOUS
  <1>1. Len(body) \in Nat /\ body \in Bodies /\ FileSizeLimit \in Nat
      BY BodyType, UploadAssumption DEF Init
  <1>2. held = [i \in 1..Len(body) |-> 0] /\ stream \in Seq(1..part)
      BY EmptySeq DEF Init
  <1>3. held \in [1..Len(body) -> 0..FileSizeLimit]
      BY <1>1, <1>2
  <1>4. TypeOK
    <2>1. /\ part \in 0..Len(body) /\ seen \in Nat /\ closed \subseteq 1..part
          /\ current \in 0..part /\ current = 0
        BY <1>1 DEF Init
    <2>2. /\ head \in Heads /\ ended \in BOOLEAN /\ feed = "none" /\ error = "none"
          /\ ctl = "params" /\ answer = "none"
        BY DEF Init
    <2> QED
        BY <1>1, <1>2, <1>3, <2>1, <2>2 DEF TypeOK
  <1>5. Received
      BY <1>1, <1>2 DEF Init, Received, Parts
  <1>6. Phases
      BY DEF Init, Phases
  <1> QED
      BY <1>4, <1>5, <1>6 DEF Typed

LEMMA ProcessCsvTyped == Typed /\ ProcessCsv => Typed'
  <1> SUFFICES ASSUME Typed, ProcessCsv PROVE Typed'
      OBVIOUS
  <1>1. TypeOK'
      BY DEF Typed, TypeOK, ProcessCsv, Reply, input, streamVars
  <1>2. Received'
      BY DEF Typed, Received, ProcessCsv, Parts, Kept, input
  <1>3. Phases'
      BY DEF Typed, Phases, ProcessCsv, Reply, Multipart, QueryIsValid, input, streamVars
  <1> QED
      BY <1>1, <1>2, <1>3 DEF Typed

LEMMA PartBeginsTyped == Typed /\ PartBegins => Typed'
  <1> SUFFICES ASSUME Typed, PartBegins PROVE Typed'
      OBVIOUS
  <1>0. /\ body \in Bodies /\ Len(body) \in Nat /\ part \in 0..Len(body)
        /\ part' = part + 1 /\ part' \in Parts /\ seen' = 0
        /\ UNCHANGED <<head, body, held, closed, ended, ctl, current, read, answer>>
      BY BodyType DEF Typed, TypeOK, PartBegins, Parts, input, controllerVars
  <1>1. /\ stream' \in Seq(1..part')
        /\ error' \in Errors /\ (error' = "uncaught" => answer = "query")
        /\ feed' \in {feed, "unpiped"}
    <2>1. stream \in Seq(1..part')
        BY <1>0, SeqMonotonic DEF Typed, TypeOK
    <2>2. CASE EmitOnBusboy("count") \/ EmitOnBusboy("field")
        BY <2>1, <2>2, Emitted DEF EmitOnBusboy, Typed, TypeOK, Phases, Errors
    <2>3. CASE Write(part')
        BY <1>0, <2>1, <2>3, AppendProperties DEF Write, Typed, TypeOK, Phases, Errors
    <2> QED
        BY <2>2, <2>3 DEF PartBegins
  <1>2. TypeOK'
    <2>1. feed' \in {"none", "flowing", "unpiped", "aborted"}
        BY <1>1 DEF Typed, TypeOK
    <2>2. closed' \subseteq 1..part' /\ current' \in 0..part' /\ part' \in 0..Len(body)
        BY <1>0 DEF Typed, TypeOK, Parts
    <2> QED
        BY <1>0, <1>1, <2>1, <2>2 DEF Typed, TypeOK, Errors
  <1>3. Received'
    <2>1. body[part'].size \in Nat /\ held[part'] = 0 /\ FileSizeLimit \in Nat
        BY <1>0, BodyType, UploadAssumption DEF Typed, Received
    <2>2. \A i \in 1..(part' - 1) : i \in closed
        BY <1>0 DEF PartBegins, Between, Typed, Received
    <2>3. \A i \in closed' : held'[i] = Kept(i)'
        BY <1>0 DEF Typed, Received, Kept
    <2>4. \A i \in Parts : i > part' => held'[i] = 0
        BY <1>0 DEF Typed, Received, Parts
    <2> QED
        BY <1>0, <2>1, <2>2, <2>3, <2>4 DEF Received, Parts
  <1>4. Phases'
      BY <1>0, <1>1 DEF PartBegins, Feeding, Typed, Phases, QueryIsValid, Multipart
  <1> QED
      BY <1>2, <1>3, <1>4 DEF Typed

LEMMA ChunkTyped == Typed /\ Chunk => Typed'
  <1> SUFFICES ASSUME Typed, Chunk PROVE Typed'
      OBVIOUS
  <1>0. /\ body \in Bodies /\ Len(body) \in Nat /\ part \in Parts /\ part \notin closed
        /\ body[part].size \in Nat /\ seen \in Nat /\ seen < body[part].size
        /\ seen' = seen + 1 /\ FileSizeLimit \in Nat
        /\ UNCHANGED <<head, body, feed, part, closed, stream, ended, ctl, current, read, answer>>
    <2>1. /\ body \in Bodies /\ part \in 0..Len(body) /\ ~Between /\ seen < body[part].size
          /\ seen \in Nat /\ seen' = seen + 1
          /\ UNCHANGED <<head, body, feed, part, closed, stream, ended, ctl, current, read, answer>>
        BY DEF Typed, TypeOK, Chunk, input, controllerVars
    <2>2. Len(body) \in Nat /\ part \in Parts /\ part \notin closed
        BY <2>1, BodyType DEF Between, Parts
    <2> QED
        BY <2>1, <2>2, BodyType, UploadAssumption
  <1>1. held \in [Parts -> 0..FileSizeLimit] /\ held[part] = IF seen < FileSizeLimit THEN seen ELSE FileSizeLimit
      BY <1>0 DEF Typed, TypeOK, Received, Parts
  <1>2. /\ held' \in [Parts -> 0..FileSizeLimit]
        /\ held'[part] = IF seen' < FileSizeLimit THEN seen' ELSE FileSizeLimit
        /\ held'[part] >= held[part]
        /\ \A i \in Parts \ {part} : held'[i] = held[i]
      BY <1>0, <1>1 DEF Chunk
  <1>3. error' \in Errors /\ (error' = "uncaught" => answer = "query")
      BY Emitted DEF Chunk, Typed, TypeOK, Phases, Errors
  <1>4. TypeOK'
    <2>1. \A i \in Parts : held[i] \in Nat /\ held'[i] \in Nat /\ held'[i] >= held[i]
        BY <1>0, <1>1, <1>2
    <2>2. current # 0 => current \in Parts /\ read \in 0..held[current]
        BY <1>0 DEF Typed, TypeOK, Parts
    <2>3. current' # 0 => read' \in 0..held'[current']
        BY <1>0, <2>1, <2>2
    <2> QED
        BY <1>0, <1>2, <1>3, <2>3 DEF Typed, TypeOK, Errors, Parts
  <1>5. Received'
    <2>1. \A i \in closed' : held'[i] = Kept(i)'
        BY <1>0, <1>2 DEF Typed, TypeOK, Received, Parts, Kept
    <2>2. \A i \in Parts : i > part' => held'[i] = 0
        BY <1>0, <1>2 DEF Typed, Received, Parts
    <2> QED
        BY <1>0, <1>2, <2>1, <2>2 DEF Typed, Received, Parts
  <1>6. Phases'
      BY <1>0, <1>3 DEF Chunk, Feeding, Typed, Phases, QueryIsValid, Multipart
  <1> QED
      BY <1>4, <1>5, <1>6 DEF Typed

LEMMA PartEndsTyped == Typed /\ PartEnds => Typed'
  <1> SUFFICES ASSUME Typed, PartEnds PROVE Typed'
      OBVIOUS
  <1>0. /\ body \in Bodies /\ Len(body) \in Nat /\ part \in Parts /\ seen = body[part].size
        /\ closed' = closed \cup {part}
        /\ UNCHANGED <<head, body, feed, part, seen, held, stream, ended, error, ctl, current,
                       read, answer>>
      BY BodyType DEF Typed, TypeOK, PartEnds, Between, Parts, input, streamVars, controllerVars
  <1>1. TypeOK'
    <2>1. closed \subseteq 1..part /\ part \in 1..part
        BY <1>0 DEF Typed, TypeOK, Parts
    <2>2. closed' \subseteq 1..part
        BY <1>0, <2>1
    <2> QED
        BY <1>0, <2>2 DEF Typed, TypeOK
  <1>2. held[part] = Kept(part)
      BY <1>0, KeptIs DEF Typed, Received, Parts
  <1>3. Received'
      BY <1>0, <1>2 DEF Typed, Received, Parts, Kept
  <1>4. Phases'
      BY <1>0 DEF Typed, Phases, QueryIsValid, Multipart
  <1> QED
      BY <1>1, <1>3, <1>4 DEF Typed

LEMMA FinishTyped == Typed /\ (Finish \/ Abort) => Typed'
  <1> SUFFICES ASSUME Typed, Finish \/ Abort PROVE Typed'
      OBVIOUS
  <1>0. /\ UNCHANGED <<head, body, part, seen, held, closed, stream, error, ctl, current,
                       read, answer>>
        /\ feed' \in {feed, "aborted"}
        /\ ended' = ended \/ (ended' = TRUE /\ feed = "flowing" /\ part = Len(body))
      BY DEF Finish, Abort, input, busboyVars, streamVars, controllerVars
  <1>1. TypeOK'
    <2>1. feed' \in {"none", "flowing", "unpiped", "aborted"} /\ ended' \in BOOLEAN
        BY <1>0 DEF Typed, TypeOK
    <2> QED
        BY <1>0, <2>1 DEF Typed, TypeOK
  <1>2. Received'
      BY <1>0 DEF Typed, Received, Parts, Kept
  <1>3. Phases'
      BY <1>0 DEF Typed, Phases, QueryIsValid, Multipart
  <1> QED
      BY <1>1, <1>2, <1>3 DEF Typed

LEMMA NextPartTyped == Typed /\ NextPart => Typed'
  <1> SUFFICES ASSUME Typed, NextPart PROVE Typed'
      OBVIOUS
  <1>0. /\ Head(stream) \in 1..part /\ stream' \in Seq(1..part) /\ read = 0 /\ current = 0
        /\ part \in 0..Len(body) /\ Len(body) \in Nat /\ held \in [1..Len(body) -> 0..FileSizeLimit]
        /\ UNCHANGED <<head, body, feed, part, seen, held, closed, ended, error, read>>
      BY BodyType, HeadTailProperties
      DEF Typed, TypeOK, Phases, NextPart, input, busboyVars
  <1>1. TypeOK'
      BY <1>0, UploadAssumption DEF Typed, TypeOK, NextPart, Reply
  <1>2. Received'
      BY <1>0 DEF Typed, Received, Parts, Kept
  <1>3. Phases'
      BY <1>0 DEF Typed, TypeOK, Phases, NextPart, Reply, QueryIsValid, Multipart
  <1> QED
      BY <1>1, <1>2, <1>3 DEF Typed

LEMMA ReadingTyped == Typed /\ (ReadChunk \/ FileEnds \/ LoopEnds) => Typed'
  <1> SUFFICES ASSUME Typed, ReadChunk \/ FileEnds \/ LoopEnds PROVE Typed'
      OBVIOUS
  <1>0. UNCHANGED <<head, body, feed, part, seen, held, closed, stream, ended, error, current>>
      BY DEF ReadChunk, FileEnds, LoopEnds, input, busboyVars, streamVars
  <1>1. /\ ctl' \in {"next", "parse", "done"}
        /\ answer' \in {"none", "accepted", "invalid", "noFile", "count", "field", "size",
                        "query", "malformed"}
        /\ ctl' = "done" <=> answer' # "none"
        /\ ctl' # "done" => ctl' = ctl
        /\ answer' = answer \/ answer' # "query"
        /\ error = "uncaught" => answer' = "query"
      BY DEF Typed, TypeOK, Phases, ReadChunk, FileEnds, LoopEnds, Reply
  <1>2. current # 0 => read' \in 0..held[current]
      BY DEF Typed, TypeOK, ReadChunk, FileEnds, LoopEnds
  <1>3. TypeOK'
      BY <1>0, <1>1, <1>2 DEF Typed, TypeOK
  <1>4. Received'
      BY <1>0 DEF Typed, Received, Parts, Kept
  <1>5. ctl' = "next" => read' = read
      BY DEF ReadChunk, FileEnds, LoopEnds, Reply
  <1>6. Phases'
      BY <1>0, <1>1, <1>5 DEF Typed, Phases, QueryIsValid, Multipart
  <1> QED
      BY <1>3, <1>4, <1>6 DEF Typed

LEMMA NextTyped == Typed /\ [Next]_vars => Typed'
  <1>1. Typed /\ UNCHANGED vars => Typed'
      BY DEF vars, input, busboyVars, streamVars, controllerVars, Typed, TypeOK, Received,
         Parts, Kept, Phases, QueryIsValid, Multipart
  <1> QED
      BY <1>1, ProcessCsvTyped, PartBeginsTyped, ChunkTyped, PartEndsTyped, FinishTyped,
         NextPartTyped, ReadingTyped
      DEF Next, BusboyStep, ControllerStep

(* Every variable keeps its type, whatever the limits: no chunk over the limit  *)
(* is held, and the controller reads no more than busboy has passed on.         *)
THEOREM TypeCorrect == Spec => []TypeOK
  <1>1. Typed => TypeOK
      BY DEF Typed
  <1> QED
      BY InitTyped, NextTyped, <1>1, PTL DEF Spec

-------------------------------------------------------------------------------
(* The answer.                                                                  *)

LEMMA Expects ==
  ASSUME body \in Bodies
  PROVE  /\ ~QueryIsValid => "query" \in Expected
         /\ MultipartThrows => "malformed" \in Expected
         /\ QueryIsValid /\ head.contentType = "other" => "noFile" \in Expected
         /\ QueryIsValid /\ Multipart =>
               /\ NoFile(Len(body)) => "noFile" \in Expected
               /\ \A i : IsFirst(i) /\ body[i].field # "file" => "field" \in Expected
               /\ \A i : Right(i) /\ body[i].bad <= Kept(i) + 1 => "invalid" \in Expected
               /\ \A i : Right(i) /\ ~(body[i].bad <= Kept(i) + 1) => "accepted" \in Expected
  <1>1. QueryIsValid /\ (Multipart \/ head.contentType = "other") => ~(~QueryIsValid \/ MultipartThrows)
      BY DEF Multipart, MultipartThrows
  <1>2. NoFile(Len(body)) => Files(Len(body)) = {}
      BY DEF NoFile, Files
  <1>3. /\ ~QueryIsValid => "query" \in Expected
        /\ MultipartThrows => "malformed" \in Expected
      BY DEF Expected
  <1>4. QueryIsValid /\ head.contentType = "other" => "noFile" \in Expected
      BY <1>1 DEF Expected, Multipart
  <1>5. QueryIsValid /\ Multipart /\ NoFile(Len(body)) => "noFile" \in Expected
      BY <1>1, <1>2 DEF Expected
  <1>6. ASSUME QueryIsValid, Multipart, NEW i, IsFirst(i)
        PROVE  /\ body[i].field # "file" => "field" \in Expected
               /\ Right(i) /\ body[i].bad <= Kept(i) + 1 => "invalid" \in Expected
               /\ Right(i) /\ ~(body[i].bad <= Kept(i) + 1) => "accepted" \in Expected
    <2>1. Files(Len(body)) # {} /\ Min(Files(Len(body))) = i
        BY <1>6, FirstIsMin
    <2> QED
        BY <1>1, <1>6, <2>1 DEF Expected, Right
  <1> QED
      BY <1>3, <1>4, <1>5, <1>6 DEF Right

LEMMA BodyKept ==
  ASSUME UNCHANGED body
  PROVE  /\ \A i : /\ IsFirst(i)' <=> IsFirst(i)
                   /\ Right(i)' <=> Right(i)
                   /\ IsFile(i)' <=> IsFile(i)
         /\ \A n : NoFile(n)' <=> NoFile(n)
  BY DEF IsFirst, Right, IsFile, NoFile, Parts

LEMMA AnswerKept ==
  ASSUME AnswerIsOfFirstFile, UNCHANGED <<head, body, current, read, answer>>
  PROVE  AnswerIsOfFirstFile'
  BY DEF AnswerIsOfFirstFile, Expected, QueryIsValid, MultipartThrows, Multipart, Kept,
     Files, IsFile

(* A step of busboy leaves what the controller has alone; it keeps Taken when   *)
(* it keeps what the controller waits for.                                      *)
LEMMA BusboyKeepsTaken ==
  ASSUME Typed, Taken, UNCHANGED <<head, body, ctl, current, read, answer>>,
         closed \subseteq closed', \A i \in closed : held'[i] = held[i],
         \A k \in DOMAIN stream' : IsFile(stream'[k]) => Right(stream'[k]),
         ctl = "next" => (NoFileYet \/ Waiting \/ Refused)'
  PROVE  Taken'
  <1>1. /\ (\A k \in DOMAIN stream : IsFile(stream[k]) => Right(stream[k]))'
        /\ Right(current)' <=> Right(current)
      BY DEF IsFile, Right, IsFirst, Parts
  <1>2. AnswerIsOfFirstFile'
      BY AnswerKept DEF Taken
  <1>3. answer = "accepted" => Right(current)' /\ current \in closed' /\ read = held'[current]
      BY <1>1 DEF Taken
  <1>4. ctl = "parse" => Right(current)' /\ read < body[current].bad
      BY <1>1 DEF Taken
  <1> QED
      BY <1>1, <1>2, <1>3, <1>4 DEF Taken

LEMMA PartBeginsTaken ==
  ASSUME FilesCountLimit = 1, Typed, Taken, PartBegins
  PROVE  Taken'
  <1>0. /\ body \in Bodies /\ part \in 0..Len(body) /\ Len(body) \in Nat
        /\ part' = part + 1 /\ part' \in Parts
        /\ UNCHANGED <<head, body, held, closed, ended, ctl, current, read, answer>>
      BY BodyType DEF Typed, TypeOK, PartBegins, Parts, input, controllerVars
  <1>1. \A i : IsFile(i)' <=> IsFile(i)
      BY <1>0, BodyKept
  <1> DEFINE p == part + 1
             many == Cardinality(Files(p)) > 1
  <1>2. /\ p \in Parts /\ p - 1 = part
        /\ IsFile(p) => /\ many <=> ~NoFile(part)
                        /\ NoFile(part) => IsFirst(p)
                        /\ \A i : IsFirst(i) /\ i < p => many
      BY <1>0, OnlyFile
  <1>3. /\ stream \in Seq(1..part) /\ (ctl = "next" => answer # "query")
        /\ error \in Errors /\ (error # "uncaught" \/ answer = "query")
        /\ \A k \in DOMAIN stream : stream[k] \in 1..part
      BY ElementOfSeq, LenProperties DEF Typed, TypeOK, Phases, Errors
  <1>4. \A k \in DOMAIN stream : IsFile(stream[k]) => Right(stream[k])
      BY DEF Taken
  <1>5. CASE EmitOnBusboy("count") /\ IsFile(p) /\ many
    <2>1. stream' = stream /\ (answer # "query" => error' = IF error = "none" THEN "count" ELSE error)
        BY <1>3, <1>5, Emitted DEF EmitOnBusboy
    <2>2. ctl = "next" => Waiting \/ Refused
        BY <1>2, <1>5 DEF Taken, NoFileYet
    <2>3. ctl = "next" => (Waiting \/ Refused)'
        BY <1>0, <1>3, <2>1, <2>2, BodyKept DEF Waiting, Refused
    <2> QED
        BY <1>0, <1>4, <2>1, <2>3, BusboyKeepsTaken
  <1>6. CASE EmitOnBusboy("field") /\ IsFile(p) /\ ~many /\ body[p].field # "file"
    <2>1. stream' = stream /\ (answer # "query" => error' = IF error = "none" THEN "field" ELSE error)
        BY <1>3, <1>6, Emitted DEF EmitOnBusboy
    <2>2. IsFirst(p) /\ ~Waiting /\ ~Refused
      <3>1. \A i \in 1..part : ~IsFirst(i)
          BY <1>0, <1>2, <1>6
      <3> QED
          BY <1>2, <1>3, <1>6, <3>1 DEF Waiting, Refused, Right
    <2>3. ctl = "next" => Refused'
        BY <1>0, <1>3, <1>6, <2>1, <2>2, BodyKept DEF Taken, NoFileYet, Refused
    <2> QED
        BY <1>0, <1>4, <2>1, <2>3, BusboyKeepsTaken
  <1>7. CASE Write(p) /\ (IsFile(p) => ~many /\ body[p].field = "file")
    <2>1. /\ error' = error /\ DOMAIN stream' = DOMAIN stream \cup {Len(stream) + 1}
          /\ stream'[Len(stream) + 1] = p /\ \A k \in DOMAIN stream : stream'[k] = stream[k]
      <3>1. stream \in Seq(1..p) /\ p \in 1..p
          BY <1>0, <1>3, SeqMonotonic
      <3>2. DOMAIN stream = 1..Len(stream) /\ Len(stream) \in Nat
          BY <1>3, LenProperties
      <3>3. stream' = Append(stream, p) /\ error' = error
          BY <1>7 DEF Write
      <3>4. stream' \in Seq(1..p) /\ DOMAIN stream' = 1..Len(stream')
          BY <3>1, <3>3, AppendProperties, LenProperties
      <3> QED
          BY <3>1, <3>2, <3>3, <3>4, AppendProperties
    <2>2. IsFile(p) => Right(p)
        BY <1>2, <1>7 DEF Right
    <2>3. \A k \in DOMAIN stream' : IsFile(stream'[k]) => Right(stream'[k])
        BY <1>4, <2>1, <2>2
    <2>4. ASSUME ctl = "next" PROVE (NoFileYet \/ Waiting \/ Refused)'
      <3>1. CASE IsFile(p)
          BY <1>0, <2>1, <2>2, <3>1, BodyKept DEF Waiting
      <3>2. CASE NoFileYet /\ ~IsFile(p)
        <4>1. NoFile(part) /\ error' = "none"
            BY <2>1, <3>2 DEF NoFileYet
        <4>2. NoFile(p)
            BY <1>0, <3>2, <4>1 DEF NoFile
        <4> QED
            BY <1>0, <4>1, <4>2, BodyKept DEF NoFileYet
      <3>3. CASE Waiting
          BY <1>0, <2>1, <3>3, BodyKept DEF Waiting
      <3>4. CASE Refused
          BY <1>0, <2>1, <3>4, BodyKept DEF Refused
      <3> QED
          BY <2>4, <3>1, <3>2, <3>3, <3>4 DEF Taken
    <2> QED
        BY <1>0, <2>3, <2>4, BusboyKeepsTaken
  <1>8. \/ EmitOnBusboy("count") /\ IsFile(p) /\ many
        \/ EmitOnBusboy("field") /\ IsFile(p) /\ ~many /\ body[p].field # "file"
        \/ Write(p) /\ (IsFile(p) => ~many /\ body[p].field = "file")
      BY <1>0 DEF PartBegins
  <1> QED
      BY <1>5, <1>6, <1>7, <1>8

LEMMA ChunkTaken ==
  ASSUME Typed, Taken, Chunk
  PROVE  Taken'
  <1>0. /\ body \in Bodies /\ part \in Parts /\ part \notin closed /\ seen < body[part].size
        /\ seen \in Nat /\ closed \subseteq Parts
        /\ UNCHANGED <<head, body, feed, part, closed, stream, ended, ctl, current, read, answer>>
      BY BodyType DEF Typed, TypeOK, Chunk, Between, Parts, input, controllerVars
  <1>1. \A i \in closed : held'[i] = held[i]
      BY <1>0 DEF Chunk, Typed, TypeOK, Parts
  <1>2. \A k \in DOMAIN stream' : IsFile(stream'[k]) => Right(stream'[k])
      BY <1>0 DEF Taken
  <1>3. ASSUME ctl = "next" PROVE (NoFileYet \/ Waiting \/ Refused)'
    <2>1. IsFile(part)
        BY <1>0, BodyType
    <2>2. ~NoFileYet
        BY <1>0, <2>1 DEF NoFileYet, NoFile, Typed, TypeOK, Parts
    <2>3. Waiting => Waiting'
        BY <1>0, BodyKept DEF Waiting
    <2>4. error = "field" => error' = "field"
      <3>1. answer # "query" /\ error \in Errors
          BY <1>3 DEF Typed, TypeOK, Phases, Errors
      <3> QED
          BY <3>1, Emitted DEF Chunk
    <2>5. Refused => Refused'
        BY <1>0, <2>4, BodyKept DEF Refused
    <2> QED
        BY <1>3, <2>2, <2>3, <2>5 DEF Taken
  <1> QED
      BY <1>0, <1>1, <1>2, <1>3, BusboyKeepsTaken

LEMMA PartEndsTaken ==
  ASSUME Typed, Taken, PartEnds \/ Finish \/ Abort
  PROVE  Taken'
  <1>0. /\ closed \subseteq closed'
        /\ UNCHANGED <<head, body, part, held, stream, error, ctl, current, read, answer>>
      BY DEF PartEnds, Finish, Abort, input, busboyVars, streamVars, controllerVars
  <1>1. ctl = "next" => (NoFileYet \/ Waiting \/ Refused)'
      BY <1>0, BodyKept DEF Taken, NoFileYet, Waiting, Refused
  <1>2. \A k \in DOMAIN stream' : IsFile(stream'[k]) => Right(stream'[k])
      BY <1>0 DEF Taken
  <1> QED
      BY <1>0, <1>1, <1>2, BusboyKeepsTaken

(* A step of the controller: busboy's variables and the body stay.              *)
LEMMA ProcessCsvTaken ==
  ASSUME Typed, Taken, ProcessCsv
  PROVE  Taken'
  <1>0. /\ part = 0 /\ stream = << >> /\ error = "none" /\ answer = "none" /\ body \in Bodies
        /\ UNCHANGED <<head, body, part, held, closed, stream, error, current, read>>
      BY DEF Typed, TypeOK, Phases, ProcessCsv, input, streamVars
  <1>1. NoFileYet'
      BY <1>0 DEF NoFileYet, NoFile
  <1>2. answer' # "accepted" /\ ctl' # "parse" /\ (answer' = "none" \/ answer' \in Expected)
      BY <1>0, Expects DEF ProcessCsv, Reply
  <1>3. Expected' = Expected
      BY <1>0 DEF Expected, QueryIsValid, MultipartThrows, Multipart, Kept, Files, IsFile
  <1>4. AnswerIsOfFirstFile'
      BY <1>2, <1>3 DEF AnswerIsOfFirstFile
  <1>5. DOMAIN stream' = {}
      BY <1>0
  <1> QED
      BY <1>1, <1>2, <1>4, <1>5 DEF Taken

LEMMA NextPartTaken ==
  ASSUME Typed, Taken, NextPart
  PROVE  Taken'
  <1>0. /\ ctl = "next" /\ stream # << >> /\ stream' = Tail(stream) /\ answer = "none"
        /\ stream \in Seq(1..part) /\ read = 0 /\ body \in Bodies /\ Len(body) \in Nat
        /\ part \in 0..Len(body) /\ QueryIsValid /\ Multipart
        /\ UNCHANGED <<head, body, part, held, closed, error, read>>
      BY BodyType DEF Typed, TypeOK, Phases, NextPart, input, busboyVars
  <1>1. /\ 1 \in DOMAIN stream /\ Head(stream) = stream[1] /\ Head(stream) \in 1..part
        /\ \A k \in DOMAIN stream' : k + 1 \in DOMAIN stream /\ stream'[k] = stream[k + 1]
        /\ \A k \in DOMAIN stream : k # 1 => k - 1 \in DOMAIN stream' /\ stream'[k - 1] = stream[k]
    <2>1. DOMAIN stream = 1..Len(stream) /\ Len(stream) \in Nat \ {0}
        BY <1>0, LenProperties, EmptySeq
    <2>2. stream' \in Seq(1..part) /\ Len(stream') = Len(stream) - 1
        BY <1>0, HeadTailProperties
    <2>3. DOMAIN stream' = 1..Len(stream')
        BY <2>2, LenProperties
    <2>4. \A k \in 1..Len(stream') : stream'[k] = stream[k + 1]
        BY <1>0, HeadTailProperties
    <2>5. Head(stream) = stream[1] /\ Head(stream) \in 1..part
        BY <1>0, HeadTailProperties
    <2> QED
        BY <2>1, <2>2, <2>3, <2>4, <2>5
  <1>2. (\A k \in DOMAIN stream : IsFile(stream[k]) => Right(stream[k]))'
      BY <1>0, <1>1, BodyKept DEF Taken
  <1>3. Expected' = Expected
      BY <1>0 DEF Expected, QueryIsValid, MultipartThrows, Multipart, Kept, Files, IsFile
  <1>4. CASE ~IsFile(Head(stream))
    <2>1. UNCHANGED <<ctl, current, answer>>
        BY <1>4 DEF NextPart
    <2>2. ~Right(stream[1])
        BY <1>1, <1>4 DEF Right, IsFirst
    <2>3. (NoFileYet \/ Waiting \/ Refused)'
      <3>1. NoFileYet => NoFileYet'
          BY <1>0, BodyKept DEF NoFileYet
      <3>2. Waiting => Waiting'
          BY <1>0, <1>1, <2>2, BodyKept DEF Waiting
      <3>3. Refused => Refused'
          BY <1>0, BodyKept DEF Refused
      <3> QED
          BY <1>0, <3>1, <3>2, <3>3 DEF Taken
    <2>4. AnswerIsOfFirstFile'
        BY <1>0, <2>1 DEF AnswerIsOfFirstFile
    <2> QED
        BY <1>0, <1>2, <2>1, <2>3, <2>4 DEF Taken
  <1>5. CASE IsFile(Head(stream))
    <2>1. current' = Head(stream) /\ Right(Head(stream))
        BY <1>1, <1>5 DEF NextPart, Taken
    <2>2. Right(current)' /\ current' \in Parts
        BY <1>0, <1>1, <2>1 DEF Right, IsFirst, IsFile, Parts
    <2>3. body[current'].bad \in Nat /\ Kept(Head(stream)) \in Nat
      <3>1. body[current'].bad \in Nat /\ body[current'].size \in Nat /\ FileSizeLimit \in Nat
          BY <1>0, <2>2, BodyType, UploadAssumption
      <3>2. Kept(Head(stream)) \in {body[current'].size, FileSizeLimit}
          BY <1>0, <2>1, <2>2, KeptIs
      <3> QED
          BY <3>1, <3>2
    <2>4. CASE body[current'].bad = 0 /\ Reply("invalid")
      <3>1. "invalid" \in Expected
        <4>1. body[Head(stream)].bad <= Kept(Head(stream)) + 1
            BY <2>1, <2>3, <2>4
        <4> QED
            BY <1>0, <2>1, <4>1, Expects
      <3>2. answer' = "invalid" /\ ctl' = "done"
          BY <2>4 DEF Reply
      <3>3. AnswerIsOfFirstFile'
          BY <1>3, <3>1, <3>2 DEF AnswerIsOfFirstFile
      <3> QED
          BY <1>2, <3>2, <3>3 DEF Taken
    <2>5. CASE body[current'].bad # 0 /\ ctl' = "parse" /\ UNCHANGED answer
        BY <1>0, <1>2, <2>2, <2>3, <2>5 DEF Taken, AnswerIsOfFirstFile
    <2> QED
        BY <1>5, <2>4, <2>5 DEF NextPart
  <1> QED
      BY <1>4, <1>5

(* A file holds no more than is kept of it.                                     *)
LEMMA HeldIsKept ==
  ASSUME Typed, NEW i \in 1..part
  PROVE  held[i] <= Kept(i)
  <1>0. /\ body \in Bodies /\ i \in Parts /\ part \in Parts /\ part \in Nat
        /\ seen \in Nat /\ FileSizeLimit \in Nat
      BY BodyType, UploadAssumption DEF Typed, TypeOK, Parts
  <1>1. body[i].size \in Nat
      BY <1>0, BodyType
  <1>2. Kept(i) = IF body[i].size < FileSizeLimit THEN body[i].size ELSE FileSizeLimit
      BY <1>0, KeptIs
  <1>3. CASE i = part
    <2>1. /\ seen <= body[i].size
          /\ held[i] = IF seen < FileSizeLimit THEN seen ELSE FileSizeLimit
        BY <1>0, <1>3 DEF Typed, Received
    <2> QED
        BY <1>0, <1>1, <1>2, <2>1
  <1>4. CASE i # part
    <2>1. i \in closed
        BY <1>0, <1>4 DEF Typed, Received
    <2> QED
        BY <1>0, <1>1, <1>2, <2>1 DEF Typed, Received
  <1> QED
      BY <1>3, <1>4

LEMMA ReadChunkTaken ==
  ASSUME Typed, Taken, ReadChunk
  PROVE  Taken'
  <1>0. /\ ctl = "parse" /\ answer = "none" /\ current \in Parts /\ body \in Bodies
        /\ QueryIsValid /\ Multipart
        /\ read \in Nat /\ held[current] \in 0..FileSizeLimit /\ read < held[current]
        /\ read' = read + 1 /\ Right(current) /\ read < body[current].bad
        /\ UNCHANGED <<head, body, part, held, closed, stream, error, current>>
    <2>1. /\ current \in Parts /\ body \in Bodies /\ held \in [Parts -> 0..FileSizeLimit]
          /\ read \in 0..held[current]
        BY BodyType DEF Typed, TypeOK, Phases, Parts, ReadChunk
    <2>2. read \in Nat /\ held[current] \in 0..FileSizeLimit
        BY <2>1
    <2> QED
        BY <2>1, <2>2
        DEF Typed, Phases, Taken, ReadChunk, input, busboyVars, streamVars
  <1>1. /\ (\A k \in DOMAIN stream : IsFile(stream[k]) => Right(stream[k]))'
        /\ Right(current)'
      BY <1>0, BodyKept DEF Taken
  <1>2. Expected' = Expected
      BY <1>0 DEF Expected, QueryIsValid, MultipartThrows, Multipart, Kept, Files, IsFile
  <1>3. body[current].bad \in Nat
      BY <1>0, BodyType
  <1>4. CASE read' = body[current].bad /\ Reply("invalid")
    <2>1. held[current] <= Kept(current)
        BY <1>0, HeldIsKept DEF Typed, TypeOK, Phases
    <2>2. body[current].bad <= Kept(current) + 1
        BY <1>0, <1>3, <1>4, <2>1, KeptIs, BodyType, UploadAssumption
    <2>3. "invalid" \in Expected
        BY <1>0, <2>2, Expects
    <2>4. answer' = "invalid" /\ ctl' = "done"
        BY <1>4 DEF Reply
    <2>5. AnswerIsOfFirstFile'
        BY <1>2, <2>3, <2>4 DEF AnswerIsOfFirstFile
    <2> QED
        BY <1>1, <2>4, <2>5 DEF Taken
  <1>5. CASE read' # body[current].bad /\ UNCHANGED <<ctl, answer>>
    <2>1. AnswerIsOfFirstFile'
        BY <1>0, <1>5 DEF AnswerIsOfFirstFile
    <2>2. read' < body[current].bad
        BY <1>0, <1>3, <1>5
    <2> QED
        BY <1>0, <1>1, <1>5, <2>1, <2>2 DEF Taken
  <1> QED
      BY <1>4, <1>5 DEF ReadChunk

LEMMA FileEndsTaken ==
  ASSUME Typed, Taken, FileEnds
  PROVE  Taken'
  <1>0. /\ ctl = "parse" /\ current \in closed /\ current \in Parts /\ body \in Bodies
        /\ QueryIsValid /\ Multipart
        /\ read = held[current] /\ held[current] = Kept(current) /\ Right(current)
        /\ read < body[current].bad /\ ctl' = "done"
        /\ answer' = IF body[current].bad = read + 1 THEN "invalid" ELSE "accepted"
        /\ UNCHANGED <<head, body, part, held, closed, stream, error, current, read>>
      BY DEF Typed, TypeOK, Received, Phases, Taken, Parts, FileEnds, Reply, input,
         busboyVars, streamVars
  <1>1. /\ (\A k \in DOMAIN stream : IsFile(stream[k]) => Right(stream[k]))'
        /\ Right(current)'
      BY <1>0, BodyKept DEF Taken
  <1>2. answer' \in Expected
    <2>1. body[current].bad \in Nat /\ Kept(current) \in Nat
        BY <1>0, BodyType, KeptIs, UploadAssumption
    <2>2. body[current].bad <= Kept(current) + 1 <=> body[current].bad = read + 1
        BY <1>0, <2>1
    <2> QED
        BY <1>0, <2>2, Expects
  <1>3. Expected' = Expected /\ Kept(current)' = Kept(current) /\ Files(Len(body))' = Files(Len(body))
      BY <1>0 DEF Expected, QueryIsValid, MultipartThrows, Multipart, Kept, Files, IsFile
  <1>4. Min(Files(Len(body))) = current
      BY <1>0, FirstIsMin DEF Right
  <1>5. AnswerIsOfFirstFile'
      BY <1>0, <1>2, <1>3, <1>4 DEF AnswerIsOfFirstFile
  <1> QED
      BY <1>0, <1>1, <1>5 DEF Taken

LEMMA LoopEndsTaken ==
  ASSUME Typed, Taken, LoopEnds
  PROVE  Taken'
  <1>0. /\ ctl = "next" /\ answer = "none" /\ stream = << >> /\ body \in Bodies
        /\ QueryIsValid /\ Multipart /\ ctl' = "done"
        /\ UNCHANGED <<head, body, part, held, closed, stream, error, current, read>>
      BY DEF Typed, TypeOK, Phases, LoopEnds, Reply, input, busboyVars, streamVars
  <1>1. (\A k \in DOMAIN stream : IsFile(stream[k]) => Right(stream[k]))'
      BY <1>0, BodyKept DEF Taken
  <1>2. Expected' = Expected
      BY <1>0 DEF Expected, QueryIsValid, MultipartThrows, Multipart, Kept, Files, IsFile
  <1>3. NoFileYet \/ Refused
      BY <1>0 DEF Taken, Waiting
  <1>4. CASE error # "none" /\ Reply(error)
    <2>1. Refused /\ error = "field"
        BY <1>3, <1>4 DEF NoFileYet, Refused
    <2>2. "field" \in Expected
        BY <1>0, <2>1, Expects DEF Refused
    <2> QED
        BY <1>0, <1>1, <1>2, <1>4, <2>1, <2>2 DEF Taken, AnswerIsOfFirstFile, Reply
  <1>5. CASE error = "none" /\ ended /\ Reply("noFile")
    <2>1. NoFile(Len(body))
        BY <1>3, <1>5 DEF Refused, NoFileYet, Typed, Phases
    <2>2. "noFile" \in Expected
        BY <1>0, <2>1, Expects
    <2> QED
        BY <1>0, <1>1, <1>2, <1>5, <2>2 DEF Taken, AnswerIsOfFirstFile, Reply
  <1> QED
      BY <1>4, <1>5 DEF LoopEnds

LEMMA NextTaken ==
  ASSUME FilesCountLimit = 1
  PROVE  Typed /\ Taken /\ [Next]_vars => Taken'
  <1>1. ASSUME Typed, Taken, UNCHANGED vars PROVE Taken'
    <2>1. UNCHANGED <<head, body, part, held, closed, stream, error, ctl, current, read, answer>>
        BY <1>1 DEF vars, input, busboyVars, streamVars, controllerVars
    <2>2. ctl = "next" => (NoFileYet \/ Waiting \/ Refused)'
        BY <1>1, <2>1, BodyKept DEF Taken, NoFileYet, Waiting, Refused
    <2>3. \A k \in DOMAIN stream' : IsFile(stream'[k]) => Right(stream'[k])
        BY <1>1, <2>1 DEF Taken
    <2> QED
        BY <1>1, <2>1, <2>2, <2>3, BusboyKeepsTaken
  <1> QED
      BY <1>1, ProcessCsvTaken, PartBeginsTaken, ChunkTaken, PartEndsTaken, NextPartTaken,
         ReadChunkTaken, FileEndsTaken, LoopEndsTaken
      DEF Next, BusboyStep, ControllerStep

LEMMA InitTaken == Init => Taken
  BY DEF Init, Taken, AnswerIsOfFirstFile

(* The answer to a request is that of its first file, as multipart.decorator.ts *)
(* and the loop of the controller are configured (CSV_FILES_COUNT_LIMIT is 1):  *)
(* for every body, every size limit and every order in which the listeners and  *)
(* the controller run; and what is scheduled was read to the end busboy gave.   *)
THEOREM AnswerOfFirstFile ==
  ASSUME FilesCountLimit = 1
  PROVE  Spec => []AnswerIsOfFirstFile
  <1>1. Taken => AnswerIsOfFirstFile
      BY DEF Taken
  <1>2. Typed /\ Taken /\ [Next]_vars => Taken'
      BY NextTaken
  <1> QED
      BY InitTyped, NextTyped, InitTaken, <1>1, <1>2, PTL DEF Spec

===============================================================================
