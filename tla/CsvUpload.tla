------------------------------- MODULE CsvUpload -------------------------------
(* POST process/csv of image-processing.controller.ts up to the call of the     *)
(* scheduling service: busboy takes the body apart and calls the listeners of   *)
(* multipart.decorator.ts, which write the parts to a stream; the controller    *)
(* iterates over that stream and lets CSVEntity read the first file in it.      *)
(* Between the two sides are buffers, so the listeners and the controller run   *)
(* in any order the buffers allow.                                              *)
(*                                                                              *)
(* busboy and the streams of Node are external, modelled as they are used: a    *)
(* file over the size limit ends where the limit is; an error that is emitted   *)
(* on a stream is kept by the iterator over it and thrown when the iterator is  *)
(* asked for the next item and none is left.  Nest resolves the parameters of   *)
(* processCsv side by side; the pipe of the query settles before the request,   *)
(* which flows from the next turn on, has given busboy anything.                *)
(*                                                                              *)
(* A body is a complete form.  What busboy does with a request that ends before *)
(* the last boundary ("Unexpected end of form") is its own, and not modelled.   *)
EXTENDS Integers, Sequences, FiniteSetsExt

CONSTANTS
    Bodies,           \* the bodies of the requests: sequences of parts
    Heads,            \* what precedes them: [contentType, query]
    FilesCountLimit,  \* CSV_FILES_COUNT_LIMIT
    FileSizeLimit     \* CSV_FILE_SIZE_LIMIT, in chunks

(* A field comes with its value, a file in chunks.  The parser rejects a file   *)
(* when it reads chunk bad of what busboy gives it of the file, whose end       *)
(* counts as one chunk more, in which the row left open is read; 0 is a wrong   *)
(* mime type, and a file that ends before bad is accepted.                      *)
BodyPart == [type : {"file"}, field : STRING, size : Nat, bad : Nat]
            \cup [type : {"field"}, field : STRING, size : {0}, bad : {0}]

ASSUME UploadAssumption ==
    /\ FilesCountLimit \in Nat \ {0} /\ FileSizeLimit \in Nat
    /\ \A b \in Bodies : b \in Seq(BodyPart)

VARIABLES
    head,      \* the kind of content type, and whether the query is valid
    body,      \* the parts: [type, field, size, bad]
    feed,      \* the connection between the request and busboy
    part,      \* the part busboy is in, and how many of its chunks it has seen
    seen,
    held,      \* the chunks pushed to the stream of each file
    closed,    \* the parts whose end busboy has seen
    stream,    \* the parts written to the decorator's stream and not yet read
    ended,     \* stream.end() was called
    error,     \* the error the iterator over the stream keeps
    ctl,       \* where the controller is
    current,   \* the file it parses, and how many of its chunks it has read
    read,
    answer

busboyVars == <<feed, part, seen, held, closed>>
streamVars == <<stream, ended, error>>
controllerVars == <<ctl, current, read, answer>>
input == <<head, body>>
vars == <<input, busboyVars, streamVars, controllerVars>>

IsFile(i) == body[i].type = "file"
Files(upTo) == {i \in 1..upTo : IsFile(i)}

TypeOK ==
    /\ body \in Bodies /\ head \in Heads
    /\ feed \in {"none", "flowing", "unpiped", "aborted"}
    /\ part \in 0..Len(body) /\ seen \in Nat
    /\ held \in [1..Len(body) -> 0..FileSizeLimit]
    /\ closed \subseteq 1..part
    /\ stream \in Seq(1..part)
    /\ ended \in BOOLEAN
    /\ error \in {"none", "count", "field", "size", "uncaught"}
    /\ ctl \in {"params", "next", "parse", "done"}
    /\ current \in 0..part
    /\ current # 0 => read \in 0..held[current]
    /\ answer \in {"none", "accepted", "invalid", "noFile", "count", "field", "size",
                   "query", "malformed"}

Init ==
    /\ body \in Bodies /\ head \in Heads
    /\ feed = "none" /\ part = 0 /\ seen = 0
    /\ held = [i \in 1..Len(body) |-> 0] /\ closed = {}
    /\ stream = << >> /\ ended = FALSE /\ error = "none"
    /\ ctl = "params" /\ current = 0 /\ read = 0 /\ answer = "none"

--------------------------------------------------------------------------------
(* The parameters of processCsv. *)

(* What the client is told, whoever throws it: the result of the controller, or *)
(* the exception the filter turns into an answer.                               *)
Reply(a) == ctl' = "done" /\ answer' = a

(* The decorator: undefined for another content type; busboy throws when the    *)
(* boundary is missing; else the request is piped into it.                      *)
Multipart == head.contentType = "multipart"
MultipartThrows == head.contentType = "noBoundary"

(* HttpReqValidationPipe on the query, which holds the url of the webhook.      *)
QueryIsValid == head.query = "valid"

(* The first rejection is the answer; a request that was piped flows on.        *)
ProcessCsv ==
    /\ ctl = "params"
    /\ feed' = IF Multipart THEN "flowing" ELSE feed
    /\ \/ ~QueryIsValid /\ Reply("query")
       \/ MultipartThrows /\ Reply("malformed")
       \/ QueryIsValid /\ head.contentType = "other" /\ Reply("noFile")
       \/ QueryIsValid /\ Multipart /\ ctl' = "next" /\ UNCHANGED answer
    /\ UNCHANGED <<input, part, seen, held, closed, streamVars, current, read>>

--------------------------------------------------------------------------------
(* busboy and the listeners of getMultipartData. *)

Between == part = 0 \/ part \in closed

(* What was buffered when the request was unpiped is still parsed.              *)
Feeding == feed \in {"flowing", "unpiped"} /\ error # "uncaught"

(* The iterator keeps the first error only.  When the query was rejected there  *)
(* never was an iterator: nobody listens, and the error ends the process.       *)
EmitOnStream(e) ==
    error' = CASE answer = "query" -> "uncaught"
               [] answer # "query" /\ error = "none" -> e
               [] OTHER -> error

(* b.emit('error'): pipe() unpipes the request, and the listener at line 114    *)
(* passes the error to the stream.                                              *)
EmitOnBusboy(e) ==
    /\ feed' = "unpiped"
    /\ EmitOnStream(e)
    /\ UNCHANGED stream

Write(i) ==
    /\ stream' = Append(stream, i)
    /\ UNCHANGED <<feed, error>>

(* The 'field' and 'file' listeners.                                            *)
PartBegins ==
    /\ Feeding /\ Between /\ part < Len(body)
    /\ part' = part + 1 /\ seen' = 0
    /\ LET tooMany == IsFile(part') /\ Cardinality(Files(part')) > FilesCountLimit
           otherField == IsFile(part') /\ body[part'].field # "file"
       IN \/ tooMany /\ EmitOnBusboy("count")
          \/ ~tooMany /\ otherField /\ EmitOnBusboy("field")
          \/ ~tooMany /\ ~otherField /\ Write(part')
    /\ UNCHANGED <<input, held, closed, ended, controllerVars>>

(* Mutant: the chunk that exceeds the limit is passed on.                       *)
ChunkOverLimit ==
    /\ Feeding /\ ~Between /\ seen < body[part].size
    /\ seen' = seen + 1
    /\ held' = [held EXCEPT ![part] = @ + 1]
    /\ UNCHANGED <<input, feed, part, closed, streamVars, controllerVars>>

(* A chunk of a part: pushed while the file is within the limit, dropped after. *)
(* The 'limit' listener is missing on a file that was not written, but then the *)
(* iterator has an error already.                                               *)
Chunk ==
    /\ Feeding /\ ~Between /\ seen < body[part].size
    /\ seen' = seen + 1
    /\ IF seen < FileSizeLimit
       THEN held' = [held EXCEPT ![part] = @ + 1] /\ UNCHANGED error
       ELSE /\ IF seen = FileSizeLimit THEN EmitOnStream("size") ELSE UNCHANGED error
            /\ UNCHANGED held
    /\ UNCHANGED <<input, feed, part, closed, stream, ended, controllerVars>>

PartEnds ==
    /\ Feeding /\ ~Between /\ seen = body[part].size
    /\ closed' = closed \cup {part}
    /\ UNCHANGED <<input, feed, part, seen, held, streamVars, controllerVars>>

(* Mutant: finish is not passed on to the stream.                               *)
FinishIgnored == FALSE

(* busboy finishes when every file was read to its end.                         *)
Finish ==
    /\ Feeding /\ feed = "flowing" /\ Between /\ part = Len(body) /\ ~ended
    /\ \A i \in Files(part) : i = current /\ read = held[i]
    /\ ended' = TRUE
    /\ UNCHANGED <<input, busboyVars, stream, error, controllerVars>>

(* The client goes away: nothing tells busboy.                                  *)
Abort ==
    /\ feed # "aborted"
    /\ feed' = "aborted"
    /\ UNCHANGED <<input, part, seen, held, closed, streamVars, controllerVars>>

--------------------------------------------------------------------------------
(* The controller. *)

(* The loop takes the next part: a field is passed over, a file goes to         *)
(* validateAndParse, which checks its mime type first.                          *)
NextPart ==
    /\ ctl = "next" /\ stream # << >>
    /\ stream' = Tail(stream)
    /\ IF ~IsFile(Head(stream))
       THEN UNCHANGED <<ctl, current, answer>>
       ELSE /\ current' = Head(stream)
            /\ IF body[current'].bad = 0 THEN Reply("invalid")
               ELSE ctl' = "parse" /\ UNCHANGED answer
    /\ UNCHANGED <<input, busboyVars, ended, error, read>>

(* parseData reads a chunk of the file.                                         *)
ReadChunk ==
    /\ ctl = "parse" /\ read < held[current]
    /\ read' = read + 1
    /\ IF read' = body[current].bad THEN Reply("invalid") ELSE UNCHANGED <<ctl, answer>>
    /\ UNCHANGED <<input, busboyVars, streamVars, current>>

(* Mutant: a file with nothing left in its buffer is taken for ended.           *)
FileDrained ==
    /\ ctl = "parse" /\ read = held[current]
    /\ Reply("accepted")
    /\ UNCHANGED <<input, busboyVars, streamVars, current, read>>

(* The file ends: parseData reads the row that is still open, the loop breaks,  *)
(* and what was parsed is scheduled.                                            *)
FileEnds ==
    /\ ctl = "parse" /\ read = held[current] /\ current \in closed
    /\ Reply(IF body[current].bad = read + 1 THEN "invalid" ELSE "accepted")
    /\ UNCHANGED <<input, busboyVars, streamVars, current, read>>

(* The loop is asked for the next part and there is none.                       *)
LoopEnds ==
    /\ ctl = "next" /\ stream = << >>
    /\ \/ error # "none" /\ Reply(error)
       \/ error = "none" /\ ended /\ Reply("noFile")
    /\ UNCHANGED <<input, busboyVars, streamVars, current, read>>

--------------------------------------------------------------------------------
BusboyStep == PartBegins \/ Chunk \/ PartEnds \/ Finish
ControllerStep == ProcessCsv \/ NextPart \/ ReadChunk \/ FileEnds \/ LoopEnds

Next == BusboyStep \/ Abort \/ ControllerStep

Spec == Init /\ [][Next]_vars

(* A request that is not aborted is sent to its end, and the controller goes on *)
(* when it can.                                                                 *)
FairSpec == Spec /\ WF_vars(BusboyStep) /\ WF_vars(ControllerStep)

--------------------------------------------------------------------------------
(* Properties. *)

Kept(i) == Min({body[i].size, FileSizeLimit})

(* The answer the body should get, whatever the order of the events.            *)
Expected ==
    IF ~QueryIsValid \/ MultipartThrows
    THEN {a \in {"query", "malformed"} : IF a = "query" THEN ~QueryIsValid ELSE MultipartThrows}
    ELSE IF ~Multipart \/ Files(Len(body)) = {} THEN {"noFile"}
    ELSE LET first == Min(Files(Len(body)))
         IN IF body[first].field # "file" THEN {"field"}
            ELSE IF body[first].bad <= Kept(first) + 1 THEN {"invalid"} ELSE {"accepted"}

(* The answer depends on the head of the request and on the first file of its   *)
(* body alone: not on when busboy calls the listeners, nor on errors that reach *)
(* the stream while the controller parses the file.  What is scheduled was read *)
(* to the end busboy gave it: its own, or the size limit.                       *)
AnswerIsOfFirstFile ==
    /\ answer = "none" \/ answer \in Expected
    /\ answer = "accepted" => current = Min(Files(Len(body))) /\ read = Kept(current)

(* Every request is answered, unless its client goes away.                      *)
UploadIsAnswered == <>(answer # "none" \/ feed = "aborted")

(* multipart.decorator.ts:80 and 101, "Maximum allowed files" and "File size    *)
(* limit exceeded": a body over a limit is not accepted.                        *)
LimitsAreEnforced ==
    answer = "accepted" =>
        /\ Cardinality(Files(Len(body))) <= FilesCountLimit
        /\ body[current].size <= FileSizeLimit
================================================================================
