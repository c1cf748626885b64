------------------------------- MODULE JobLogs -------------------------------
(***************************************************************************)
(* The log of a job on its way to the database.  While createContainer     *)
(* pulls the image, every line of the pull becomes a message to the        *)
(* server; then exec reads the script's output.  Docker sends frames, each *)
(* a header that names the stream and a payload; exec reads chunks, in     *)
(* which splitFrames looks for the frames, and every frame becomes a       *)
(* message, its secrets hidden.  A job that fails gets one more.  All are  *)
(* numbered by one counter, and the server stores them.                    *)
(* A chunk is a sequence of tokens of eight bytes: headers and parts of    *)
(* payloads, some of them secrets.  Three things are left out: a boundary  *)
(* within a token, with it a secret in two frames; a payload that looks    *)
(* like a header; the text of the system's messages.                       *)
(***************************************************************************)
EXTENDS Naturals, Sequences, FiniteSets, SequencesExt

CONSTANTS
  Outputs,     \* the outputs a script may have: sequences of frames
  MaxChunks,   \* bounds the chunks in which an output arrives
  MaxLines,    \* bounds the lines of the pull
  HiddenParts  \* which parts of a payload are values of job.hideFromLogs

Stream == {"stdout", "stderr"}
Header(s) == [header |-> s]
Part(f, n) == [frame |-> f, part |-> n]
Hidden == [hidden |-> TRUE]

\* A frame of an output is a stream and the number of parts of its payload.
ASSUME LogAssumption ==
  /\ \A o \in Outputs : o \in Seq([stream : Stream, parts : Nat \ {0}])
  /\ MaxChunks \in Nat \ {0}
  /\ MaxLines \in Nat
  /\ HiddenParts \subseteq Nat

VARIABLES
  output,      \* what the script writes
  stream,      \* the tokens that exec has not read yet
  chunks,      \* the number of chunks so far
  tidy,        \* every chunk so far was cut between frames and had at most eight
  pc,          \* where execJob is
  pulled,      \* the number of lines of the pull
  logIndex,    \* execJob's counter
  socket,      \* messages from the runner to the server, in order
  inserting,   \* those whose insertOne is under way
  jobLogs      \* the collection

vars == <<output, stream, chunks, tidy, pc, pulled, logIndex, socket, inserting, jobLogs>>

Payload(f) == [n \in 1..output[f].parts |-> Part(f, n)]

Tokens == FlattenSeq([f \in DOMAIN output |-> <<Header(output[f].stream)>> \o Payload(f)])

StreamType == Stream \cup {"unknown", "system"}

TypeOK ==
  /\ chunks \in 0..MaxChunks /\ tidy \in BOOLEAN
  /\ pc \in {"pull", "exec", "inspect", "done"}
  /\ pulled \in 0..MaxLines
  /\ logIndex \in Nat
  /\ \A l \in ToSet(socket) \cup inserting \cup jobLogs :
       l.index \in 0..(logIndex - 1) /\ l.streamType \in StreamType
  /\ Cardinality(ToSet(socket) \cup inserting \cup jobLogs) = logIndex

Init ==
  /\ output \in Outputs
  /\ stream = Tokens
  /\ chunks = 0 /\ tidy = TRUE
  /\ pc = "pull" /\ pulled = 0
  /\ logIndex = 0
  /\ socket = <<>>
  /\ inserting = {} /\ jobLogs = {}

-----------------------------------------------------------------------------
IsHeader(t) == "header" \in DOMAIN t

\* Splitting at the pattern of a header and keeping it: the headers and what
\* is between them, without empty strings.  Cuts are where strings begin.
Cuts(chunk) == {i \in DOMAIN chunk : i = 1 \/ IsHeader(chunk[i]) \/ IsHeader(chunk[i - 1])}

Nth(cuts, k) == CHOOSE i \in cuts : Cardinality({c \in cuts : c <= i}) = k

Strings(chunk) ==
  LET cuts == Cuts(chunk)
      End(k) == IF k = Cardinality(cuts) THEN Len(chunk) ELSE Nth(cuts, k + 1) - 1
  IN [k \in 1..Cardinality(cuts) |-> SubSeq(chunk, Nth(cuts, k), End(k))]

\* A string's length in hexadecimal digits.
Digits(string) == 16 * Len(string)

\* Every other string, counted from zero, with the one that follows it.
\* Broken: the last string is never taken to be a payload.
PairWithinShort(strings, i) ==
  IF i + 2 < Len(strings) THEN strings[i + 1] \o strings[i + 2] ELSE strings[i + 1]

\* The code compares the index with the length of the string.
Pair(strings, i) ==
  IF i + 1 < Digits(strings[i + 1]) /\ i + 1 < Len(strings)
  THEN strings[i + 1] \o strings[i + 2] ELSE strings[i + 1]

SplitFrames(chunk) ==
  LET strings == Strings(chunk)
  IN [k \in 1..((Len(strings) + 1) \div 2) |-> Pair(strings, 2 * (k - 1))]

\* The first byte of text is none of the stream numbers.
GetStreamType(t) == IF IsHeader(t) THEN t.header ELSE "unknown"

\* Broken: the counter is incremented before it is used.
NumberFromOne(k) == logIndex + k

Number(k) == logIndex + k - 1

\* Every value to be hidden is replaced, frame by frame.
HideSecretsFromLog(text) ==
  [i \in DOMAIN text |->
     IF "part" \in DOMAIN text[i] /\ text[i].part \in HiddenParts THEN Hidden ELSE text[i]]

\* exec takes the first eight bytes for the header; runLogger numbers what is
\* left and sends it.
Messages(frames) ==
  [k \in DOMAIN frames |->
     [index |-> Number(k), streamType |-> GetStreamType(Head(frames[k])),
      text |-> HideSecretsFromLog(Tail(frames[k]))]]

SystemLog ==
  /\ socket' = Append(socket, [index |-> Number(1), streamType |-> "system", text |-> <<>>])
  /\ logIndex' = logIndex + 1

-----------------------------------------------------------------------------
(* The runner: createContainer, exec and the end of execJob.               *)

PullLine ==
  /\ pc = "pull" /\ pulled < MaxLines
  /\ pulled' = pulled + 1
  /\ SystemLog
  /\ UNCHANGED <<output, stream, chunks, tidy, pc, inserting, jobLogs>>

\* The pull ends, the container starts and the script in it.
CreateContainer ==
  /\ pc = "pull"
  /\ pc' = "exec"
  /\ UNCHANGED <<output, stream, chunks, tidy, pulled, logIndex, socket, inserting, jobLogs>>

\* Chunks are cut anywhere.
ReadChunk(n) ==
  LET frames == SplitFrames(SubSeq(stream, 1, n))
      headers == {i \in 1..n : IsHeader(stream[i])}
  IN /\ pc = "exec"
     /\ chunks + 1 < MaxChunks \/ n = Len(stream)
     /\ chunks' = chunks + 1
     /\ stream' = SubSeq(stream, n + 1, Len(stream))
     /\ tidy' = (tidy /\ Cardinality(headers) <= 8
                     /\ (n < Len(stream) => IsHeader(stream[n + 1])))
     /\ socket' = socket \o Messages(frames)
     /\ logIndex' = logIndex + Len(frames)
     /\ UNCHANGED <<output, pc, pulled, inserting, jobLogs>>

StreamEnds ==
  /\ pc = "exec" /\ stream = <<>>
  /\ pc' = "inspect"
  /\ UNCHANGED <<output, stream, chunks, tidy, pulled, logIndex, socket, inserting, jobLogs>>

\* The exit code is 0 and the files of the job are read.
Succeeds ==
  /\ pc = "inspect"
  /\ pc' = "done"
  /\ UNCHANGED <<output, stream, chunks, tidy, pulled, logIndex, socket, inserting, jobLogs>>

\* execJob catches an error: of the pull, of the stream, whatever is left of
\* it, the exit code of the script, or of the files.  It sends a last log,
\* unless the job is cancelled.
Fails(cancelled) ==
  /\ pc \in {"pull", "exec", "inspect"}
  /\ pc' = "done"
  /\ IF cancelled THEN UNCHANGED <<socket, logIndex>> ELSE SystemLog
  /\ UNCHANGED <<output, stream, chunks, tidy, pulled, inserting, jobLogs>>

-----------------------------------------------------------------------------
\* addJobLog on the server: it does not wait for the insertion, so several are
\* under way and end in any order.
AddJobLog ==
  /\ socket # <<>>
  /\ inserting' = inserting \cup {Head(socket)}
  /\ socket' = Tail(socket)
  /\ UNCHANGED <<output, stream, chunks, tidy, pc, pulled, logIndex, jobLogs>>

Inserted(l) ==
  /\ inserting' = inserting \ {l}
  /\ jobLogs' = jobLogs \cup {l}
  /\ UNCHANGED <<output, stream, chunks, tidy, pc, pulled, logIndex, socket>>

RunnerStep ==
  \/ PullLine \/ CreateContainer \/ StreamEnds \/ Succeeds
  \/ \E cancelled \in BOOLEAN : Fails(cancelled)
  \/ \E n \in DOMAIN stream : ReadChunk(n)

Next == RunnerStep \/ AddJobLog \/ \E l \in inserting : Inserted(l)

Spec == Init /\ [][Next]_vars

FairSpec == Spec /\ WF_vars(Next)

-----------------------------------------------------------------------------
(* Properties.                                                             *)

\* The text of a stream as a reader puts it together: by index.
Log(i) == CHOOSE l \in jobLogs : l.index = i - 1

TextOf(s) ==
  FlattenSeq([i \in 1..logIndex |-> IF Log(i).streamType = s THEN Log(i).text ELSE <<>>])

\* What exec has read of the output, which is all of it unless the stream
\* fails, and a payload with its secrets hidden.
FramesRead == Len(output) - Cardinality({i \in DOMAIN stream : IsHeader(stream[i])})

Shown(f) == [n \in 1..output[f].parts |-> IF n \in HiddenParts THEN Hidden ELSE Part(f, n)]

WrittenTo(s) ==
  FlattenSeq([f \in 1..FramesRead |-> IF output[f].stream = s THEN Shown(f) ELSE <<>>])

\* When all is stored, the text of each stream is what the script wrote to
\* it, in order, whole, without headers and with its secrets hidden, whichever
\* insertion ended first ("should split frames"), as far as Docker's stream
\* went, and unless a chunk held more than eight frames or a part of one.
LogIsOutput ==
  tidy /\ pc = "done" /\ Cardinality(jobLogs) = logIndex =>
    \A s \in Stream : TextOf(s) = WrittenTo(s)

\* All of it is stored, with different numbers, the first for the lines of
\* the pull and the last one for what execJob adds, however the output is cut
\* into chunks and whatever fails on the way.
AllIsLogged ==
  <>[](/\ pc = "done"
       /\ {l.index : l \in jobLogs} = 0..(logIndex - 1)
       /\ \A l \in jobLogs :
            /\ l.index < pulled => l.streamType = "system"
            /\ l.streamType = "system" => l.index < pulled \/ l.index = logIndex - 1)
=============================================================================
