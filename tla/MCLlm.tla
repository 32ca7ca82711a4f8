-------------------------------- MODULE MCLlm --------------------------------
(* Constants for the run over LlmCallers.  The run also goes through inputs   *)
(* of the pure algorithms (the four other modules): in one of its initial     *)
(* states a sample is drawn, and the callers stand still from there on.       *)
EXTENDS LlmCallers, History, Schema, Structure, Interactions

VARIABLE sample   \* the input drawn, NoSample as long as the callers run

\* Around the cut prompt, below and inside the range of the search, above it.
MCLimits == {1000, 2047, 2048, 5000, 128000, 515625, 600000, 999999, 1000000,
             1240000, 1492187, 2000000}
\* A byte a token, prose, and a run of one letter.
MCDensities == {1, 4, 8}
MCSizes == {500, 2048, 3000, 200000}

Sequences(S, n) == UNION {[1 .. k -> S] : k \in 0 .. n}

\* Up to four messages that round down to nothing, just one token, or ten; and
\* budgets below, at and between the counts they can have.
Conversations ==
  [messages : Sequences([role : Roles, bytes : {3, 4, 40}], 4),
   maxTokens : {0, 3, 6, 7, 8, 11, 16, 17, 30, 40}]

Answers == [raw : Sequences(Openers \cup Closers \cup {"text"}, 6)]

WordsOf(lang) ==
  LET marks == Blocks(lang)
  IN  {"code", "tab", "nl", "quote", LineMark(lang)}
        \cup {marks[k][n] : k \in DOMAIN marks, n \in {1, 2}}
Texts == UNION {[language : {lang}, text : Sequences(WordsOf(lang), 5)] : lang \in Languages}

\* A chain two interactions longer than the query is deep, or any part of it, with
\* two ways back; and projects with nothing of it, all, its head, its tail, some.
Features == 1 .. 9
Graphs ==
  [interactions : SUBSET ({<<n, n + 1>> : n \in 1 .. 8} \cup {<<4, 2>>, <<9, 1>>}),
   project : {{}, Features, {1}, {8, 9}, {1, 5}}]

NoSample == [none |-> {}]

MCInit == Init /\ sample = NoSample

Draw ==
  /\ sample = NoSample
  /\ caller = "discovery" /\ asks = 0 /\ outcome = "none" /\ ~cancelled
  /\ limit = 1000 /\ density = 1 /\ size = 500
  /\ sample' \in Conversations \cup Answers \cup Texts \cup Graphs
  /\ UNCHANGED vars

Run == sample = NoSample /\ Next /\ UNCHANGED sample

MCNext == Run \/ Draw

MCSpec == MCInit /\ [][MCNext]_<<vars, sample>>

Drawn(fields) == DOMAIN sample = fields

\* A conversation loses the fewest, oldest messages its budget asks for and never
\* the system's (History.TrimToBudget).
TrimDropsFewest ==
  Drawn({"messages", "maxTokens"}) => DropsFewestOldest(sample.messages, sample.maxTokens)

\* An answer that has an object, and no other bracket, is read as that object,
\* whatever stands around it; what is read is always a whole object (ParseStrict).
AnswerRead == Drawn({"raw"}) => ReadsTheObject(sample.raw)

\* The structural hash of a text whose comments are plain is its lines of code: two
\* such texts have the same hash if and only if a reader who goes through each once
\* finds the same words and blanks outside comments and empty lines (parser.go's
\* passes).  It is less than the documents promise.  README.md:9 has extraction
\* bypassed "if only whitespace or comments have changed", and design.md:492
\* (Property 16) and requirements.md:257 (15.1) have every // and /* */ comment
\* ignored, "inline suffixes" too.  In the code, and so in Code, a change of
\* indentation changes the hash, and so does the blank that a block comment behind
\* code leaves; a // behind code is hashed as code, and Plain leaves it out.
HashIsCode ==
  Drawn({"language", "text"}) /\ Plain(sample.language, sample.text) =>
    StructuralHash(sample.language, sample.text) = Code(sample.language, sample.text)

\* The macro pipelines of a project are all the features its interactions touch,
\* whatever cycles they form and however long a chain of them is, and what these
\* lead to (DiscoverMacroPipelines' recursion, cut off at a depth).
DepthHidesNothing ==
  Drawn({"interactions", "project"}) => HidesNothingOf(sample.interactions, sample.project)
=============================================================================
