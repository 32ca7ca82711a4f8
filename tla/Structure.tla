------------------------------ MODULE Structure ------------------------------
(* The structural hash of a file (internal/ast/parser.go).  A text is a       *)
(* sequence of words: comment marks, the quote of a string, the blank "tab",  *)
(* the line end "nl", and words of code.  SHA-256 tells any two texts apart,  *)
(* so the hash is the normalised text itself, as the sequence of its lines.   *)
EXTENDS Naturals, Sequences, Selection

Languages == {"go", "python", "other"}   \* JavaScript and TypeScript are as Go

LanguageFromExt(ext) ==
  CASE ext \in {".go", ".js", ".ts"} -> "go"
    [] ext = ".py"                   -> "python"
    [] OTHER                         -> "other"

\* The marks that open and close a block comment or docstring, in the order
\* the parser strips them, and the mark of a line comment.
Blocks(lang) ==
  CASE lang = "go"     -> << <<"/*", "*/">> >>
    [] lang = "python" -> << <<"dq3", "dq3">>, <<"sq3", "sq3">> >>
    [] OTHER           -> <<>>

LineMark(lang) ==
  CASE lang = "go" -> "//" [] lang = "python" -> "#" [] OTHER -> "none"

\* Variant: the longest match, from an opening mark to the last closing one.
StripLongest(text, marks) ==
  LET opens == {n \in DOMAIN text : text[n] = marks[1]}
      pairs == {p \in opens \X DOMAIN text : p[1] < p[2] /\ text[p[2]] = marks[2]}
  IN  IF pairs = {} THEN text
      ELSE LET p == CHOOSE p \in pairs : \A q \in pairs : p[1] <= q[1] /\ p[2] >= q[2]
           IN  SubSeq(text, 1, p[1] - 1) \o SubSeq(text, p[2] + 1, Len(text))

\* What ReplaceAllString leaves of the text: from left to right everything from
\* an opening mark to the next closing one is cut out; one without a closing
\* mark stays.
StripWord(s, w, marks) ==
  CASE s.held = <<>> /\ w # marks[1] -> [s EXCEPT !.kept = Append(@, w)]
    [] s.held # <<>> /\ w = marks[2] -> [s EXCEPT !.held = <<>>]
    [] OTHER                         -> [s EXCEPT !.held = Append(@, w)]

Stripping(text, marks) ==
  LET after[n \in 0 .. Len(text)] ==
        IF n = 0 THEN [kept |-> <<>>, held |-> <<>>]
        ELSE StripWord(after[n - 1], text[n], marks)
  IN  after[Len(text)]

StripBlock(text, marks) == LET end == Stripping(text, marks) IN end.kept \o end.held

\* One pass for each kind of block.
StripBlocks(lang, text) ==
  LET blocks == Blocks(lang)
  IN  CASE Len(blocks) = 0 -> text
        [] Len(blocks) = 1 -> StripBlock(text, blocks[1])
        [] OTHER           -> StripBlock(StripBlock(text, blocks[1]), blocks[2])

AddWord(lines, w) ==
  IF w = "nl" THEN Append(lines, <<>>) ELSE [lines EXCEPT ![Len(lines)] = Append(@, w)]

Lines(text) ==
  LET after[n \in 0 .. Len(text)] ==
        IF n = 0 THEN << <<>> >> ELSE AddWord(after[n - 1], text[n])
  IN  after[Len(text)]

IsBlank(line) == \A n \in DOMAIN line : line[n] = "tab"

\* Variant: blanks before the mark are not looked through.
IsLineCommentHard(line, mark) == line # <<>> /\ Head(line) = mark

IsLineComment(line, mark) ==
  \E n \in DOMAIN line : line[n] = mark /\ \A k \in 1 .. n - 1 : line[k] = "tab"

StripByLanguage(lang, text) ==
  LET lines == Lines(StripBlocks(lang, text))
  IN  Those(lines, {n \in DOMAIN lines : ~IsLineComment(lines[n], LineMark(lang)) /\ ~IsBlank(lines[n])})

StructuralHash(lang, text) == StripByLanguage(lang, text)

-----------------------------------------------------------------------------
(* What the hash is meant to tell apart: the code, read from left to right as *)
(* the language reads it.  mode is "code", "line" (in a line comment),        *)
(* "quote" (in a string), or the mark that ends the block the reader is in.   *)

Opens(lang, w) == \E k \in DOMAIN Blocks(lang) : Blocks(lang)[k][1] = w
ClosedBy(lang, w) == Blocks(lang)[CHOOSE k \in DOMAIN Blocks(lang) : Blocks(lang)[k][1] = w][2]

Enter(s, mode) == [s EXCEPT !.mode = mode]
PutWord(s, mode, w) == [s EXCEPT !.mode = mode, !.lines[Len(s.lines)] = Append(@, w)]
NewLine(s) == [s EXCEPT !.mode = "code", !.lines = Append(@, <<>>)]
UnclearIf(unclear, s) == [s EXCEPT !.plain = @ /\ ~unclear]

ReadInCode(lang, s, w) ==
  CASE w = LineMark(lang) -> UnclearIf(~IsBlank(s.lines[Len(s.lines)]), Enter(s, "line"))
    [] Opens(lang, w)     -> Enter(s, ClosedBy(lang, w))
    [] w = "quote"        -> PutWord(s, "quote", w)
    [] w = "nl"           -> NewLine(s)
    [] OTHER              -> PutWord(s, "code", w)

ReadInLine(lang, s, w) == IF w = "nl" THEN NewLine(s) ELSE UnclearIf(Opens(lang, w), s)

ReadInQuote(lang, s, w) ==
  IF w = "quote" THEN PutWord(s, "code", w)
  ELSE UnclearIf(w = "nl" \/ Opens(lang, w), PutWord(s, "quote", w))

ReadInBlock(lang, s, w) ==
  IF w = s.mode THEN Enter(s, "code")
  ELSE UnclearIf(Opens(lang, w) /\ Len(Blocks(lang)) > 1, s)

ReadWord(lang, s, w) ==
  CASE s.mode = "code"  -> ReadInCode(lang, s, w)
    [] s.mode = "line"  -> ReadInLine(lang, s, w)
    [] s.mode = "quote" -> ReadInQuote(lang, s, w)
    [] OTHER            -> ReadInBlock(lang, s, w)

ReadText(lang, text) ==
  LET after[n \in 0 .. Len(text)] ==
        IF n = 0 THEN [mode |-> "code", lines |-> << <<>> >>, plain |-> TRUE]
        ELSE ReadWord(lang, after[n - 1], text[n])
  IN  after[Len(text)]

\* The lines of code of a text, without comments and empty lines; blanks in a line
\* of code are kept, as stripByLanguage keeps them.
Code(lang, text) ==
  LET lines == ReadText(lang, text).lines
  IN  Those(lines, {n \in DOMAIN lines : ~IsBlank(lines[n])})

\* Texts whose comments the parser's three passes can see: no mark of a block
\* inside a string, a line comment or another kind of block, no comment behind
\* code on its line, no string over several lines, and nothing left open.
Plain(lang, text) ==
  LET end == ReadText(lang, text) IN end.plain /\ end.mode \in {"code", "line"}
=============================================================================
