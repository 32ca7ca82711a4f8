------------------------------- MODULE Schema -------------------------------
(* How a structured answer is read (internal/llm/schema.go).  An answer is a  *)
(* sequence of brackets and of "text", which stands for anything else: prose, *)
(* markdown fences, or the inside of a JSON object.                           *)
EXTENDS Integers, Sequences, FiniteSetsExt

Openers == {"{", "["}
Closers == {"}", "]"}
ClosedWith(w) == IF w = "{" THEN "}" ELSE "]"

Unreadable == <<"unreadable">>

\* What json.Unmarshal takes into a struct: one object, from its brace to the
\* one that closes it.
Depth(s, n) ==
  Cardinality({i \in 1 .. n : s[i] \in Openers}) - Cardinality({i \in 1 .. n : s[i] \in Closers})
IsObject(s) ==
  /\ s # <<>> /\ s[1] = "{"
  /\ \A n \in 1 .. Len(s) - 1 : Depth(s, n) > 0
  /\ Depth(s, Len(s)) = 0
  /\ \A i \in DOMAIN s : s[i] \in Openers =>
       \E k \in i + 1 .. Len(s) :
         /\ s[k] = ClosedWith(s[i])
         /\ Depth(s, k) = Depth(s, i) - 1
         /\ \A n \in i .. k - 1 : Depth(s, n) >= Depth(s, i)

PlacesOf(s, words) == {i \in DOMAIN s : s[i] \in words}

\* Variant: up to the first closing bracket.
FirstCloser(s) == LET found == PlacesOf(s, Closers) IN IF found = {} THEN Len(s) ELSE Min(found)
LastCloser(s) == LET found == PlacesOf(s, Closers) IN IF found = {} THEN Len(s) ELSE Max(found)

FirstOpener(s) == LET found == PlacesOf(s, Openers) IN IF found = {} THEN 1 ELSE Min(found)

\* From the first opening bracket to the last closing one behind it.
RepairMarkdownFences(raw) ==
  LET s == SubSeq(raw, FirstOpener(raw), Len(raw)) IN SubSeq(s, 1, LastCloser(s))

ParseStrict(raw) ==
  CASE IsObject(raw) -> raw
    [] ~IsObject(raw) /\ IsObject(RepairMarkdownFences(raw)) -> RepairMarkdownFences(raw)
    [] OTHER -> Unreadable

\* An answer with one object in it and no other bracket is read as that object;
\* whatever is read is a whole object of the answer.
ReadsTheObject(raw) ==
  LET parts == {SubSeq(raw, p[1], p[2]) : p \in (DOMAIN raw) \X (DOMAIN raw)}
      bare(v) == Cardinality(PlacesOf(raw, Openers \cup Closers))
                   = Cardinality(PlacesOf(v, Openers \cup Closers))
  IN  /\ ParseStrict(raw) \in {Unreadable} \cup {v \in parts : IsObject(v)}
      /\ \A v \in parts : IsObject(v) /\ bare(v) => ParseStrict(raw) = v
=============================================================================
