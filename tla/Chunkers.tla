---------------------------------- MODULE Chunkers ----------------------------------
(* memory/rag/ingestion/chunker: the recursive chunker follows the headings of a     *)
(* text down to a section that fits, the semantic one cuts it between sentences that *)
(* are far apart; both fall back on paragraphs, lines and characters.  The calls     *)
(* in progress are a list, the innermost first, each with what its loop keeps.       *)
EXTENDS Integers, Sequences, FiniteSets, SequencesExt

CONSTANTS Texts,      \* sequences of "word", "stop", "newline", and headings "h1", "h2", ..
          Strategies, \* subset of {"title", "semantic"}
          ChunkSize,  \* ChunkOptions.ChunkSize
          Overlap,    \* ChunkOptions.ChunkOverlap
          LeastCut,   \* the fewest tokens of a cut between characters, 10 in the code
          MinTokens   \* SemanticChunker.minChunkTokens

Level == [h1 |-> 1, h2 |-> 2, h3 |-> 3, h4 |-> 4, h5 |-> 5, h6 |-> 6]
Runes == {"word", "stop", "newline"} \cup DOMAIN Level

ASSUME ChunkAssumption ==
  /\ ChunkSize \in Nat \ {0} /\ LeastCut \in Nat \ {0} /\ MinTokens \in Nat /\ Overlap \in 0..ChunkSize - 1
  /\ Strategies \subseteq {"title", "semantic"}
  /\ \A t \in Texts :
       /\ t \in Seq(Runes)
       /\ \A k \in DOMAIN t : t[k] \in DOMAIN Level =>
            (k = 1 \/ t[k - 1] = "newline") /\ (k = Len(t) \/ t[k + 1] = "newline")

VARIABLES text,     \* the contents, one entry per rune; a heading is one entry
          strategy, \* which chunker
          stage,    \* how far Chunk is
          work,     \* the calls in progress and those they will still make, in order
          chunks,   \* the chunks so far
          at        \* the chunk the overlap has come to

vars == <<text, strategy, stage, work, chunks, at>>
-------------------------------------------------------------------------------------
(* A body is a sequence of places of the text; 0 is a rune the chunker writes itself. *)
Added == 0
IsBlank(p) == p = Added \/ text[p] = "newline"
IsHeading(p) == p # Added /\ text[p] \in DOMAIN Level

(* A stretch of the text: from one place up to another, which it leaves out.         *)
Places(from, end) == [i \in 1 .. end - from |-> from + i - 1]
Blanks(from, end) == \A k \in from .. end - 1 : IsBlank(k)
TextEnd == Len(text) + 1
AtLeast1(n) == IF n < 1 THEN 1 ELSE n

(* estimateTokens: a word is one, so is a run of anything else between blanks.       *)
Counts(body, i) ==
  /\ ~IsBlank(body[i])
  /\ text[body[i]] # "stop" \/ i = 1 \/ IsBlank(body[i - 1]) \/ text[body[i - 1]] # "stop"
Counted(body, i) == Cardinality({k \in 1..i : Counts(body, k)})
Tokens(body) == AtLeast1(Counted(body, Len(body)))

(* Mutant: four runes a token.                                                       *)
RuneTokens_Quarter(n) == AtLeast1(n \div 4)

(* estimateRuneTokens, for a whole section.                                          *)
RuneTokens(n) == AtLeast1(n \div 2)

MakeChunk(path, body, start) ==
  [content |-> path \o body, body |-> body, lap |-> <<>>, start |-> start, end |-> start + Len(body)]
-------------------------------------------------------------------------------------
(* The headings; Root is the node around them all.                                   *)
Root == 0
Headings == {k \in DOMAIN text : IsHeading(k)}
LevelOf(n) == IF n = Root THEN Min({Level[text[k]] : k \in Headings}) - 1 ELSE Level[text[n]]

ContentStart(n) == IF n = Root THEN 1 ELSE Min({n + 2, TextEnd})

(* Mutant: a section ends at the next heading, whatever its level.                   *)
ContentEnd_NextHeading(n) == Min({TextEnd} \cup IF n = Root THEN {} ELSE {k \in Headings : k > n})

ContentEnd(n) ==
  Min({TextEnd} \cup IF n = Root THEN {} ELSE {k \in Headings : k > n /\ LevelOf(k) <= LevelOf(n)})

(* Mutant: headings of every level below count.                                      *)
DirectChildren_AllBelow(n) == {k \in Headings : /\ ContentStart(k) >= ContentStart(n)
                                                /\ ContentEnd(k) <= ContentEnd(n)
                                                /\ LevelOf(k) > LevelOf(n)}

DirectChildren(n) == {k \in Headings : /\ ContentStart(k) >= ContentStart(n)
                                       /\ ContentEnd(k) <= ContentEnd(n)
                                       /\ LevelOf(k) = LevelOf(n) + 1}

(* The calls: of chunkNode, and its loop over the subsections, of which last is the  *)
(* one it has come to; of splitIntoChunks and emitCharChunks; the search for the     *)
(* breaks between the parts of a body; the loop that gathers the parts.              *)
Section(n, path) == [kind |-> "node", node |-> n, path |-> path]
Children(n, last, path) == [kind |-> "children", node |-> n, last |-> last, path |-> path]
Piece(kind, from, end, path, start) ==
  [kind |-> kind, from |-> from, end |-> end, path |-> path, start |-> start]
Scan(p, width, rest, parts) ==
  [kind |-> "scan", from |-> p.from, end |-> p.end, path |-> p.path, start |-> p.start,
   width |-> width, rest |-> rest, parts |-> parts]
Gather(path, width, parts, buf, start, pos) ==
  [kind |-> "parts", path |-> path, width |-> width, parts |-> parts, buf |-> buf, start |-> start, pos |-> pos]

(* semanticSplit; splitSentences, where marks are the ends of the sentences so far;  *)
(* the loop of buildChunksFromSentences, the next group of which begins at next.     *)
Semantic(from, end, start, depth) ==
  [kind |-> "semantic", from |-> from, end |-> end, start |-> start, depth |-> depth]
Sentences(p, marks) ==
  [kind |-> "sentences", from |-> p.from, end |-> p.end, start |-> p.start, depth |-> p.depth, marks |-> marks]
Groups(marks, cut, start, depth, next) ==
  [kind |-> "groups", marks |-> marks, cut |-> cut, start |-> start, depth |-> depth, next |-> next]

Todo(kind) == stage = "split" /\ work # <<>> /\ Head(work).kind = kind
Replace(calls) == work' = calls \o Tail(work) /\ UNCHANGED <<text, strategy, stage, chunks, at>>
Emit(chunk, calls) ==
  chunks' = Append(chunks, chunk) /\ work' = calls \o Tail(work) /\ UNCHANGED <<text, strategy, stage, at>>

Init == /\ text \in Texts /\ strategy \in Strategies
        /\ stage = "start" /\ work = <<>> /\ chunks = <<>> /\ at = 0

Chunk ==
  /\ stage = "start"
  /\ IF Blanks(1, TextEnd) THEN stage' = "refused" /\ UNCHANGED work
     ELSE /\ stage' = "split"
          /\ work' = << CASE strategy = "semantic" -> Semantic(1, TextEnd, 0, 0)
                          [] strategy = "title" /\ Headings = {} -> Piece("body", 1, TextEnd, <<>>, 0)
                          [] OTHER -> Section(Root, <<>>) >>
  /\ UNCHANGED <<text, strategy, chunks, at>>

ChunkNode ==
  /\ Todo("node")
  /\ LET n == Head(work).node
         path == Head(work).path \o IF n = Root THEN <<>> ELSE <<n, Added>>
         from == ContentStart(n)
         end == ContentEnd(n) IN
     IF end <= from THEN Replace(<<>>)
     ELSE IF RuneTokens(end - from) <= ChunkSize THEN Emit(MakeChunk(path, Places(from, end), from - 1), <<>>)
     ELSE IF DirectChildren(n) = {} THEN Replace(<<Piece("body", from, end, path, from - 1)>>)
     ELSE \E first \in {Min(DirectChildren(n))} :
            Replace(<<Piece("body", from, ContentStart(first), path, from - 1), Section(first, path),
                      Children(n, first, path)>>)

ChunkChild ==
  /\ Todo("children")
  /\ LET p == Head(work)
         later == {k \in DirectChildren(p.node) : k > p.last} IN
     IF later # {} THEN Replace(<<Section(Min(later), p.path), Children(p.node, Min(later), p.path)>>)
     ELSE Replace(<<Piece("body", ContentEnd(p.last), ContentEnd(p.node), p.path, ContentEnd(p.last) - 1)>>)

(* splitIntoChunks: what does not fit is cut at blank lines, else at newlines, else   *)
(* between characters.                                                               *)
SplitIntoChunks ==
  /\ Todo("body")
  /\ LET p == Head(work) IN
     IF Blanks(p.from, p.end) THEN Replace(<<>>)
     ELSE IF Tokens(Places(p.from, p.end)) <= ChunkSize
          THEN Emit(MakeChunk(p.path, Places(p.from, p.end), p.start), <<>>)
          ELSE Replace(<<Scan(p, 2, p.from, <<>>)>>)

(* strings.Split and splitParagraphs, up to the next break of so many newlines.      *)
(* Empty parts are left out, as the loop that gathers them skips them.               *)
NextBreaks(p) == {b \in p.rest .. p.end - p.width : Blanks(b, b + p.width)}
WithPart(parts, from, end) == IF from < end THEN Append(parts, [from |-> from, end |-> end]) ELSE parts

NextPart ==
  /\ Todo("scan")
  /\ LET p == Head(work)  break == Min(NextBreaks(p)) IN
     NextBreaks(p) # {} /\ Replace(<<Scan(p, p.width, break + p.width, WithPart(p.parts, p.rest, break))>>)

LastPart ==
  /\ Todo("scan")
  /\ LET p == Head(work)  parts == WithPart(p.parts, p.rest, p.end) IN
     /\ NextBreaks(p) = {}
     /\ Replace(<< IF p.width = 1 \/ Len(parts) > 1 THEN Gather(p.path, p.width, parts, <<>>, p.start, p.start)
                   ELSE IF \E k \in p.from .. p.end - 1 : IsBlank(k) THEN Scan(p, 1, p.from, <<>>)
                   ELSE Piece("cuts", p.from, p.end, p.path, p.start) >>)

(* emitParagraphChunks and emitLineChunks: parts are gathered while they fit, at     *)
(* least one.  A part that is left out does not move the position on.                *)
Joined(buf, part, width) ==
  (IF buf = <<>> THEN <<>> ELSE buf \o [i \in 1..width |-> Added]) \o Places(part.from, part.end)
Fits(p) == /\ p.parts # <<>>
           /\ p.buf = <<>> \/ Tokens(Joined(p.buf, Head(p.parts), p.width)) <= ChunkSize

GatherPart ==
  /\ Todo("parts")
  /\ LET p == Head(work)  part == Head(p.parts) IN
     /\ Fits(p)
     /\ Replace(<<Gather(p.path, p.width, Tail(p.parts), Joined(p.buf, part, p.width), p.start,
                         p.pos + (part.end - part.from) + p.width)>>)

FlushBuffer ==
  /\ Todo("parts")
  /\ LET p == Head(work) IN
     /\ p.buf # <<>> /\ ~Fits(p)
     /\ Emit(MakeChunk(p.path, p.buf, p.start), <<Gather(p.path, p.width, p.parts, <<>>, p.pos, p.pos)>>)

Gathered == Todo("parts") /\ Head(work).buf = <<>> /\ Head(work).parts = <<>> /\ Replace(<<>>)

(* The end of a cut between characters: after so many tokens, or the stop that soon  *)
(* follows.                                                                          *)
CutTokens == IF ChunkSize < LeastCut THEN LeastCut ELSE ChunkSize
CutEnd(body) ==
  LET cut == Min({Len(body)} \cup {i \in DOMAIN body : Counted(body, i) >= CutTokens})
      stops == {i \in cut + 1 .. cut + CutTokens : i <= Len(body) /\ text[body[i]] = "stop"}
  IN IF stops = {} THEN cut ELSE Min(stops)

EmitCuts ==
  /\ Todo("cuts")
  /\ LET p == Head(work)  body == Places(p.from, p.end)  end == p.from + CutEnd(body) IN
     IF p.from >= p.end THEN Replace(<<>>)
     ELSE Emit(MakeChunk(p.path, Places(p.from, end), p.start),
               <<Piece("cuts", end, p.end, p.path, p.start + CutEnd(body))>>)
-------------------------------------------------------------------------------------
SemanticSplit ==
  /\ Todo("semantic")
  /\ LET p == Head(work) IN
     IF Blanks(p.from, p.end) THEN Replace(<<>>)
     ELSE IF Tokens(Places(p.from, p.end)) <= ChunkSize
          THEN Emit(MakeChunk(<<>>, Places(p.from, p.end), p.start), <<>>)
          ELSE Replace(<<Sentences(p, {p.from})>>)

(* Sentences end at a stop, at a blank line and at a newline that is not their first *)
(* rune.  Blanks at the very end are dropped.                                        *)
BlankLine(p, i) == i + 1 < p.end /\ IsBlank(i) /\ IsBlank(i + 1)
SentenceEnds(p) == {i \in Max(p.marks) .. p.end - 1 :
                      text[i] = "stop" \/ BlankLine(p, i) \/ (IsBlank(i) /\ i > Max(p.marks))}
Solid(p) == {i \in Max(p.marks) .. p.end - 1 : ~IsBlank(i)}

NextSentence ==
  /\ Todo("sentences")
  /\ LET p == Head(work)  last == Min(SentenceEnds(p)) IN
     /\ SentenceEnds(p) # {}
     /\ Replace(<<Sentences(p, p.marks \cup {IF BlankLine(p, last) THEN last + 2 ELSE last + 1})>>)

LastSentence ==
  /\ Todo("sentences")
  /\ LET p == Head(work) IN
     /\ SentenceEnds(p) = {} /\ Solid(p) # {}
     /\ Replace(<<Sentences(p, p.marks \cup {Max(Solid(p)) + 1})>>)

(* Which neighbours are far apart is left open; not all of them are farther than the *)
(* mean.  A break too soon after the one before it is passed over.                   *)
Before(cut, from, c) == Max({m \in cut \cup {from} : m < c})
Breakpoints(marks) ==
  LET inner == marks \ {Min(marks), Max(marks)} IN
  {cut \in SUBSET inner :
     cut # inner /\ \A c \in cut : Tokens(Places(Before(cut, Min(marks), c), c)) >= MinTokens}

(* Mutant: one group is taken for a split.                                           *)
Useful_Any(cut) == TRUE

Useful(cut) == cut # {}

FindBreakpoints ==
  /\ Todo("sentences")
  /\ LET p == Head(work) IN
     /\ SentenceEnds(p) = {} /\ Solid(p) = {}
     /\ \/ Replace(<<Piece("body", p.from, p.end, <<>>, p.start)>>)
        \/ \E cut \in Breakpoints(p.marks) :
             Useful(cut) /\ Replace(<<Groups(p.marks, cut, p.start, p.depth, p.from)>>)

(* A group inside a group starts at its place in the text, not in that group.        *)
StartOf(p) == p.start + (p.next - Min(p.marks))

BuildChunk ==
  /\ Todo("groups")
  /\ LET p == Head(work)
         end == Min({c \in p.cut : c > p.next} \cup {Max(p.marks)})
         later == Groups(p.marks, p.cut, p.start, p.depth, end) IN
     IF p.next = Max(p.marks) THEN Replace(<<>>)
     ELSE IF Tokens(Places(p.next, end)) <= ChunkSize
          THEN Emit(MakeChunk(<<>>, Places(p.next, end), StartOf(p)), <<later>>)
     ELSE IF \E m \in p.marks : p.next < m /\ m < end
          THEN Replace(<<Semantic(p.next, end, StartOf(p), p.depth + 1), later>>)
     ELSE Replace(<<Piece("body", p.next, end, <<>>, StartOf(p)), later>>)
-------------------------------------------------------------------------------------
(* The lines in front that begin with #, unless there is nothing else.               *)
PathLength(content) ==
  LET past == {i \in 0 .. Len(content) \div 2 : \A k \in 0 .. i - 1 : IsHeading(content[2 * k + 1])}
  IN 2 * Max(past)
AllHeadings(content) == PathLength(content) = Len(content) - 1 /\ IsHeading(Last(content))
ExtractPath(content) == IF AllHeadings(content) THEN <<>> ELSE SubSeq(content, 1, PathLength(content))
ExtractBody(content) == SubSeq(content, Len(ExtractPath(content)) + 1, Len(content))
TailRunes(body, n) == IF n >= Len(body) THEN body ELSE SubSeq(body, Len(body) - n + 1, Len(body))

(* applyOverlap, a turn of its loop at a time: a chunk repeats the end of the one    *)
(* before it, what that one repeats included.                                        *)
StartOverlap ==
  /\ stage = "split" /\ work = <<>> /\ stage' = "overlap" /\ at' = 2
  /\ UNCHANGED <<text, strategy, work, chunks>>

Joining(before, chunk, start) ==
  [content |-> ExtractPath(chunk.content) \o before \o <<Added>> \o ExtractBody(chunk.content),
   body |-> chunk.body, lap |-> before, start |-> start, end |-> chunk.end]

(* Mutant: the position is counted back from the chunk's own.                        *)
Repeating_FromOwnStart(before, last, chunk) == Joining(before, chunk, chunk.start - Len(before))

Repeating(before, last, chunk) == Joining(before, chunk, last.end - Len(before))

ApplyOverlap ==
  /\ stage = "overlap"
  /\ IF Overlap = 0 \/ at > Len(chunks) THEN stage' = "done" /\ UNCHANGED <<chunks, at>>
     ELSE \E before \in {TailRunes(ExtractBody(chunks[at - 1].content), 2 * Overlap)} :
            /\ chunks' = IF before = <<>> THEN chunks
                         ELSE [chunks EXCEPT ![at] = Repeating(before, chunks[at - 1], chunks[at])]
            /\ at' = at + 1 /\ UNCHANGED stage
  /\ UNCHANGED <<text, strategy, work>>

Next == \/ Chunk \/ ChunkNode \/ ChunkChild \/ SplitIntoChunks \/ NextPart \/ LastPart
        \/ GatherPart \/ FlushBuffer \/ Gathered \/ EmitCuts
        \/ SemanticSplit \/ NextSentence \/ LastSentence \/ FindBreakpoints \/ BuildChunk
        \/ StartOverlap \/ ApplyOverlap

Spec == Init /\ [][Next]_vars
-------------------------------------------------------------------------------------
(* Every rune of the text that is not blank is in some chunk, in its body, its path  *)
(* or an overlap; only the heading of a section without anything to read may be      *)
(* missing, when that section is empty or too long to be a chunk as it stands        *)
(* (recursive.go:142 and 200).                                                       *)
Dropped(k) ==
  /\ IsHeading(k) /\ Blanks(ContentStart(k), ContentEnd(k))
  /\ \/ ContentEnd(k) <= ContentStart(k)
     \/ RuneTokens(ContentEnd(k) - ContentStart(k)) > ChunkSize
NothingLost ==
  stage = "done" =>
    \A k \in DOMAIN text :
      \/ IsBlank(k)
      \/ \E i \in DOMAIN chunks : \E a \in DOMAIN chunks[i].content : chunks[i].content[a] = k
      \/ strategy = "title" /\ Dropped(k)

(* Apart from paths and overlaps no rune is in two chunks or twice in one, and the   *)
(* chunks follow the text, whatever was recursed into in between.                    *)
InOrder ==
  \A i, j \in DOMAIN chunks : \A a \in DOMAIN chunks[i].body, b \in DOMAIN chunks[j].body :
    (i < j \/ (i = j /\ a < b)) /\ chunks[i].body[a] # Added /\ chunks[j].body[b] # Added
      => chunks[i].body[a] < chunks[j].body[b]

(* Without its path and the overlap, which are put on top, a chunk has more tokens   *)
(* than asked for only as a single paragraph, which nothing cuts any more, or as a   *)
(* section that was measured by its runes; and a cut between characters at most      *)
(* twice the size (recursive.go:148, 250, 340).                                      *)
OneParagraph(body) == \A a \in DOMAIN body : a > 1 => ~IsBlank(body[a - 1]) \/ ~IsBlank(body[a])
SizeBounded ==
  \A i \in DOMAIN chunks :
    LET body == chunks[i].body IN
    \/ Tokens(body) <= ChunkSize \/ Len(body) <= 2 * ChunkSize + 1
    \/ /\ OneParagraph(body)
       /\ (\A k \in DOMAIN text : ~IsBlank(k)) => Tokens(body) <= 2 * CutTokens

(* The positions stored with a chunk (pipeline.go:347) never run ahead of its text.  *)
(* They name it exactly unless an empty line or paragraph was skipped before it (a   *)
(* group of sentences begins with one after a stop at the end of a line); with an    *)
(* overlap they name what is repeated too, when that is of the body before it alone, *)
(* in which no other overlap was put behind the headings it begins with.             *)
Packed == \A k \in DOMAIN text : text[k] = "newline" =>
            /\ k > 1 /\ ~(strategy = "semantic" /\ text[k - 1] = "stop")
            /\ IsHeading(k - 1) /\ k < Len(text) => ~IsBlank(k + 1)
            /\ k + 2 > Len(text) \/ ~IsBlank(k + 1) \/ ~IsBlank(k + 2)
LapInPlace(last, chunk) ==
  (last.lap = <<>> \/ ~IsHeading(last.body[1])) /\ Len(chunk.lap) <= Len(last.body) =>
    \A k \in DOMAIN chunk.lap : chunk.lap[k] \in {Added, chunk.start + k}
InPlace ==
  \A i \in DOMAIN chunks :
    LET body == chunks[i].body IN
    /\ chunks[i].start < body[1] /\ chunks[i].end <= Last(body)
    /\ Packed => chunks[i].end = Last(body)
    /\ Packed /\ chunks[i].lap = <<>> => chunks[i].start = body[1] - 1
    /\ Packed /\ chunks[i].lap # <<>> => i > 1 /\ LapInPlace(chunks[i - 1], chunks[i])

(* Every level of the semantic chunker asks again which sentences belong together;   *)
(* the recursion ends because each time it is asked of less text.                    *)
RecursionEnds ==
  \A i \in DOMAIN work : work[i].kind = "semantic" =>
    work[i].depth + (work[i].end - work[i].from) <= Len(text)
===================================================================================
