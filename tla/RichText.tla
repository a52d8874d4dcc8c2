------------------------------ MODULE RichText ------------------------------
(***************************************************************************)
(* What richRouter does to a text before it sends it: NormalizeRichMark-   *)
(* down (rich.go), ParseRichBlocks (rich_blocks.go), the validation, the   *)
(* second splitting and the packing of RichMessages (rich_split.go).       *)
(*                                                                         *)
(* A text is a sequence of lines; a line is what the code's predicates     *)
(* tell apart: its class k, its length n in runes, a number v whose        *)
(* meaning depends on the class, traits (see LineTypes), and w, which      *)
(* tells apart lines with different wording.  The protocol's limits are    *)
(* parameters, so that small texts reach them.                             *)
(***************************************************************************)
EXTENDS SequenceFolds, SequencesExt, FiniteSetsExt

CONSTANTS
  Texts,                                         \* the texts that are sent
  Rewrites,                                      \* Rewrites[l]: what rewriting makes of line l
  MaxChars, MaxBlocks, MaxDepth, MaxMedia, MaxCols \* 32768, 500, 16, 50, 20 in the code

VARIABLES
  richStage,  \* "raw", "normalized", "parsed", "split", then "sent", "unsendable" or "panic"
  source,     \* the text given
  lines,      \* the text normalized
  blocks,     \* its block stream
  parts,      \* parts[k]: what block k was split into
  msgs        \* the messages, each a sequence of blocks

richVars == <<richStage, source, lines, blocks, parts, msgs>>

(* Classes, with the meaning of v:                                         *)
(*   blank; text; head: 1 = not one yet (#Title); under: === or ---;       *)
(*   fence, lang (with a language): 0 = ```, 1 = ~~~;                      *)
(*   dollar: 0 = a bare $$, 1 = $$ and content;                            *)
(*   row, divider of a pipe table: its cells;                              *)
(*   topen: 0 = <table> alone, 1 = with content; tclose: </table> alone;   *)
(*   media: ![](), html: attachments; quote, item: depth; foot;            *)
(*   ordinal: digits and a dot, then nothing ("12.").                      *)
(* Traits: plain (richIsPlainText), indented, quoted (a > after spaces),   *)
(*   math (ends in $$), shut (has </table>).  rows, cells: <tr, </td> and  *)
(*   </th> in the line.                                                    *)
Classes == {"blank", "text", "head", "under", "fence", "lang", "dollar", "row", "divider", "topen", "tclose",
            "media", "html", "quote", "item", "foot", "ordinal"}
Traits  == {"plain", "indented", "quoted", "math", "shut"}
Line(k, n, v) == [k |-> k, n |-> n, v |-> v, w |-> 0, has |-> {}, rows |-> 0, cells |-> 0]
IsFence(l) == l.k \in {"fence", "lang"}
IsBlank(l) == l.k = "blank"

(* Some classes begin with a mark of their own, at the first column.       *)
AtMargin == {"blank", "head", "fence", "lang", "row", "divider", "topen", "tclose", "quote"}
LineTypes ==
  {l \in [k : Classes, n : Nat, v : Nat, w : Nat, has : SUBSET Traits, rows : Nat, cells : Nat] :
     /\ IsBlank(l) => l.n = 0
     /\ l.k = "under" => "plain" \in l.has
     /\ l.k = "tclose" => "shut" \in l.has
     /\ l.k \in AtMargin => l.has \subseteq {"math", "shut"}}

ASSUME RichTextAssumption ==
  /\ Texts \subseteq Seq(LineTypes)
  /\ DOMAIN Rewrites \subseteq LineTypes /\ Rewrites \in [DOMAIN Rewrites -> LineTypes]
  /\ {MaxChars, MaxBlocks, MaxDepth, MaxMedia, MaxCols} \subseteq Nat \ {0} /\ MaxBlocks > 1

Chars(ls) == Total([k \in DOMAIN ls |-> ls[k].n]) + (IF ls = <<>> THEN 0 ELSE Len(ls) - 1)
-----------------------------------------------------------------------------
(* NormalizeRichMarkdown.  A mark that is added counts one.                *)
(* One rewriting (tags that are not supported go, headings are repaired,   *)
(* URLs become links, blanks at the end go) may turn a line into any       *)
(* other, and the next one that into a third.                              *)
NormalizeLine(l) == IF l \in DOMAIN Rewrites THEN Rewrites[l] ELSE l

(* richIsPlainText: may stand above a Setext underline.                    *)
IsPlainText(l) == "plain" \in l.has

(* An opening fence without a language gets one; any fence line closes.    *)
WithLanguage(l) == IF l.k = "fence" THEN [l EXCEPT !.k = "lang", !.n = @ + 1] ELSE l

(* A line above a Setext underline becomes a heading as it is.             *)
AsHeading(l) ==
  [l EXCEPT !.k = "head", !.n = @ + 1, !.v = 0, !.has = @ \cap {"math", "shut"}]

(* What is known after some lines: the lines that came of them, whether a  *)
(* fence is open, and whether the next line was taken with the last.       *)
LineStep(a, s, i) ==
  IF a.skip THEN [a EXCEPT !.skip = FALSE]
  ELSE IF a.inFence THEN [a EXCEPT !.out = Append(@, s[i]), !.inFence = ~IsFence(s[i])]
  ELSE IF i < Len(s) /\ IsPlainText(s[i]) /\ s[i + 1].k = "under"
  THEN [a EXCEPT !.out = Append(@, AsHeading(s[i])), !.skip = TRUE]
  ELSE IF IsFence(s[i]) THEN [a EXCEPT !.out = Append(@, WithLanguage(s[i])), !.inFence = TRUE]
  ELSE [a EXCEPT !.out = Append(@, NormalizeLine(s[i]))]

LineByLine(s) ==
  LET upTo[i \in 0 .. Len(s)] ==
        IF i = 0 THEN [out |-> <<>>, inFence |-> FALSE, skip |-> FALSE]
        ELSE LineStep(upTo[i - 1], s, i)
  IN upTo[Len(s)].out

(* richCollapseBlanks: one blank line at most, none at the ends.           *)
Trimmed(s) == SubSeq(s, 1, Max({0} \cup {i \in DOMAIN s : ~IsBlank(s[i])}))

\* Mutant: fences do not protect the blank lines between them.
BlankStepEverywhere(a, l) ==
  [a EXCEPT !.out = IF IsBlank(l) /\ a.prevBlank THEN @ ELSE Append(@, l), !.prevBlank = IsBlank(l)]

BlankStep(a, l) ==
  IF IsFence(l) THEN [out |-> Append(a.out, l), inFence |-> ~a.inFence, prevBlank |-> FALSE]
  ELSE IF a.inFence THEN [a EXCEPT !.out = Append(@, l)]
  ELSE [a EXCEPT !.out = IF IsBlank(l) /\ a.prevBlank THEN @ ELSE Append(@, l), !.prevBlank = IsBlank(l)]

Collapsed(s) ==
  LET upTo[i \in 0 .. Len(s)] ==
        IF i = 0 THEN [out |-> <<>>, inFence |-> FALSE, prevBlank |-> TRUE]
        ELSE BlankStep(upTo[i - 1], s[i])
  IN Trimmed(upTo[Len(s)].out)

Normalized(s) == Collapsed(LineByLine(s))
-----------------------------------------------------------------------------
(* ParseRichBlocks: the kind of block a line starts, and where it ends.    *)
KindAt(s, i) ==
  LET l == s[i]
  IN CASE l.k = "head" /\ l.v # 1 -> "heading"
       [] IsFence(l) -> "code"
       [] l.k = "dollar" -> "formula"
       [] l.k \in {"row", "divider"} /\ i < Len(s) /\ s[i + 1].k = "divider" -> "table"
       [] l.k = "topen" -> "table"
       [] l.k \in {"media", "html"} -> "media"
       [] l.k = "quote" -> "quote"
       [] l.k = "item" -> "item"
       [] l.k = "foot" -> "footnote"
       [] OTHER -> "paragraph"

(* A run that is ended by the first of the lines S, and is S's or is not.  *)
With(s, S)    == IF S = {} THEN Len(s) ELSE Min(S)
Without(s, S) == IF S = {} THEN Len(s) ELSE Min(S) - 1

FenceEnds(s, i) == With(s, {j \in i + 1 .. Len(s) : IsFence(s[j]) /\ s[j].v = s[i].v})

(* $$...$$ is a formula of one line, <table>...</table> a table of one.    *)
EndOf(s, i) ==
  LET l == s[i]
      kind == KindAt(s, i)
      after == i + 1 .. Len(s)
  IN CASE kind = "code" -> FenceEnds(s, i)
       [] kind = "formula" /\ ~(l.v # 0 /\ "math" \in l.has) -> With(s, {j \in after : "math" \in s[j].has})
       [] kind = "table" /\ l.k # "topen" ->
            Without(s, {j \in after : j > i + 1 /\ s[j].k \notin {"row", "divider"}})
       [] kind = "table" /\ l.k = "topen" -> With(s, {j \in i .. Len(s) : "shut" \in s[j].has})
       [] kind = "quote" ->
            Without(s, {j \in after : ~ \/ s[j].k = "quote" /\ s[j].v = l.v
                                        \/ "quoted" \in s[j].has /\ l.v = 1})
       [] kind = "item" -> Without(s, {j \in after : ~("indented" \in s[j].has /\ s[j].k # "item")})
       [] kind = "footnote" -> Without(s, {j \in after : "indented" \notin s[j].has})
       [] kind = "paragraph" -> Without(s, {j \in after : IsBlank(s[j]) \/ KindAt(s, j) # "paragraph"})
       [] OTHER -> i

Block(kind, body, depth, count, media, cols) ==
  [kind |-> kind, body |-> body, depth |-> depth, count |-> count, media |-> media, cols |-> cols]
Kinds == {"heading", "code", "formula", "table", "media", "quote", "item", "footnote", "paragraph"}
BlockTypes ==
  [kind : Kinds, body : Seq(LineTypes), depth : Nat, count : Nat, media : Nat, cols : Nat]

(* The rows of an HTML table are counted over its text, the cells of a row *)
(* line by line.                                                           *)
Rows(body)    == Total([k \in DOMAIN body |-> body[k].rows])
Columns(body) == Max({0} \cup {l.cells : l \in ToSet(body)})

BlockAt(s, i) ==
  LET kind == KindAt(s, i)
      body == SubSeq(s, i, EndOf(s, i))
  IN CASE kind = "table" /\ s[i].k # "topen" -> Block(kind, body, 1, Len(body) - 1, 0, s[i].v)
       [] kind = "table" /\ s[i].k = "topen" -> Block(kind, body, 1, Rows(body), 0, Columns(body))
       [] kind = "media" -> Block(kind, body, 1, 1, IF s[i].k = "media" THEN 1 ELSE s[i].v, 0)
       [] kind \in {"quote", "item"} -> Block(kind, body, s[i].v, 1, 0, 0)
       [] OTHER -> Block(kind, body, 1, 1, 0, 0)

ParsedBlocks(s) ==
  LET from[i \in 1 .. Len(s) + 1] ==
        IF i > Len(s) THEN <<>>
        ELSE IF IsBlank(s[i]) THEN from[i + 1]
        ELSE <<BlockAt(s, i)>> \o from[EndOf(s, i) + 1]
  IN from[1]

(* The lines isRichListItem looks at: those of a paragraph, and what       *)
(* follows an item.  One that ends after its dot is read one byte past its *)
(* end.                                                                    *)
ParsePanics(s) ==
  \E b \in ToSet(ParsedBlocks(s)) :
    b.kind \in {"paragraph", "item"} /\ \E l \in ToSet(b.body) : l.k = "ordinal"
-----------------------------------------------------------------------------
(* The second splitting, of a block with too many characters: its rows are *)
(* gathered into chunks, each put between the block's top and bottom.      *)
Frame(top, rows, bottom, most, header) ==
  [top |-> top, rows |-> rows, bottom |-> bottom, most |-> most, header |-> header]

Inner(b) == SubSeq(b.body, 2, Len(b.body) - 1)

(* The last line is taken for the closing fence, whatever it is, and the   *)
(* first three characters of the first one for its mark.                   *)
FencedFrame(b) ==
  LET open == Head(b.body)
  IN Frame(<<open>>, Inner(b), <<Line(IF IsFence(open) THEN "fence" ELSE "dollar", 1, open.v)>>,
           Len(b.body), 1)

LinesFrame(b) == Frame(<<>>, b.body, <<>>, Len(b.body), 1)

(* A piece of a pipe table repeats the header, which counts as a row.      *)
TableFrame(b) ==
  LET filled(ls) == Only(ls, {l \in LineTypes : ~IsBlank(l)})
  IN IF Len(b.body) >= 2 /\ b.body[2].k = "divider"
     THEN Frame(SubSeq(b.body, 1, 2), filled(SubSeq(b.body, 3, Len(b.body))), <<>>, MaxBlocks - 1, 1)
     ELSE Frame(<<Head(b.body)>>, filled(Inner(b)), <<Last(b.body)>>, MaxBlocks, 0)

FrameOf(b) ==
  IF b.kind \in {"code", "formula"} THEN FencedFrame(b)
  ELSE IF b.kind = "table" THEN TableFrame(b) ELSE LinesFrame(b)

Budget(f) ==
  LET around == f.top \o f.bottom
  IN MaxChars - Total([k \in DOMAIN around |-> around[k].n]) - Len(around)

(* No line is ever cut.                                                    *)
Splittable(b) ==
  /\ b.kind \notin {"heading", "media"}
  /\ b.kind = "table" => Len(b.body) >= 3 \/ (Len(b.body) = 2 /\ b.body[2].k = "divider")
  /\ Budget(FrameOf(b)) > 0
  /\ \A l \in ToSet(FrameOf(b).rows) : l.n <= Budget(FrameOf(b))

Small(f) == {c \in Seq(LineTypes) : Chars(c) <= Budget(f) /\ Len(c) <= f.most}

\* Mutant: the last chunk is not emitted.
ChunksUnfinished(f) ==
  LET all == Gathered(f.rows, Small(f)) IN SubSeq(all, 1, Len(all) - 1)

Chunks(f) == Gathered(f.rows, Small(f))

Pieces(b) ==
  LET f == FrameOf(b)
      chunks == Chunks(f)
  IN [k \in DOMAIN chunks |->
        Block(b.kind, f.top \o chunks[k] \o f.bottom, b.depth,
              IF b.kind = "table" THEN Len(chunks[k]) + f.header ELSE 1, 0, b.cols)]

(* splitOversizedBlock: the count of a block is not looked at.             *)
Oversized(b) == Chars(b.body) > MaxChars
SplitBlock(b) == IF Oversized(b) THEN Pieces(b) ELSE <<b>>

(* A block of one line has no lines[1 : len-1].                            *)
SplitPanics(b) == Oversized(b) /\ b.kind \in {"code", "formula"} /\ Len(b.body) = 1
SplitFails(b)  == Oversized(b) /\ ~SplitPanics(b) /\ ~Splittable(b)

Invalid(b) == b.depth > MaxDepth \/ b.cols > MaxCols \/ b.media > MaxMedia
-----------------------------------------------------------------------------
(* The packing: richMsgAcc.  A first block always fits.                    *)
MsgChars(m)  == Total([k \in DOMAIN m |-> Chars(m[k].body)]) + (IF m = <<>> THEN 0 ELSE 2 * (Len(m) - 1))
MsgBlocks(m) == Total([k \in DOMAIN m |-> m[k].count])
MsgMedia(m)  == Total([k \in DOMAIN m |-> m[k].media])

\* Mutant: the separator of two blocks is not counted.
FittingUnseparated ==
  {m \in Seq(BlockTypes) : /\ Total([k \in DOMAIN m |-> Chars(m[k].body)]) <= MaxChars
                           /\ MsgBlocks(m) <= MaxBlocks /\ MsgMedia(m) <= MaxMedia}

Fitting ==
  {m \in Seq(BlockTypes) : MsgChars(m) <= MaxChars /\ MsgBlocks(m) <= MaxBlocks /\ MsgMedia(m) <= MaxMedia}

Packed(queue) == Gathered(queue, Fitting)
-----------------------------------------------------------------------------
(* The stages, as send runs them.                                          *)
RichInit ==
  /\ richStage = "raw" /\ source \in Texts
  /\ lines = <<>> /\ blocks = <<>> /\ parts = <<>> /\ msgs = <<>>

NormalizeRichMarkdown ==
  /\ richStage = "raw" /\ richStage' = "normalized"
  /\ lines' = Normalized(source)
  /\ UNCHANGED <<source, blocks, parts, msgs>>

ParseRichBlocks ==
  /\ richStage = "normalized"
  /\ IF ParsePanics(lines) THEN richStage' = "panic" /\ UNCHANGED blocks
     ELSE richStage' = "parsed" /\ blocks' = ParsedBlocks(lines)
  /\ UNCHANGED <<source, lines, parts, msgs>>

(* The first block that fails decides.                                     *)
SplitBlocks ==
  /\ richStage = "parsed"
  /\ LET bad == {k \in DOMAIN blocks : SplitPanics(blocks[k]) \/ SplitFails(blocks[k])}
     IN IF blocks = <<>> \/ \E b \in ToSet(blocks) : Invalid(b)
        THEN richStage' = "unsendable" /\ UNCHANGED parts
        ELSE IF bad # {}
        THEN /\ richStage' = IF SplitPanics(blocks[Min(bad)]) THEN "panic" ELSE "unsendable"
             /\ UNCHANGED parts
        ELSE richStage' = "split" /\ parts' = [k \in DOMAIN blocks |-> SplitBlock(blocks[k])]
  /\ UNCHANGED <<source, lines, blocks, msgs>>

PackMessages ==
  /\ richStage = "split" /\ richStage' = "sent"
  /\ msgs' = Packed(FlattenSeq(parts))
  /\ UNCHANGED <<source, lines, blocks, parts>>

RichNext == NormalizeRichMarkdown \/ ParseRichBlocks \/ SplitBlocks \/ PackMessages
-----------------------------------------------------------------------------
(* PROPERTIES *)

(* What the protocol counts of a table: every row of it (the code, of a    *)
(* piece, its lines), and a row's cells up to the next row (the code, up   *)
(* to the end of the line).                                                *)
IsHtml(b)   == b.kind = "table" /\ b.body[1].k = "topen"
RealRows(b) == IF IsHtml(b) THEN Rows(b.body) ELSE b.count
RowsSent(m) == Total([k \in DOMAIN m |-> RealRows(m[k])])
Cells(ls)   == Total([k \in DOMAIN ls |-> ls[k].cells])
NarrowRows(b) ==
  \A i, j \in DOMAIN b.body :
    i <= j /\ (\A k \in i + 1 .. j : b.body[k].rows = 0) => Cells(SubSeq(b.body, i, j)) <= MaxCols

(* An HTML table with several rows in a line, or with a row in the line of *)
(* <table> or </table>, which every piece repeats; one with a row that     *)
(* goes over several lines.                                                *)
Crowded(b) ==
  IsHtml(b) /\ (b.body[1].rows > 0 \/ Last(b.body).rows > 0 \/ \E l \in ToSet(b.body) : l.rows > 1)
Spread(b) == \E l \in ToSet(b.body) : l.rows = 0 /\ l.cells > 0

(* Every message that is sent keeps the limits of the protocol             *)
(* (rich_split.go:10-18, 24-27), but for three cases: a table that is too  *)
(* long only by its rows is not split, although rich_split.go:34-35 says   *)
(* it is; the pieces of a crowded table are counted by their lines         *)
(* (rich_split.go:256); a row over several lines is not seen whole         *)
(* (rich_blocks.go:267).                                                   *)
WithinLimits ==
  richStage = "sent" =>
    \A m \in ToSet(msgs) :
      /\ MsgChars(m) <= MaxChars /\ MsgMedia(m) <= MaxMedia
      /\ \A b \in ToSet(m) : b.depth <= MaxDepth /\ b.cols <= MaxCols /\ (IsHtml(b) => Spread(b) \/ NarrowRows(b))
      /\ \/ RowsSent(m) <= MaxBlocks
         \/ Len(m) = 1 /\ m[1].kind = "table" /\ m[1] \in ToSet(blocks)
         \/ \E b \in ToSet(m) : Crowded(b) /\ b \notin ToSet(blocks)

(* What a reader sees of a block: the lines between its fences, the rows   *)
(* of a table and what stands with its tags, all lines of another.         *)
Closed(b) == Len(b.body) > 1 /\ IsFence(Last(b.body)) /\ Last(b.body).v = b.body[1].v
Header(b) == IF b.body[1].k # "topen" THEN 2 ELSE IF b.body[1].v = 0 THEN 1 ELSE 0
Seen(b) ==
  IF b.kind = "code" /\ Closed(b) THEN Inner(b)
  ELSE IF b.kind = "table" THEN Only(SubSeq(b.body, Header(b) + 1, Len(b.body)),
                                     {l \in LineTypes : l.k \notin {"blank", "tclose"}})
  ELSE b.body

(* A block whose end is not on a line of its own, where the code takes the *)
(* last line (and of a formula the first) for a delimiter; an HTML table   *)
(* whose beginning is not, which every piece repeats, or with the divider  *)
(* of a pipe table, for which it is taken then.                            *)
Ragged(b) ==
  \/ b.kind = "code" /\ ~Closed(b)
  \/ b.kind = "formula"
  \/ IsHtml(b) /\ (Last(b.body).k # "tclose" \/ b.body[1].v # 0 \/ b.body[2].k = "divider")

(* Splitting loses and repeats nothing that a reader sees, and the         *)
(* messages carry the blocks in order: rich_split.go:131-282, 61-77.  The  *)
(* exception is an oversized block of the kinds above.                     *)
NothingLost ==
  richStage = "sent" =>
    /\ FlattenSeq(msgs) = FlattenSeq(parts)
    /\ \A k \in DOMAIN blocks :
         ~(Oversized(blocks[k]) /\ Ragged(blocks[k])) =>
           FlattenSeq([j \in DOMAIN parts[k] |-> Seen(parts[k][j])]) = Seen(blocks[k])

(* Code is truth (rich.go:50-53): what stands inside a fence reaches the   *)
(* messages as it was written, unless normalizer and parser disagree on    *)
(* what a fence is: in a text with both kinds of fences, where a formula   *)
(* or a table takes a fence for its own line, and where rewriting makes a  *)
(* fence of a line that was none.                                          *)
CodeOf(s) ==
  LET found == ParsedBlocks(s)
  IN FlattenSeq([k \in DOMAIN found |->
                   IF found[k].kind = "code" THEN Only(Tail(found[k].body), {l \in LineTypes : ~IsFence(l)})
                   ELSE <<>>])
Mixed(s) == \E l, m \in ToSet(s) : IsFence(l) /\ IsFence(m) /\ l.v # m.v
Swallowed(s) ==
  \E k \in DOMAIN ParsedBlocks(s) :
    LET b == ParsedBlocks(s)[k] IN b.kind \in {"formula", "table"} /\ \E l \in ToSet(b.body) : IsFence(l)
Surfaces(s) == \E l \in ToSet(s) : ~IsFence(l) /\ IsFence(NormalizeLine(l))
CodeKept ==
  ~Mixed(source) /\ ~Surfaces(source) /\ ~Swallowed(Trimmed(source)) /\ ~Swallowed(lines) =>
    CodeOf(lines) = CodeOf(Trimmed(source))

(* A line that one rewriting settles, and that is a fence then only if it  *)
(* was one.                                                                *)
Steady(l) ==
  LET new == NormalizeLine(l) IN NormalizeLine(new) = new /\ (IsFence(new) => IsFence(l))

(* All lines are, no two of them become a Setext heading by it, and a      *)
(* heading made of two has nothing left to rewrite.                        *)
Settling(s) ==
  /\ \A l \in ToSet(s) : Steady(l)
  /\ \A i \in 1 .. Len(s) - 1 :
       LET heading == IsPlainText(s[i]) /\ s[i + 1].k = "under"
       IN /\ IsPlainText(NormalizeLine(s[i])) /\ NormalizeLine(s[i + 1]).k = "under" => heading
          /\ heading => NormalizeLine(AsHeading(s[i])) = AsHeading(s[i])

(* A second normalization changes nothing (rich.go:53), unless rewriting   *)
(* the lines of the text one by one already leaves something to do.        *)
NormalizedOnce == Settling(source) => Normalized(lines) = lines

(* The normalizer keeps code and is idempotent, with the exceptions above. *)
NormalizerSound == richStage = "normalized" => CodeKept /\ NormalizedOnce
=============================================================================
