------------------------------ MODULE CopyText ------------------------------
(***************************************************************************)
(* From a post to the texts of its copy: ConvertMessage (updates.go), the  *)
(* view and the filters (filters.go), rewriting and footer (engine.go,     *)
(* footer.go), the split into segments and the entities on the way back    *)
(* (outbound.go).                                                          *)
(*                                                                         *)
(* A text is a sequence of characters, each [c |-> letter, w |-> width in  *)
(* UTF-16 units].  An entity has a type, an offset and a length; Telegram  *)
(* counts them in UTF-16 units, the code in runes where it splits.         *)
(***************************************************************************)
EXTENDS SequenceFolds, SequencesExt, FiniteSetsExt

CONSTANTS
  Letters,   \* the letters of texts
  Posts,     \* the groups of messages that are posted
  Rules,     \* the rules they are judged by
  Rewritten, \* the text an AI answers with
  Limit      \* telegramMessageLimit, 4096 in the code

Characters == [c : Letters, w : 1 .. 2]

(* The types ConvertMessage has a name for, those whose place it converts  *)
(* first; "unknown" is its name for all others.                            *)
Placed   == {"bold", "italic", "code", "pre", "text_link", "url", "text_mention"}
Named    == Placed \cup {"mention", "hashtag", "blockquote"}
Unnamed  == {"spoiler", "unknown"}
Entities == [type : Named \cup Unnamed, at : Nat, n : Nat]

(* The UTF-16 units of t before its letter i.                              *)
Before(t, i) == Sums([k \in DOMAIN t |-> t[k].w])[i - 1]

(* An entity lies within its text: Telegram sends no other.                *)
Messages ==
  {m \in [text : Seq(Characters), marks : Seq(Entities),
          media : [kind : STRING, attributes : SUBSET STRING], forwarded : BOOLEAN] :
     \A k \in DOMAIN m.marks : m.marks[k].at + m.marks[k].n <= Before(m.text, Len(m.text) + 1)}

RuleTexts ==
  [originalOnly : BOOLEAN, keywords : SUBSET Seq(Letters), patterns : SUBSET STRING,
   blacklist : SUBSET Seq(Letters), blackpatterns : SUBSET STRING, media : SUBSET STRING,
   footer : Seq(Characters), ai : BOOLEAN]

ASSUME CopyTextAssumption ==
  /\ Posts \subseteq Seq(Messages) \ {<<>>} /\ Rules \subseteq RuleTexts
  /\ {"newline", "link"} \subseteq Letters /\ Rewritten \in Seq(Characters) /\ Limit \in Nat \ {0}

VARIABLES
  copyStage, \* "posted", "converted", "accepted", "composed" or "rewritten",
             \* then "rejected", "copied" or "copied_ai" (a rewritten copy)
  post,      \* the group
  rule,      \* the rule
  taken,     \* the group as the domain has it
  text,      \* sendTask.text
  marks,     \* sendTask.entities
  segments   \* the texts of the requests, each with its entities

copyVars == <<copyStage, post, rule, taken, text, marks, segments>>

Newline == [c |-> "newline", w |-> 1]
-----------------------------------------------------------------------------
(* ConvertMessage.  The types that are left out of the second switch keep  *)
(* an offset and a length of zero.                                         *)
ConvertEntities(s) ==
  [k \in DOMAIN s |->
     IF s[k].type \in Placed THEN s[k]
     ELSE [type |-> IF s[k].type \in Named THEN s[k].type ELSE "unknown", at |-> 0, n |-> 0]]

(* A document's type by its attributes, in order of precedence; a round    *)
(* video is a video with a flag.                                           *)
DocumentType(attributes) ==
  LET ranked == <<"animation", "sticker", "voice", "audio", "video_note", "video">>
      found == {k \in DOMAIN ranked : ranked[k] \in attributes}
  IN IF found = {} THEN "document" ELSE ranked[Min(found)]

(* A web page's preview is no medium.                                      *)
ConvertMedia(media) ==
  IF media.kind = "photo" THEN {"photo"}
  ELSE IF media.kind = "document" THEN {DocumentType(media.attributes)} ELSE {}

ConvertMessage(m) ==
  [text |-> m.text, marks |-> ConvertEntities(m.marks), media |-> ConvertMedia(m.media), forwarded |-> m.forwarded]
-----------------------------------------------------------------------------
(* BuildFilterView: a group is judged as one message.                      *)
Joined(ts) ==
  LET upTo[i \in 0 .. Len(ts)] ==
        IF i = 0 THEN <<>>
        ELSE IF ts[i] = <<>> THEN upTo[i - 1]
        ELSE IF upTo[i - 1] = <<>> THEN ts[i] ELSE upTo[i - 1] \o <<Newline>> \o ts[i]
  IN upTo[Len(ts)]

BuildFilterView(ms) ==
  [text |-> Joined([k \in DOMAIN ms |-> ms[k].text]),
   media |-> UNION {ms[k].media : k \in DOMAIN ms},
   forwarded |-> \E k \in DOMAIN ms : ms[k].forwarded]

(* A word is a sequence of letters, matched in any case; a pattern matches *)
(* one letter exactly, and "bad" does not compile.                         *)
Lower(c) == IF c = "A" THEN "a" ELSE c
HasWord(t, word) ==
  word # <<>> /\ \E i \in 0 .. Len(t) - Len(word) :
                   \A j \in DOMAIN word : Lower(t[i + j].c) = Lower(word[j])
Matches(t, pattern) == \E i \in DOMAIN t : t[i].c = pattern

CheckKeywords(t, words)    == words = {} \/ \E word \in words : HasWord(t, word)
CheckPatterns(t, patterns) == patterns = {} \/ \E p \in patterns : Matches(t, p)
Blacklisted(t, r) ==
  \/ \E word \in r.blacklist : HasWord(t, word)
  \/ \E p \in r.blackpatterns : Matches(t, p)

\* Mutant: one medium of an allowed type is enough.
CheckMediaTypesSome(types, allowed) ==
  IF allowed = {} THEN TRUE ELSE IF "any" \in allowed THEN types # {}
  ELSE IF types = {} THEN "text" \in allowed ELSE types \cap allowed # {}

CheckMediaTypes(types, allowed) ==
  IF allowed = {} THEN TRUE ELSE IF "any" \in allowed THEN types # {}
  ELSE IF types = {} THEN "text" \in allowed ELSE types \subseteq allowed

ShouldForward(r, v) ==
  /\ ~(r.originalOnly /\ v.forwarded)
  /\ CheckKeywords(v.text, r.keywords) /\ CheckPatterns(v.text, r.patterns)
  /\ ~Blacklisted(v.text, r) /\ CheckMediaTypes(v.media, r.media)
-----------------------------------------------------------------------------
(* ChooseFooter and appendFooter: a rule's own footer comes first.         *)
ChooseFooter(r, showDefault) ==
  IF r.footer # <<>> THEN r.footer
  ELSE IF showDefault THEN <<[c |-> "link", w |-> 1]>> ELSE <<>>

Footed(t, footer) == IF footer = <<>> THEN t ELSE t \o <<Newline, Newline>> \o footer

(* rewriteIfEnabled: the answer has no entities.                           *)
\* Mutant: the entities of the original are kept.
RewriteKeepsMarks(ms, t, answered) == IF answered THEN <<Rewritten, ms>> ELSE <<t, ms>>

Rewrite(ms, t, answered) == IF answered THEN <<Rewritten, <<>>>> ELSE <<t, ms>>
-----------------------------------------------------------------------------
(* splitLongText: a segment ends at the last end of an entity within the   *)
(* limit, or at the limit.                                                 *)
Ends(ms) == {ms[k].at + ms[k].n : k \in DOMAIN ms}
Cut(t, ms, start) ==
  IF start + Limit >= Len(t) THEN Len(t)
  ELSE LET inside == {b \in Ends(ms) : start < b /\ b <= start + Limit}
       IN IF inside = {} THEN start + Limit ELSE Max(inside)

(* The entities that meet start .. end, cut to it and moved by it.         *)
Clipped(ms, start, end) ==
  LET in == Only(ms, {m \in Entities : m.at + m.n > start /\ m.at < end})
  IN [k \in DOMAIN in |->
        [in[k] EXCEPT !.at = Max({@, start}) - start,
                      !.n = Min({in[k].at + @, end}) - Max({in[k].at, start})]]

(* Cuts(t, ms)[k] is where segment k ends.                                 *)
Cuts(t, ms) == LET at[k \in 0 .. Len(t)] == IF k = 0 THEN 0 ELSE Cut(t, ms, at[k - 1]) IN at

SplitLongText(t, ms) ==
  LET at == Cuts(t, ms)
      last == Min({k \in DOMAIN at : at[k] = Len(t)})
  IN IF Len(t) <= Limit THEN <<[text |-> t, marks |-> ms]>>
     ELSE [k \in 1 .. last |-> [text |-> SubSeq(t, at[k - 1] + 1, at[k]),
                                marks |-> Clipped(ms, at[k - 1], at[k])]]

(* tgEntities: unknown types are dropped.                                  *)
TgEntities(ms) == Only(ms, [type : Named, at : Nat, n : Nat])
-----------------------------------------------------------------------------
CopyInit ==
  /\ copyStage = "posted" /\ post \in Posts /\ rule \in Rules
  /\ taken = <<>> /\ text = <<>> /\ marks = <<>> /\ segments = <<>>

Convert ==
  /\ copyStage = "posted" /\ copyStage' = "converted"
  /\ taken' = [k \in DOMAIN post |-> ConvertMessage(post[k])]
  /\ UNCHANGED <<post, rule, text, marks, segments>>

(* processRule: the task takes the joined text, and the first member's     *)
(* entities.                                                               *)
Judge ==
  /\ copyStage = "converted"
  /\ IF ShouldForward(rule, BuildFilterView(taken))
     THEN /\ copyStage' = "accepted"
          /\ text' = BuildFilterView(taken).text /\ marks' = Head(taken).marks
     ELSE copyStage' = "rejected" /\ UNCHANGED <<text, marks>>
  /\ UNCHANGED <<post, rule, taken, segments>>

Compose ==
  /\ copyStage = "accepted"
  /\ \E answered \in {FALSE, rule.ai}, showDefault \in BOOLEAN :
       LET made == Rewrite(marks, text, answered)
       IN /\ text' = Footed(made[1], ChooseFooter(rule, showDefault)) /\ marks' = made[2]
          /\ copyStage' = IF answered THEN "rewritten" ELSE "composed"
  /\ UNCHANGED <<post, rule, taken, segments>>

(* sendTextMTProto, or one caption for a group with media, which is not    *)
(* split.                                                                  *)
Send ==
  /\ copyStage \in {"composed", "rewritten"}
  /\ copyStage' = IF copyStage = "composed" THEN "copied" ELSE "copied_ai"
  /\ LET whole == <<[text |-> text, marks |-> marks]>>
         pieces == IF BuildFilterView(taken).media # {} THEN whole ELSE SplitLongText(text, marks)
     IN segments' = [k \in DOMAIN pieces |-> [pieces[k] EXCEPT !.marks = TgEntities(@)]]
  /\ UNCHANGED <<post, rule, taken, text, marks>>

CopyNext == Convert \/ Judge \/ Compose \/ Send
-----------------------------------------------------------------------------
(* PROPERTIES *)

(* A group is judged as a whole (03 section 1.6, filters.go:14-21): the    *)
(* verdict on the joined view is the one its members give together, if no  *)
(* word or pattern of the rule looks for a line break: the view has one    *)
(* between two members.                                                    *)
InALine(r) ==
  /\ \A word \in r.keywords \cup r.blacklist : \A j \in DOMAIN word : word[j] # "newline"
  /\ "newline" \notin r.patterns \cup r.blackpatterns
Allowed(r, members) ==
  LET media == UNION {ConvertMedia(m.media) : m \in members}
  IN /\ r.originalOnly => \A m \in members : ~m.forwarded
     /\ r.keywords = {} \/ \E m \in members : CheckKeywords(m.text, r.keywords)
     /\ r.patterns = {} \/ \E m \in members : CheckPatterns(m.text, r.patterns)
     /\ \A m \in members : ~Blacklisted(m.text, r)
     /\ \/ r.media = {}
        \/ "any" \in r.media /\ media # {}
        \/ "any" \notin r.media /\ "text" \in r.media /\ media = {}
        \/ "any" \notin r.media /\ media # {} /\ \A x \in media : x \in r.media
JudgedWhole ==
  copyStage \notin {"posted", "converted"} /\ InALine(rule) =>
    (copyStage # "rejected" <=> Allowed(rule, ToSet(post)))

(* The letters of t that an entity of a type covers, as Telegram counts:   *)
(* in UTF-16 units.                                                        *)
Covered(t, ms, types) ==
  {i \in DOMAIN t : \E k \in DOMAIN ms : ms[k].type \in types /\ ms[k].at <= Before(t, i) /\ Before(t, i) < ms[k].at + ms[k].n}
Wide(t) == \E i \in DOMAIN t : t[i].w > 1

(* The copy says what was posted and marks what was marked (03 section     *)
(* 3.3): the segments are the composed text in order, none is empty or too *)
(* long, and an entity of a type whose place is converted covers the same  *)
(* letters - in one segment always, in several if no letter is wider than  *)
(* one unit (outbound.go:146-148 leaves those), and none at all in a       *)
(* rewritten text.                                                         *)
MarksStay ==
  copyStage \in {"copied", "copied_ai"} =>
    LET base == Sums([k \in DOMAIN segments |-> Len(segments[k].text)])
        covered(type) ==
          UNION {{base[k - 1] + i : i \in Covered(segments[k].text, segments[k].marks, {type})} : k \in DOMAIN segments}
    IN /\ text = FlattenSeq([k \in DOMAIN segments |-> segments[k].text])
       /\ Len(segments) > 1 => \A k \in DOMAIN segments : Len(segments[k].text) \in 1 .. Limit
       /\ Len(segments) = 1 \/ ~Wide(text) =>
            \A type \in Placed :
              covered(type) = IF copyStage = "copied_ai" THEN {}
                              ELSE Covered(post[1].text, post[1].marks, {type})
=============================================================================
