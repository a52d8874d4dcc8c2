------------------------------- MODULE TextMC -------------------------------
(***************************************************************************)
(* RichText and CopyText, two parts that share nothing, as one instance:   *)
(* part says which of them a behaviour is about, and the other stays idle. *)
(***************************************************************************)
EXTENDS RichText, CopyText

VARIABLE part

textVars == <<part, richVars, copyVars>>

(* The limits are scaled: a message has 7 runes, 2 blocks, depth 2, one    *)
(* attachment, 2 columns; a plain text 3 runes.                            *)
Having(l, traits)     == [l EXCEPT !.has = traits]
Words(n, w)           == [Having(Line("text", n, 0), {"plain"}) EXCEPT !.w = w]
Tagged(n, w)          == [Line("text", n, 0) EXCEPT !.w = w]
Title(n, w)           == [Line("head", n, 0) EXCEPT !.w = w]
Underline             == Having(Line("under", 1, 0), {"plain"})
Filled(l, rows, cells) == [l EXCEPT !.rows = rows, !.cells = cells]
TableRow(n, rows, cells) == Filled(Line("text", n, 0), rows, cells)
TableEnd              == Having(Line("tclose", 1, 0), {"shut"})

(* What one rewriting makes of some lines.                                 *)
SmallRewrites ==
     Words(1, 1)  :> Words(2, 0)               \* a URL
  @@ Title(2, 1)  :> Title(3, 0)               \* a URL in a heading
  @@ Line("head", 1, 1) :> Line("head", 2, 0)  \* #Title
  @@ Title(3, 2)  :> Title(2, 2)               \* # a # #
  @@ Title(2, 2)  :> Title(1, 0)               \* # a #
  @@ Tagged(2, 2) :> Words(1, 0)               \* <div>Title</div>
  @@ Tagged(2, 3) :> Line("fence", 1, 0)       \* <x>```
  @@ Tagged(2, 4) :> Tagged(1, 5)              \* <x<y>>
  @@ Tagged(1, 5) :> Line("blank", 0, 0)       \* <x>
  @@ Tagged(2, 6) :> Line("item", 1, 1)        \* <x>- a
  @@ Words(2, 7)  :> Underline                 \* === and a space

Lines == {Line("blank", 0, 0), Words(1, 0), Words(1, 1), Words(8, 0),
          Line("head", 1, 0), Underline, Line("fence", 1, 0), Line("lang", 2, 0),
          Line("fence", 1, 1), Having(Line("dollar", 1, 0), {"plain", "math"}), Line("row", 1, 2),
          Line("divider", 1, 2), Line("media", 1, 1), Line("item", 1, 1), Line("quote", 1, 1)}
RareLines == {Words(2, 0), Having(Words(1, 0), {"plain", "indented"}),
              Having(Tagged(1, 0), {"indented", "quoted"}), Line("head", 1, 1), Having(Line("dollar", 4, 1), {"plain", "math"}),
              Having(Line("dollar", 8, 1), {"plain", "math"}), Having(Line("dollar", 2, 1), {"plain"}),
              Having(Words(1, 0), {"plain", "math"}), Line("html", 1, 2), Line("item", 1, 2),
              Having(Line("item", 1, 2), {"indented"}), Line("quote", 1, 3), Line("foot", 1, 0),
              Having(Line("ordinal", 3, 0), {"plain"}), Line("blank", 0, 0)}
Loose  == (DOMAIN SmallRewrites \ {Title(2, 1)}) \cup
            {Words(1, 0), Underline, Line("fence", 1, 0), Line("blank", 0, 0)}
Tables == {Line("row", 1, 2), Line("divider", 1, 2), Line("blank", 0, 0)}
Html   == {Line("topen", 1, 0), Filled(Line("topen", 1, 1), 1, 1), TableEnd,
           TableRow(1, 1, 2), TableRow(1, 2, 2), TableRow(1, 0, 1), Line("blank", 0, 0)}
Hybrid == {Line("topen", 1, 0), TableEnd, TableRow(2, 1, 2), Line("divider", 1, 2),
           Filled(Line("topen", 1, 1), 1, 1), Having(Filled(Line("topen", 1, 1), 1, 2), {"shut"}),
           Having(TableRow(1, 1, 3), {"shut"})}
Fenced == {Line("fence", 1, 0), Line("blank", 0, 0), Words(2, 1)}
Maths  == {Having(Line("dollar", 1, 0), {"plain", "math"}), Underline, Line("fence", 1, 0), Words(2, 0)}
SmallTexts ==
  BoundedSeq(Lines, 3) \cup BoundedSeq(RareLines, 3) \cup BoundedSeq(Loose, 3) \cup BoundedSeq(Tables, 6)
    \cup BoundedSeq(Html, 5) \cup BoundedSeq(Hybrid, 4) \cup BoundedSeq(Fenced, 7) \cup BoundedSeq(Maths, 6)

SmallLetters == {"a", "A", "grin", "new", "newline", "link"}
TextLetters  == {[c |-> "a", w |-> 1], [c |-> "A", w |-> 1], [c |-> "grin", w |-> 2]}
Bold(at, n) == [type |-> "bold", at |-> at, n |-> n]
Other(type) == [type |-> type, at |-> 0, n |-> 1]
Message(t, ms, media, forwarded) == [text |-> t, marks |-> ms, media |-> media, forwarded |-> forwarded]
Media(kind, attributes) == [kind |-> kind, attributes |-> attributes]
Plain == Media("none", {})
Attachments == {Plain, Media("webpage", {}), Media("photo", {}), Media("document", {}),
                Media("document", {"video", "animation"})}

(* Long texts with entities, singly; short ones in albums with media.      *)
LongPosts ==
  {<<Message(t, ms, Plain, FALSE)>> :
     t \in BoundedSeq(TextLetters, 5),
     ms \in {<<>>, <<Bold(0, 2)>>, <<Bold(1, 4)>>, <<Bold(0, 1), Bold(2, 2)>>,
             <<Other("mention"), Bold(1, 1)>>, <<Other("spoiler")>>}}
Albums ==
  {<<Message(t, ms, x, f), Message(u, <<>>, y, FALSE)>> :
     t, u \in BoundedSeq(TextLetters, 1), ms \in {<<>>, <<Bold(0, 1)>>},
     x, y \in Attachments, f \in BOOLEAN}
SmallPosts == {p \in LongPosts \cup Albums : \A k \in DOMAIN p : p[k] \in Messages}

AnyRule == [originalOnly |-> FALSE, keywords |-> {}, patterns |-> {}, blacklist |-> {},
            blackpatterns |-> {}, media |-> {}, footer |-> <<>>, ai |-> FALSE]
SmallRules ==
  {AnyRule, [AnyRule EXCEPT !.ai = TRUE, !.footer = <<[c |-> "a", w |-> 1]>>],
   [AnyRule EXCEPT !.originalOnly = TRUE], [AnyRule EXCEPT !.keywords = {<<"A">>}],
   [AnyRule EXCEPT !.keywords = {<<>>}], [AnyRule EXCEPT !.patterns = {"A", "bad"}],
   [AnyRule EXCEPT !.patterns = {"bad"}], [AnyRule EXCEPT !.blacklist = {<<"a", "grin">>, <<>>}],
   [AnyRule EXCEPT !.blackpatterns = {"a"}], [AnyRule EXCEPT !.media = {"any"}],
   [AnyRule EXCEPT !.media = {"text", "photo"}], [AnyRule EXCEPT !.media = {"animation", "photo"}]}
Answer == <<[c |-> "new", w |-> 1], [c |-> "new", w |-> 1]>>

Init ==
  \/ part = "rich" /\ RichInit
     /\ copyStage = "idle" /\ post = <<>> /\ rule = AnyRule
     /\ taken = <<>> /\ text = <<>> /\ marks = <<>> /\ segments = <<>>
  \/ part = "copy" /\ CopyInit
     /\ richStage = "idle" /\ source = <<>> /\ lines = <<>> /\ blocks = <<>>
     /\ parts = <<>> /\ msgs = <<>>

Next ==
  \/ part = "rich" /\ RichNext /\ UNCHANGED <<part, copyVars>>
  \/ part = "copy" /\ CopyNext /\ UNCHANGED <<part, richVars>>

Spec == Init /\ [][Next]_textVars
=============================================================================
