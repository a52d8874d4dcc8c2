-------------------------- MODULE Delivery_proofs --------------------------
(***************************************************************************)
(* What Delivery's runs check on small instances, proved for any jobs,     *)
(* segments, limits, bounds and callers: each attempt's copy is whole and  *)
(* in order, repeats have a cause, StyleRich and the size limit hold, and  *)
(* temporary directories do not outlive their attempt.                     *)
(***************************************************************************)
EXTENDS Delivery, FiniteSetTheorems, TLAPS

Pcs == {"idle", "starting", "delay", "rewrite", "attempt", "backoff", "segment", "forward",
        "download", "upload", "register", "post", "route", "chunk", "fallback"}
Filing == {"download", "upload", "register", "post"}
Bodies == {"original", "rewritten"}
Verdicts == {"none", "sent", "unavailable", "transient", "permanent", "dropped", "lost"}
Reasons == {"none", "refused", "unregistered", "too large", "capped"}

States == [pc : Pcs, id : Nat, tries : Nat, calls : Nat, piece : Nat, body : Bodies,
           footers : Nat, limit : Nat, refetched : BOOLEAN, raw : BOOLEAN]
Posts  == [form : {"plain", "rich"}, try : Nat, piece : Nat, body : Bodies, footers : Nat,
           limit : Nat]

Medias == [declared : Nat, real : Nat]

\* A job that a sender may be given, and what is told of it while it is sent.
Tasks == {j \in JobSet : /\ (j.kind = "files") = (j.media # <<>>)
                         /\ j.footer => j.kind # "rich"}
Files == [job : Tasks, result : Verdicts, posts : Seq(Posts), undone : Nat, why : Reasons,
          asked : BOOLEAN, late : BOOLEAN]
File(i) == [job |-> job[i], result |-> result[i], posts |-> posts[i], undone |-> undone[i],
            why |-> why[i], asked |-> i \in asked, late |-> i \in late]

TypeOK ==
  /\ at \in [Senders -> States]
  /\ load \in [Senders -> Nat]
  /\ job \in Seq(Tasks) /\ result \in Seq(Verdicts) /\ posts \in Seq(Seq(Posts))
  /\ undone \in Seq(Nat) /\ why \in Seq(Reasons)
  /\ Len(result) = Len(job) /\ Len(posts) = Len(job) /\ Len(undone) = Len(job)
  /\ Len(why) = Len(job)
  /\ {disabled, cancelled} \subseteq BOOLEAN /\ {limit, cap} \subseteq Limits
  /\ ends \in Nat

(* Who is sending what.                                                    *)
Active(s) == at[s].pc \notin {"idle", "starting"}

Owned ==
  /\ \A s \in Callers : at[s].pc # "starting"
  /\ \A s \in Senders : Active(s) =>
       /\ at[s].id \in Jobs /\ result[at[s].id] = "none"
       /\ (job[at[s].id].kind = "rich") = (s \in Callers)
       /\ \A t \in Senders : Active(t) /\ at[t].id = at[s].id => t = s

(* The places fit the job, and so do the counters.                         *)
Placed(a, j) ==
  /\ a.pc \in {"route", "chunk", "fallback"} => j.kind = "rich"
  /\ a.pc \in {"delay", "rewrite", "attempt", "backoff"} => j.kind # "rich"
  /\ a.pc = "segment" => j.kind \in {"text", "rich"} /\ a.piece \in 1 .. Segments[a.body]
  /\ a.pc = "forward" => j.kind = "forward"
  /\ a.pc \in Filing => j.kind = "files"
  /\ a.pc = "download" => a.piece \in 1 .. Len(j.media)
  /\ a.pc \in {"forward", "upload", "register", "post"} => a.piece = 1
  /\ a.pc = "chunk" => a.piece \in 1 .. j.chunks
  /\ a.pc \in {"segment", "forward", "route", "chunk", "fallback"} \cup Filing =>
       a.footers = FootersDue(j)

(* What the channel holds of this attempt: the pieces before the current   *)
(* one; a chunk that is called again may be there already.                 *)
Form(a) == IF a.pc \in {"route", "chunk"} THEN "rich" ELSE "plain"
Mine(a, ps) == Own(ps, a.tries, Form(a))

Told(a, ps) ==
  /\ a.pc \in {"delay", "rewrite"} => ps = <<>>
  /\ a.pc \in {"route", "chunk"} => \A k \in DOMAIN ps : ps[k].form = "rich"
  /\ \A k \in DOMAIN ps : ps[k].try <= a.tries
  /\ a.pc \notin {"segment", "chunk", "backoff"} => Mine(a, ps) = {}
  /\ a.pc \in {"segment", "chunk"} => \A n \in 1 .. a.piece - 1 : \E k \in Mine(a, ps) : ps[k].piece = n

InOrder(a, j, ps) ==
  /\ \A k \in Mine(a, ps) : ps[k].body = a.body /\ ps[k].footers = FootersDue(j)
  /\ \A k \in Mine(a, ps) : ps[k].piece >= 1
  /\ a.pc = "segment" => \A k \in Mine(a, ps) : ps[k].piece < a.piece
  /\ a.pc = "chunk"   => \A k \in Mine(a, ps) : ps[k].piece <= a.piece
  /\ \A k, l \in Mine(a, ps) : k < l => ps[k].piece <= ps[l].piece

(* The attempt's own beginning is not among the repeats yet.               *)
Begun(a) == a.pc \in {"segment", "chunk"} /\ a.piece > 1
Counted(a, f) == Cardinality(Firsts(f.posts)) <= f.undone + (IF Begun(a) THEN 1 ELSE 0)

Insists(a, f) ==
  ~ f.asked /\ f.job.kind = "rich" /\ f.job.style = "rich" => a.pc \in {"route", "chunk"}

(* Files that were streamed fit the limit the attempt began with.          *)
Within(a, f, c) ==
  ~ f.late /\ a.pc \in Filing =>
    /\ a.limit = c
    /\ \A n \in 1 .. Len(f.job.media) : (a.pc = "download" => n < a.piece) => Fits(f.job.media[n].real, c)

Good(a, f, c) ==
  /\ Placed(a, f.job)
  /\ Told(a, f.posts)
  /\ a.pc # "backoff" => InOrder(a, f.job, f.posts)
  /\ Counted(a, f)
  /\ Insists(a, f)
  /\ Within(a, f, c)

(* What stays true of a job that has ended.                                *)
AllRich(f) ==
  ~ f.asked /\ f.job.kind = "rich" /\ f.job.style = "rich" => \A k \in DOMAIN f.posts : f.posts[k].form = "rich"
AllFit(f) ==
  ~ f.late =>
    /\ f.why # "capped"
    /\ \A k \in DOMAIN f.posts : \A n \in 1 .. Len(f.job.media) :
         f.posts[k].limit = 0 \/ f.job.media[n].real <= f.posts[k].limit
Closed(f) ==
  /\ f.result = "sent" => WholeCopy(f.job, f.posts)
  /\ Cardinality(Firsts(f.posts)) <= 1 + f.undone
  /\ AllRich(f)
  /\ AllFit(f)

IInv ==
  /\ TypeOK
  /\ Owned
  /\ \A s \in Senders : Active(s) => Good(at[s], File(at[s].id), cap)
  /\ \A i \in Jobs : Closed(File(i))
  /\ TempDirHasCause
-----------------------------------------------------------------------------
(* Sequences, and the numbers that jobs are made of.                       *)

LEMMA Appended ==
  ASSUME NEW T, NEW q \in Seq(T), NEW e \in T
  PROVE  /\ Append(q, e) \in Seq(T) /\ Last(Append(q, e)) = e
         /\ Len(q) \in Nat /\ Len(Append(q, e)) = Len(q) + 1
         /\ DOMAIN q = 1 .. Len(q) /\ DOMAIN Append(q, e) = 1 .. Len(q) + 1
         /\ \A k \in DOMAIN q : k \in DOMAIN Append(q, e) /\ Append(q, e)[k] = q[k]
         /\ Len(q) + 1 \in DOMAIN Append(q, e) /\ Append(q, e)[Len(q) + 1] = e
         /\ \A k \in DOMAIN Append(q, e) : k \in DOMAIN q \/ k = Len(q) + 1
BY DEF Last

LEMMA Constants ==
  /\ Engine \notin Callers /\ Engine \in Senders /\ Limits \subseteq Nat
  /\ \A b \in Bodies : Segments[b] \in Nat \ {0}
  /\ SendMaxAttempts \in Nat \ {0} /\ CallMaxRetries \in Nat
  /\ \A s \in Senders : \A j \in Given[s] : j \in Tasks /\ (j.kind = "rich") = (s \in Callers)
BY DeliveryAssumption DEF Senders, Bodies, Tasks

\* The posts of an attempt after one more.
LEMMA OwnAppended ==
  ASSUME NEW ps \in Seq(Posts), NEW p \in Posts, NEW try, NEW form
  PROVE  Own(Append(ps, p), try, form) =
           Own(ps, try, form) \cup (IF p.try = try /\ p.form = form THEN {Len(ps) + 1} ELSE {})
<1>1. \A k \in DOMAIN ps : k # Len(ps) + 1
  OBVIOUS
<1>2. \A k : k \in Own(Append(ps, p), try, form) <=>
               \/ k \in Own(ps, try, form)
               \/ k = Len(ps) + 1 /\ p.try = try /\ p.form = form
  BY <1>1, Appended DEF Own
<1> QED
  BY <1>2

LEMMA FirstsFinite ==
  ASSUME NEW ps \in Seq(Posts)
  PROVE  IsFiniteSet(Firsts(ps)) /\ Cardinality(Firsts(ps)) \in Nat
<1>1. Firsts(ps) \in SUBSET (1 .. Len(ps)) /\ Len(ps) \in Nat
  BY DEF Firsts
<1>2. IsFiniteSet(1 .. Len(ps))
  BY <1>1, FS_Interval
<1>3. IsFiniteSet(Firsts(ps))
  BY <1>1, <1>2, FS_Subset
<1> QED
  BY <1>3, FS_CardinalityType

\* A post adds a beginning only if it is one.
LEMMA FirstsAppended ==
  ASSUME NEW ps \in Seq(Posts), NEW p \in Posts
  PROVE  Cardinality(Firsts(Append(ps, p))) =
           Cardinality(Firsts(ps)) + (IF p.piece = 1 THEN 1 ELSE 0)
<1>1. Len(ps) + 1 \notin Firsts(ps)
  BY DEF Firsts
<1>2. Firsts(Append(ps, p)) = IF p.piece = 1 THEN Firsts(ps) \cup {Len(ps) + 1} ELSE Firsts(ps)
  <2>1. \A k : k \in Firsts(Append(ps, p)) <=>
                 k \in Firsts(ps) \/ (k = Len(ps) + 1 /\ p.piece = 1)
    BY Appended, <1>1 DEF Firsts
  <2> QED
    BY <2>1
<1>3. IsFiniteSet(Firsts(ps)) /\ Cardinality(Firsts(ps)) \in Nat
  BY FirstsFinite
<1>4. Cardinality(Firsts(ps) \cup {Len(ps) + 1}) = Cardinality(Firsts(ps)) + 1
  BY <1>1, <1>3, FS_AddElement
<1> QED
  BY <1>2, <1>3, <1>4

LEMMA NothingPosted == <<>> \in Seq(Posts) /\ Cardinality(Firsts(<<>>)) = 0 /\ DOMAIN <<>> = {}
<1>1. Firsts(<<>>) = {}
  BY DEF Firsts
<1> QED
  BY <1>1, FS_EmptySet
-----------------------------------------------------------------------------
(* Editing a goroutine's locals and a job's file.                          *)

LEMMA StateEdits ==
  ASSUME NEW a \in States
  PROVE  /\ \A pc \in Pcs : [a EXCEPT !.pc = pc] \in States
         /\ \A pc \in Pcs, n \in Nat : [a EXCEPT !.pc = pc, !.piece = n] \in States
         /\ \A n \in Nat : [a EXCEPT !.piece = n] \in States
         /\ \A n \in Nat : [a EXCEPT !.piece = n, !.calls = 0] \in States
         /\ \A n \in Nat : [a EXCEPT !.calls = n] \in States
         /\ \A n \in Nat : [a EXCEPT !.piece = n, !.refetched = FALSE] \in States
         /\ \A v \in BOOLEAN : [a EXCEPT !.refetched = v] \in States
         /\ \A pc \in Pcs, v \in BOOLEAN : [a EXCEPT !.pc = pc, !.raw = v] \in States
         /\ \A pc \in Pcs, b \in Bodies : [a EXCEPT !.pc = pc, !.calls = 0, !.body = b] \in States
         /\ \A pc \in Pcs, n, m \in Nat :
              [a EXCEPT !.pc = pc, !.tries = n, !.piece = m] \in States
BY DEF States

\* What a post of the current attempt does to the posts of its job.
IsPost(p, a) ==
  /\ p \in Posts /\ p.try = a.tries /\ p.form = Form(a) /\ p.piece = a.piece
  /\ p.body = a.body /\ p.footers = a.footers /\ p.limit = a.limit
  /\ a.pc \in {"segment", "forward", "post", "chunk"}

After(a, j, p, old, ps) ==
  /\ old \in Seq(Posts) /\ ps \in Seq(Posts) /\ Last(ps) = p
  /\ Cardinality(Firsts(ps)) = Cardinality(Firsts(old)) + (IF a.piece = 1 THEN 1 ELSE 0)
  /\ \A k \in DOMAIN ps : k \in DOMAIN old \/ ps[k] = p
  /\ \A k \in DOMAIN old : k \in DOMAIN ps /\ ps[k] = old[k]
  /\ \A k \in DOMAIN ps : ps[k].try <= a.tries
  /\ \A n \in 1 .. a.piece : \E k \in Mine(a, ps) : ps[k].piece = n
  /\ \A k \in Mine(a, ps) : /\ ps[k].body = a.body /\ ps[k].footers = FootersDue(j)
                            /\ ps[k].piece >= 1 /\ ps[k].piece <= a.piece
                            /\ ps[k].piece \in Nat
  /\ \A k, l \in Mine(a, ps) : k < l => ps[k].piece <= ps[l].piece

LEMMA PostedFile ==
  ASSUME NEW a \in States, NEW f \in Files, NEW c, Good(a, f, c), NEW p, IsPost(p, a)
  PROVE  After(a, f.job, p, f.posts, Append(f.posts, p))
<1> DEFINE ps == Append(f.posts, p)
<1>0. p \in Posts /\ p.try = a.tries /\ p.form = Form(a) /\ p.piece = a.piece
      /\ p.body = a.body /\ p.footers = a.footers /\ p.limit = a.limit
      /\ a.pc \in {"segment", "forward", "post", "chunk"}
  BY DEF IsPost
<1>1. f.posts \in Seq(Posts)
  BY DEF Files
<1> HIDE DEF ps
<1>2. /\ ps \in Seq(Posts) /\ Last(ps) = p
      /\ \A k \in DOMAIN f.posts : k \in DOMAIN ps /\ ps[k] = f.posts[k]
      /\ \A k \in DOMAIN ps : k \in DOMAIN f.posts \/ k = Len(f.posts) + 1
      /\ ps[Len(f.posts) + 1] = p /\ Len(f.posts) \in Nat /\ DOMAIN f.posts = 1 .. Len(f.posts)
  BY <1>0, <1>1, Appended DEF ps
<1>3. Mine(a, ps) = Mine(a, f.posts) \cup {Len(f.posts) + 1}
  BY <1>0, <1>1, OwnAppended DEF Mine, ps
<1>4. Mine(a, f.posts) \subseteq DOMAIN f.posts
  BY DEF Mine, Own
<1>5. \A k \in DOMAIN f.posts : f.posts[k] \in Posts
  BY <1>1
<1>6. /\ \A k \in DOMAIN f.posts : f.posts[k].try <= a.tries
      /\ a.pc \in {"forward", "post"} => Mine(a, f.posts) = {}
      /\ a.pc \in {"segment", "chunk"} =>
           \A n \in 1 .. a.piece - 1 : \E k \in Mine(a, f.posts) : f.posts[k].piece = n
  BY DEF Good, Told
<1>7. /\ \A k \in Mine(a, f.posts) : /\ f.posts[k].body = a.body
                                     /\ f.posts[k].footers = FootersDue(f.job)
                                     /\ f.posts[k].piece >= 1
      /\ \A k, l \in Mine(a, f.posts) : k < l => f.posts[k].piece <= f.posts[l].piece
  BY <1>0 DEF Good, InOrder
<1>8. a.piece \in Nat /\ a.piece >= 1 /\ a.footers = FootersDue(f.job) /\ a.tries \in Nat
      /\ (a.pc \in {"forward", "post"} => a.piece = 1)
  BY <1>0, Constants DEF Good, Placed, Filing, States
<1>9. \A k \in Mine(a, f.posts) : f.posts[k].piece <= a.piece /\ f.posts[k].piece \in Nat
  BY <1>0, <1>4, <1>5, <1>6, <1>8 DEF Good, InOrder, Posts
<1>10. Cardinality(Firsts(ps)) = Cardinality(Firsts(f.posts)) + (IF a.piece = 1 THEN 1 ELSE 0)
  BY <1>0, <1>1, FirstsAppended DEF ps
<1>11. \A n \in 1 .. a.piece : \E k \in Mine(a, ps) : ps[k].piece = n
  <2> SUFFICES ASSUME NEW n \in 1 .. a.piece PROVE \E k \in Mine(a, ps) : ps[k].piece = n
    OBVIOUS
  <2>1. CASE n = a.piece
    BY <2>1, <1>0, <1>2, <1>3
  <2>2. CASE n # a.piece
    <3>1. n \in 1 .. a.piece - 1 /\ a.piece # 1
      BY <2>2, <1>8
    <3>2. PICK k \in Mine(a, f.posts) : f.posts[k].piece = n
      BY <3>1, <1>0, <1>6, <1>8
    <3> QED
      BY <3>2, <1>2, <1>3, <1>4
  <2> QED
    BY <2>1, <2>2
<1>12. \A k \in Mine(a, ps) : /\ ps[k].body = a.body /\ ps[k].footers = FootersDue(f.job)
                              /\ ps[k].piece >= 1 /\ ps[k].piece <= a.piece
  BY <1>0, <1>2, <1>3, <1>4, <1>7, <1>8, <1>9
<1>13. \A k \in Mine(a, ps) : ps[k].piece \in Nat
  <2>1. \A k \in DOMAIN ps : ps[k] \in Posts
    BY <1>2
  <2>2. \A k \in Mine(a, ps) : k \in DOMAIN ps
    BY DEF Mine, Own
  <2> QED
    BY <2>1, <2>2 DEF Posts
<1>14. \A k, l \in Mine(a, ps) : k < l => ps[k].piece <= ps[l].piece
  <2> SUFFICES ASSUME NEW k \in Mine(a, ps), NEW l \in Mine(a, ps), k < l
               PROVE  ps[k].piece <= ps[l].piece
    OBVIOUS
  <2>1. k \in Mine(a, f.posts)
    BY <1>2, <1>3, <1>4
  <2>2. CASE l \in Mine(a, f.posts)
    BY <2>1, <2>2, <1>2, <1>4, <1>7
  <2>3. CASE l = Len(f.posts) + 1
    BY <2>1, <2>3, <1>0, <1>2, <1>4, <1>9
  <2> QED
    BY <2>2, <2>3, <1>3
<1>15. \A k \in DOMAIN ps : ps[k].try <= a.tries
  BY <1>0, <1>2, <1>6, <1>8
<1> QED
  BY <1>1, <1>2, <1>3, <1>10, <1>11, <1>12, <1>13, <1>14, <1>15 DEF After, ps
-----------------------------------------------------------------------------
(* One step of one goroutine, seen from the file of its job.               *)

\* A place from which nothing of the attempt has been posted.
LEMMA Starts ==
  ASSUME NEW b \in States, NEW g \in Files, NEW c,
         Placed(b, g.job), Insists(b, g), Within(b, g, c),
         Mine(b, g.posts) = {}, \A k \in DOMAIN g.posts : g.posts[k].try <= b.tries,
         b.pc \in {"segment", "chunk"} => b.piece = 1,
         b.pc \in {"delay", "rewrite"} => g.posts = <<>>,
         b.pc \in {"route", "chunk"} => \A k \in DOMAIN g.posts : g.posts[k].form = "rich",
         Cardinality(Firsts(g.posts)) <= g.undone
  PROVE  Good(b, g, c)
<1>1. g.posts \in Seq(Posts) /\ g.undone \in Nat
  BY DEF Files
<1>2. Told(b, g.posts)
  BY DEF Told
<1>3. InOrder(b, g.job, g.posts)
  BY DEF InOrder
<1>4. Counted(b, g)
  BY <1>1 DEF Counted, Begun
<1> QED
  BY <1>2, <1>3, <1>4 DEF Good

\* Where nothing has been posted yet, the beginnings are all accounted for.
LEMMA Unbegun ==
  ASSUME NEW a \in States, NEW f \in Files, NEW c, Good(a, f, c), a.pc \notin {"segment", "chunk"}
  PROVE  /\ Cardinality(Firsts(f.posts)) <= f.undone
         /\ \A k \in DOMAIN f.posts : f.posts[k].try <= a.tries
         /\ a.pc # "backoff" => Mine(a, f.posts) = {}
<1>1. Cardinality(Firsts(f.posts)) \in Nat /\ f.undone \in Nat
  BY FirstsFinite DEF Files
<1> QED
  BY <1>1 DEF Good, Counted, Begun, Told

\* After a failed call that left something in the channel, so are they.
LEMMA Leaving ==
  ASSUME NEW a \in States, NEW f \in Files, NEW c, Good(a, f, c),
         NEW u, u = f.undone + (IF \E k \in DOMAIN f.posts : f.posts[k].try = a.tries THEN 1 ELSE 0)
  PROVE  u \in Nat /\ u >= f.undone /\ Cardinality(Firsts(f.posts)) <= u
<1>1. Cardinality(Firsts(f.posts)) \in Nat /\ f.undone \in Nat
  BY FirstsFinite DEF Files
<1>2. CASE Begun(a)
  <2>1. 1 \in 1 .. a.piece - 1
    BY <1>2 DEF Begun, States
  <2>2. PICK k \in Mine(a, f.posts) : f.posts[k].piece = 1
    BY <1>2, <2>1 DEF Good, Told, Begun
  <2>3. \E n \in DOMAIN f.posts : f.posts[n].try = a.tries
    BY <2>2 DEF Mine, Own
  <2> QED
    BY <1>1, <1>2, <2>3 DEF Good, Counted
<1>3. CASE ~ Begun(a)
  BY <1>1, <1>3 DEF Good, Counted
<1> QED
  BY <1>2, <1>3

\* sendWithRetry's backoff: the attempt is over, the next one has posted nothing.
LEMMA BacksOff ==
  ASSUME NEW a \in States, NEW b \in States, NEW g \in Files, NEW c,
         b.pc = "backoff", b.tries = a.tries, g.job.kind # "rich",
         \A k \in DOMAIN g.posts : g.posts[k].try <= a.tries,
         Cardinality(Firsts(g.posts)) <= g.undone
  PROVE  Good(b, g, c)
<1>1. Placed(b, g.job)
  BY DEF Placed, Filing
<1>2. Told(b, g.posts)
  BY DEF Told
<1>3. Counted(b, g)
  BY DEF Counted, Begun, Files
<1>4. Insists(b, g) /\ Within(b, g, c)
  BY DEF Insists, Within, Filing
<1> QED
  BY <1>1, <1>2, <1>3, <1>4 DEF Good

\* A post that ends nothing: the next piece, or a chunk that is called once more.
LEMMA GoesOn ==
  ASSUME NEW a \in States, NEW f \in Files, NEW c, Good(a, f, c),
         a.pc \in {"segment", "chunk"},
         NEW p, IsPost(p, a), NEW g \in Files, After(a, f.job, p, f.posts, g.posts),
         g.job = f.job, g.asked = f.asked,
         NEW b \in States, b.pc = a.pc, b.tries = a.tries, b.body = a.body,
         b.footers = a.footers, Placed(b, g.job),
         \/ b.piece = a.piece + 1 /\ g.undone = f.undone
         \/ b.piece = a.piece /\ a.pc = "chunk" /\ g.undone = f.undone + 1
  PROVE  Good(b, g, c)
<1>2. Mine(b, g.posts) = Mine(a, g.posts)
  BY DEF Mine, Form
<1>3. a.piece \in Nat /\ a.piece >= 1 /\ b.piece \in Nat /\ f.undone \in Nat
  BY DEF Good, Placed, States, Files
<1>5. Told(b, g.posts)
  <2>1. \A n \in 1 .. b.piece - 1 : n \in 1 .. a.piece
    BY <1>3
  <2>2. a.pc = "chunk" => \A k \in DOMAIN g.posts : g.posts[k].form = "rich"
    BY DEF Good, Told, Form, After, IsPost
  <2>3. \A k \in DOMAIN g.posts : g.posts[k].try <= b.tries
    BY DEF After
  <2>4. \A n \in 1 .. b.piece - 1 : \E k \in Mine(b, g.posts) : g.posts[k].piece = n
    BY <1>2, <2>1 DEF After
  <2> QED
    BY <2>2, <2>3, <2>4 DEF Told
<1>6. InOrder(b, g.job, g.posts)
  <2>1. a.pc = "segment" => \A k \in Mine(b, g.posts) : g.posts[k].piece < b.piece
    BY <1>2, <1>3 DEF After
  <2>2. \A k \in Mine(b, g.posts) : g.posts[k].piece <= b.piece
    BY <1>2, <1>3 DEF After
  <2> QED
    BY <1>2, <2>1, <2>2 DEF InOrder, After
<1>7. Counted(b, g)
  <2>1. Cardinality(Firsts(f.posts)) <= f.undone + (IF a.piece > 1 THEN 1 ELSE 0)
    BY DEF Good, Counted, Begun
  <2>2. Cardinality(Firsts(f.posts)) \in Nat
    BY FirstsFinite DEF Files
  <2>3. Cardinality(Firsts(g.posts)) = Cardinality(Firsts(f.posts)) + (IF a.piece = 1 THEN 1 ELSE 0)
    BY DEF After
  <2>4. Cardinality(Firsts(g.posts)) <= g.undone + (IF b.piece > 1 THEN 1 ELSE 0)
    BY <1>3, <2>1, <2>2, <2>3
  <2> QED
    BY <2>4 DEF Counted, Begun
<1>8. Insists(b, g)
  BY DEF Good, Insists
<1>9. Within(b, g, c)
  BY DEF Within, Filing
<1> QED
  BY <1>5, <1>6, <1>7, <1>8, <1>9 DEF Good

\* The last post of a copy.
LEMMA CopyIsWhole ==
  ASSUME NEW a \in States, NEW f \in Files, NEW c, Good(a, f, c), NEW p, IsPost(p, a),
         NEW ps, After(a, f.job, p, f.posts, ps), a.piece = Total(f.job, p)
  PROVE  WholeCopy(f.job, ps)
<1>1. Mine(a, ps) = Own(ps, p.try, p.form)
  BY DEF Mine, IsPost
<1>2. {ps[k].piece : k \in Mine(a, ps)} = 1 .. a.piece
  <2>1. a.piece \in Nat
    BY DEF States
  <2>2. \A n \in {ps[k].piece : k \in Mine(a, ps)} : n \in 1 .. a.piece
    BY <2>1 DEF After
  <2>3. \A n \in 1 .. a.piece : n \in {ps[k].piece : k \in Mine(a, ps)}
    BY DEF After
  <2> QED
    BY <2>2, <2>3
<1>3. Last(ps) = p /\ p.body = a.body
  BY DEF After, IsPost
<1>4. /\ \A k \in Mine(a, ps) : ps[k].body = a.body /\ ps[k].footers = FootersDue(f.job)
      /\ \A k, l \in Mine(a, ps) : k < l => ps[k].piece <= ps[l].piece
  BY DEF After
<1> QED
  BY <1>1, <1>2, <1>3, <1>4 DEF WholeCopy

\* What stays true of a job, ended or not, when something is posted for it.
LEMMA PostCloses ==
  ASSUME NEW a \in States, NEW f \in Files, NEW c, Good(a, f, c), Closed(f),
         NEW p, IsPost(p, a), NEW g \in Files, After(a, f.job, p, f.posts, g.posts),
         g.job = f.job, g.undone >= f.undone, g.why = f.why, g.asked = f.asked,
         g.late = f.late, g.result = "sent" => WholeCopy(g.job, g.posts)
  PROVE  Closed(g)
<1>2. Cardinality(Firsts(g.posts)) <= 1 + g.undone
  <2>1. Cardinality(Firsts(f.posts)) <= f.undone + (IF Begun(a) THEN 1 ELSE 0)
    BY DEF Good, Counted
  <2>2. Cardinality(Firsts(f.posts)) \in Nat /\ f.undone \in Nat /\ g.undone \in Nat
    BY FirstsFinite DEF Files
  <2>3. a.piece = 1 => ~ Begun(a)
    BY DEF Begun
  <2>4. Cardinality(Firsts(g.posts)) = Cardinality(Firsts(f.posts)) + (IF a.piece = 1 THEN 1 ELSE 0)
    BY DEF After
  <2> QED
    BY <2>1, <2>2, <2>3, <2>4
<1>3. AllRich(g)
  <2> SUFFICES ASSUME ~ g.asked, g.job.kind = "rich", g.job.style = "rich",
                      NEW k \in DOMAIN g.posts
               PROVE  g.posts[k].form = "rich"
    BY DEF AllRich
  <2>1. p.form = "rich"
    BY DEF Good, Insists, IsPost, Form
  <2>2. \A n \in DOMAIN f.posts : f.posts[n].form = "rich"
    BY DEF Closed, AllRich
  <2> QED
    BY <2>1, <2>2 DEF After
<1>4. AllFit(g)
  <2> SUFFICES ASSUME ~ g.late
               PROVE  /\ g.why # "capped"
                      /\ \A k \in DOMAIN g.posts : \A n \in 1 .. Len(g.job.media) :
                           g.posts[k].limit = 0 \/ g.job.media[n].real <= g.posts[k].limit
    BY DEF AllFit
  <2>1. /\ f.why # "capped"
        /\ \A k \in DOMAIN f.posts : \A n \in 1 .. Len(f.job.media) :
             f.posts[k].limit = 0 \/ f.job.media[n].real <= f.posts[k].limit
    BY DEF Closed, AllFit
  <2>2. \A n \in 1 .. Len(f.job.media) : p.limit = 0 \/ f.job.media[n].real <= p.limit
    <3>1. CASE a.pc = "post"
      BY <3>1 DEF Good, Within, Filing, Fits, IsPost
    <3>2. CASE a.pc # "post"
      <4>1. f.job.kind # "files"
        BY <3>2 DEF Good, Placed, IsPost
      <4>2. f.job.media = <<>>
        BY <4>1 DEF Files, Tasks
      <4>3. Len(f.job.media) = 0
        BY <4>2
      <4> QED
        BY <4>3
    <3> QED
      BY <3>1, <3>2
  <2> QED
    BY <2>1, <2>2 DEF After
<1> QED
  BY <1>2, <1>3, <1>4 DEF Closed

\* ... and when nothing is.
LEMMA QuietCloses ==
  ASSUME NEW f \in Files, Closed(f), NEW g \in Files, g.job = f.job, g.posts = f.posts,
         g.undone >= f.undone, f.asked => g.asked, f.late => g.late,
         g.result = "sent" => f.result = "sent", g.why \in {f.why, "capped"} \cup Reasons,
         g.why = "capped" => f.why = "capped" \/ g.late
  PROVE  Closed(g)
<1>1. Cardinality(Firsts(g.posts)) <= 1 + g.undone
  <2>1. Cardinality(Firsts(f.posts)) \in Nat /\ f.undone \in Nat /\ g.undone \in Nat
    BY FirstsFinite DEF Files
  <2> QED
    BY <2>1 DEF Closed
<1> QED
  BY <1>1 DEF Closed, AllRich, AllFit
-----------------------------------------------------------------------------
(* A step changes one goroutine and the file of the job it holds.          *)

Only(q, r, i, T) == r \in Seq(T) /\ Len(r) = Len(q) /\ \A k \in 1 .. Len(q) : k # i => r[k] = q[k]

LEMMA OnlyExcept ==
  ASSUME NEW T, NEW q \in Seq(T), NEW i \in 1 .. Len(q), NEW r, DOMAIN r = DOMAIN q,
         r \in [DOMAIN q -> T], \A k \in DOMAIN q : k # i => r[k] = q[k]
  PROVE  Only(q, r, i, T)
<1>1. r \in Seq(T) /\ Len(r) = Len(q)
  OBVIOUS
<1> QED
  BY <1>1 DEF Only

LEMMA OnlySame ==
  ASSUME NEW T, NEW q \in Seq(T), NEW i
  PROVE  Only(q, q, i, T)
BY DEF Only

Edited(s, g) ==
  /\ UNCHANGED <<job, load, limit, cap, cancelled, ends>> /\ disabled' \in BOOLEAN
  /\ g.job = job[at[s].id]
  /\ Only(posts, posts', at[s].id, Seq(Posts)) /\ posts'[at[s].id] = g.posts
  /\ Only(undone, undone', at[s].id, Nat) /\ undone'[at[s].id] = g.undone
  /\ Only(why, why', at[s].id, Reasons) /\ why'[at[s].id] = g.why
  /\ asked' = asked \cup (IF g.asked THEN {at[s].id} ELSE {}) /\ (at[s].id \in asked => g.asked)
  /\ late' = late \cup (IF g.late THEN {at[s].id} ELSE {}) /\ (at[s].id \in late => g.late)

NextFile(s) ==
  LET i == at[s].id
  IN [job |-> job'[i], result |-> result'[i], posts |-> posts'[i], undone |-> undone'[i],
      why |-> why'[i], asked |-> i \in asked', late |-> i \in late']

Others(s) ==
  /\ \A t \in Senders \ {s} : at'[t] = at[t]
  /\ job' = job /\ cap' = cap /\ Len(result') = Len(result)
  /\ \A i \in Jobs : i # at[s].id => File(i)' = File(i)

\* The step leaves s with its job, and the job's file in order, or with neither.
StepKept(s) ==
  /\ Others(s) /\ TypeOK'
  /\ IF at'[s].pc = "idle" THEN result'[at[s].id] # "none"
     ELSE /\ at'[s].pc # "starting" /\ at'[s].id = at[s].id /\ result'[at[s].id] = "none"
          /\ Good(at'[s], NextFile(s), cap)
  /\ Closed(NextFile(s))
  /\ TempDirHasCause'

LEMMA JobsAre == TypeOK => Jobs = 1 .. Len(job) /\ Len(job) \in Nat
BY DEF TypeOK, Jobs

LEMMA FileType == TypeOK => \A i \in Jobs : File(i) \in Files
BY DEF TypeOK, Jobs, File, Files

\* What the invariant says of a sender that has a job.
LEMMA Holding ==
  ASSUME IInv, NEW s \in Senders, Active(s)
  PROVE  /\ at[s] \in States /\ at[s].id \in Jobs /\ at[s].id \in 1 .. Len(job)
         /\ File(at[s].id) \in Files /\ File(at[s].id).result = "none"
         /\ result[at[s].id] = "none" /\ cap \in Nat /\ limit \in Nat
         /\ Good(at[s], File(at[s].id), cap) /\ Closed(File(at[s].id))
         /\ (File(at[s].id).job.kind = "rich") = (s \in Callers)
         /\ File(at[s].id).job = job[at[s].id] /\ File(at[s].id).job = JobOf(s)
         /\ s # Engine => s \in Callers
<1>1. at[s] \in States /\ cap \in Limits /\ limit \in Limits
  BY DEF IInv, TypeOK
<1>2. at[s].id \in Jobs /\ result[at[s].id] = "none" /\ (job[at[s].id].kind = "rich") = (s \in Callers)
  BY DEF IInv, Owned
<1>3. Good(at[s], File(at[s].id), cap) /\ Closed(File(at[s].id))
  BY <1>2 DEF IInv
<1>4. /\ File(at[s].id).result = result[at[s].id] /\ File(at[s].id).job = job[at[s].id]
  BY DEF File
<1>5. File(at[s].id) \in Files /\ at[s].id \in 1 .. Len(job)
  BY <1>2, FileType, JobsAre DEF IInv
<1> QED
  BY <1>1, <1>2, <1>3, <1>4, <1>5, Constants DEF JobOf, Senders

\* The frame of every step below.
LEMMA Framed ==
  ASSUME IInv, NEW s \in Senders, Active(s), NEW b \in States, Goto(s, b),
         NEW g \in Files, Edited(s, g),
         Only(result, result', at[s].id, Verdicts), result'[at[s].id] = g.result
  PROVE  Others(s) /\ TypeOK' /\ NextFile(s) = g /\ at'[s] = b
<1>1. at \in [Senders -> States]
  BY DEF IInv, TypeOK
<1>2. at' \in [Senders -> States] /\ at'[s] = b /\ \A t \in Senders \ {s} : at'[t] = at[t]
  BY <1>1 DEF Goto
<1>3. NextFile(s) = g
  <2> DEFINE i == at[s].id
  <2>1. NextFile(s) = [job |-> job[i], result |-> g.result, posts |-> g.posts,
                       undone |-> g.undone, why |-> g.why, asked |-> g.asked, late |-> g.late]
    <3>1. (i \in asked') = g.asked /\ (i \in late') = g.late
      BY DEF Edited, Files
    <3> QED
      BY <3>1 DEF NextFile, Edited
  <2> QED
    BY <2>1 DEF Edited, Files
<1>4. TypeOK'
  BY <1>2 DEF IInv, TypeOK, Edited, Only
<1>5. \A i \in Jobs : i # at[s].id => File(i)' = File(i)
  <2> SUFFICES ASSUME NEW i \in Jobs, i # at[s].id PROVE File(i)' = File(i)
    OBVIOUS
  <2>1. i \in 1 .. Len(job)
    BY JobsAre DEF IInv
  <2>2. i \in 1 .. Len(result) /\ i \in 1 .. Len(posts) /\ i \in 1 .. Len(undone) /\ i \in 1 .. Len(why)
    BY <2>1 DEF IInv, TypeOK
  <2>3. /\ result'[i] = result[i] /\ posts'[i] = posts[i] /\ undone'[i] = undone[i]
        /\ why'[i] = why[i] /\ job'[i] = job[i]
    BY <2>2 DEF Edited, Only
  <2>4. (i \in asked') = (i \in asked) /\ (i \in late') = (i \in late)
    BY DEF Edited
  <2> QED
    BY <2>3, <2>4 DEF File
<1>6. Len(result') = Len(result)
  BY DEF Only
<1> QED
  BY <1>2, <1>3, <1>4, <1>5, <1>6 DEF Others, Edited

LEMMA StepIsKept ==
  ASSUME IInv, NEW s \in Senders, Active(s), StepKept(s)
  PROVE  IInv'
<1> USE DEF StepKept, Others
<1>1. at[s].id \in Jobs /\ Jobs' = Jobs /\ \A t \in Senders : Active(t) /\ t # s => at[t].id # at[s].id
  BY DEF IInv, Owned, Jobs
<1>2. \A i \in Jobs : i # at[s].id => result'[i] = result[i]
  <2> SUFFICES ASSUME NEW i \in Jobs, i # at[s].id PROVE result'[i] = result[i]
    OBVIOUS
  <2>1. File(i)'.result = File(i).result
    OBVIOUS
  <2> QED
    BY <2>1 DEF File
<1>3. Owned'
  <2>1. \A t \in Callers : at'[t].pc # "starting"
    BY DEF IInv, Owned, Senders
  <2>2. ASSUME NEW t \in Senders, Active(t)'
        PROVE  /\ at'[t].id \in Jobs /\ result'[at'[t].id] = "none"
               /\ (job[at'[t].id].kind = "rich") = (t \in Callers)
               /\ \A u \in Senders : Active(u)' /\ at'[u].id = at'[t].id => u = t
    <3>1. \A u \in Senders : Active(u)' => Active(u) /\ at'[u].id = at[u].id
      BY DEF Active
    <3>2. Active(t) /\ at'[t].id = at[t].id
      BY <2>2, <3>1
    <3>3. result'[at[t].id] = "none"
      <4>1. CASE t = s
        BY <2>2, <4>1 DEF Active
      <4>2. CASE t # s
        BY <3>2, <4>2, <1>1, <1>2 DEF IInv, Owned
      <4> QED
        BY <4>1, <4>2
    <3> QED
      BY <3>1, <3>2, <3>3 DEF IInv, Owned
  <2> QED
    BY <2>1, <2>2, <1>1 DEF Owned
<1>4. ASSUME NEW t \in Senders, Active(t)'
      PROVE  Good(at'[t], File(at[t].id)', cap')
  <2>1. CASE t = s
    <3>1. at'[s].id = at[s].id /\ Good(at'[s], NextFile(s), cap)
      BY <2>1, <1>4 DEF Active
    <3>2. File(at[s].id)' = NextFile(s)
      BY <3>1 DEF File, NextFile
    <3> QED
      BY <3>1, <3>2, <2>1
  <2>2. CASE t # s
    <3>1. Active(t) /\ at'[t] = at[t]
      BY <2>2, <1>4 DEF Active
    <3>2. PICK i \in Jobs : i = at[t].id /\ i # at[s].id
      BY <3>1, <2>2, <1>1 DEF IInv, Owned
    <3>3. File(i)' = File(i)
      BY <3>2
    <3>4. File(at[t].id)' = File(i)' /\ File(i) = File(at[t].id)
      BY <3>1, <3>2 DEF File
    <3> QED
      BY <3>1, <3>3, <3>4 DEF IInv
  <2> QED
    BY <2>1, <2>2
<1>5. ASSUME NEW i \in Jobs PROVE Closed(File(i)')
  <2>1. CASE i = at[s].id
    <3>1. File(i)' = NextFile(s)
      BY <2>1 DEF File, NextFile
    <3> QED
      BY <3>1
  <2>2. CASE i # at[s].id
    <3>1. File(i)' = File(i)
      BY <2>2
    <3> QED
      BY <3>1 DEF IInv
  <2> QED
    BY <2>1, <2>2
<1>6. \A t \in Senders : Active(t)' => Good(at[t], File(at[t].id), cap)'
  BY <1>4 DEF Good, Placed, Told, InOrder, Counted, Insists, Within, Mine, Form, Begun
<1>7. \A i \in Jobs' : Closed(File(i))'
  BY <1>1, <1>5 DEF Closed, AllRich, AllFit
<1> QED
  BY <1>3, <1>6, <1>7 DEF IInv
-----------------------------------------------------------------------------
(* The ways a step ends.                                                   *)

LEMMA DirKept ==
  ASSUME IInv, NEW s \in Senders, \A t \in Senders \ {s} : at'[t] = at[t],
         \A d \in tmp' \ stale' : d \in tmp \ stale,
         s = Engine /\ at[s].pc \in Filing =>
           at'[s].pc \in Filing /\ at'[s].id = at[s].id /\ at'[s].tries = at[s].tries
  PROVE  TempDirHasCause'
<1> SUFFICES ASSUME NEW d \in tmp' \ stale'
             PROVE  d = Dir(Engine)' /\ at'[Engine].pc \in Filing
  BY DEF TempDirHasCause, Filing
<1>1. d = Dir(Engine) /\ at[Engine].pc \in Filing
  BY DEF IInv, TempDirHasCause, Filing
<1>2. at'[Engine].pc \in Filing /\ at'[Engine].id = at[Engine].id /\ at'[Engine].tries = at[Engine].tries
  BY <1>1, Constants
<1> QED
  BY <1>1, <1>2 DEF Dir

LEMMA DirRemoved ==
  ASSUME IInv, NEW s \in Senders, \A t \in Senders \ {s} : at'[t] = at[t], RemoveDir(s)
  PROVE  TempDirHasCause'
<1>1. \A d \in tmp' \ stale' : d \in tmp \ stale /\ d # Dir(s)
  BY DEF RemoveDir
<1>2. CASE s = Engine /\ at[s].pc \in Filing
  <2>1. \A d \in tmp' \ stale' : FALSE
    BY <1>1, <1>2 DEF IInv, TempDirHasCause
  <2> QED
    BY <2>1 DEF TempDirHasCause
<1>3. CASE ~ (s = Engine /\ at[s].pc \in Filing)
  BY <1>1, <1>3, DirKept
<1> QED
  BY <1>2, <1>3

\* The file of a job to which nothing happens.
LEMMA Untouched ==
  ASSUME IInv, NEW s \in Senders, Active(s),
         UNCHANGED <<job, posts, undone, why, asked, late>>,
         UNCHANGED <<load, limit, cap, cancelled, ends>>, disabled' \in BOOLEAN,
         NEW r \in Verdicts
  PROVE  /\ [File(at[s].id) EXCEPT !.result = r] \in Files
         /\ Edited(s, [File(at[s].id) EXCEPT !.result = r])
<1>1. at[s].id \in Jobs /\ File(at[s].id) \in Files
  BY Holding
<1>2. [File(at[s].id) EXCEPT !.result = r] \in Files
  BY <1>1 DEF Files
<1>3. /\ Only(posts, posts', at[s].id, Seq(Posts)) /\ Only(undone, undone', at[s].id, Nat)
      /\ Only(why, why', at[s].id, Reasons)
  BY OnlySame DEF IInv, TypeOK
<1> QED
  BY <1>2, <1>3 DEF Edited, File

\* A step that only moves the goroutine.
LEMMA MoveKept ==
  ASSUME IInv, NEW s \in Senders, Active(s), NEW b \in States, Goto(s, b), Keeps,
         b.id = at[s].id, b.pc \notin {"idle", "starting"},
         Good(b, File(at[s].id), cap),
         at[s].pc \in Filing => b.pc \in Filing /\ b.tries = at[s].tries
  PROVE  StepKept(s)
<1> DEFINE g == File(at[s].id)
<1>1. g \in Files /\ g.result = "none" /\ Closed(g) /\ at[s].id \in 1 .. Len(job)
  BY Holding
<1>2. UNCHANGED <<job, posts, undone, why, asked, late, result, tmp, stale>>
      /\ UNCHANGED <<load, limit, cap, cancelled, ends, disabled>>
  BY DEF Keeps, shared
<1>3. disabled' \in BOOLEAN
  BY <1>2 DEF IInv, TypeOK
<1>4. [g EXCEPT !.result = "none"] = g
  BY <1>1 DEF Files
<1>5. Edited(s, g)
  BY <1>2, <1>3, <1>4, Untouched DEF Verdicts
<1>6. Only(result, result', at[s].id, Verdicts) /\ result'[at[s].id] = g.result
  BY <1>2, OnlySame DEF IInv, TypeOK, File
<1>7. Others(s) /\ TypeOK' /\ NextFile(s) = g /\ at'[s] = b
  BY <1>1, <1>5, <1>6, Framed
<1>8. TempDirHasCause'
  BY <1>2, <1>7, DirKept DEF Others
<1> QED
  BY <1>1, <1>6, <1>7, <1>8 DEF StepKept

\* A goroutine that returns, with its job's file as given.
LEMMA EndKept ==
  ASSUME IInv, NEW s \in Senders, Active(s), NEW r \in Verdicts \ {"none"}, Ends(s, r),
         NEW g \in Files, Edited(s, g), g.result = "none",
         Closed([g EXCEPT !.result = r]), TempDirHasCause'
  PROVE  StepKept(s)
<1> DEFINE h == [g EXCEPT !.result = r]
<1>1. h \in Files /\ Edited(s, h) /\ h.result = r
  BY DEF Files, Edited
<1>2. at[s].id \in 1 .. Len(result) /\ result \in Seq(Verdicts)
  BY Holding DEF IInv, TypeOK
<1>3. Only(result, result', at[s].id, Verdicts) /\ result'[at[s].id] = r
  <2>1. result' = [result EXCEPT ![at[s].id] = r] /\ r \in Verdicts
    BY DEF Ends
  <2> HIDE DEF h
  <2>2. result \in [DOMAIN result -> Verdicts] /\ at[s].id \in DOMAIN result
    BY <1>2
  <2>3. /\ result' \in [DOMAIN result -> Verdicts] /\ result'[at[s].id] = r
        /\ \A k \in DOMAIN result : k # at[s].id => result'[k] = result[k]
    BY <2>1, <2>2
  <2> QED
    BY <1>2, <2>3, OnlyExcept
<1>4. Idle \in States /\ Idle.pc = "idle" /\ Goto(s, Idle)
  BY DEF Idle, States, Pcs, Bodies, Ends
<1>5. Others(s) /\ TypeOK' /\ NextFile(s) = h /\ at'[s] = Idle
  BY <1>1, <1>3, <1>4, Framed
<1> QED
  BY <1>3, <1>4, <1>5 DEF StepKept

\* A goroutine that keeps its job, with the job's file as given.
LEMMA StayKept ==
  ASSUME IInv, NEW s \in Senders, Active(s), NEW b \in States, Goto(s, b), UNCHANGED result,
         b.id = at[s].id, b.pc \notin {"idle", "starting"},
         NEW g \in Files, Edited(s, g), g.result = "none", Closed(g), Good(b, g, cap),
         TempDirHasCause'
  PROVE  StepKept(s)
<1>1. at[s].id \in 1 .. Len(job) /\ result[at[s].id] = "none"
  BY Holding
<1>2. Only(result, result', at[s].id, Verdicts) /\ result'[at[s].id] = g.result
  BY <1>1, OnlySame DEF IInv, TypeOK
<1>3. Others(s) /\ TypeOK' /\ NextFile(s) = g /\ at'[s] = b
  BY <1>2, Framed
<1> QED
  BY <1>1, <1>2, <1>3 DEF StepKept

\* sendWithRetry's three ways out of an error, when what was posted is accounted for.
LEMMA FailsKept ==
  ASSUME IInv, NEW s \in Senders, Active(s), NEW class \in {"transient", "permanent"},
         Fails(s, class), NEW g \in Files, Edited(s, g), g.result = "none", Closed(g),
         \A k \in DOMAIN g.posts : g.posts[k].try <= at[s].tries,
         Cardinality(Firsts(g.posts)) <= g.undone
  PROVE  StepKept(s)
<1>1. RemoveDir(s) /\ at[s] \in States /\ (g.job.kind = "rich") = (s \in Callers)
      /\ (s # Engine => s \in Callers)
  BY Holding DEF Fails, Edited
<1>2. at \in [Senders -> States]
  BY DEF IInv, TypeOK
<1>3. CASE /\ s = Engine /\ Goto(s, [at[s] EXCEPT !.pc = "backoff"]) /\ UNCHANGED result
  <2>1. PICK b \in States : b = [at[s] EXCEPT !.pc = "backoff"]
    BY <1>1, StateEdits DEF Pcs
  <2>2. b.pc = "backoff" /\ b.id = at[s].id /\ b.tries = at[s].tries
    BY <1>1, <2>1 DEF States
  <2>3. g.job.kind # "rich"
    BY <1>1, <1>3, Constants
  <2>4. Good(b, g, cap)
    BY <1>1, <2>2, <2>3, BacksOff
  <2>5. TempDirHasCause'
    BY <1>1, <1>2, <1>3, DirRemoved DEF Goto
  <2> QED
    BY <1>3, <2>1, <2>2, <2>4, <2>5, StayKept
<1>4. ASSUME NEW r \in {"transient", "permanent", "dropped"}, Ends(s, r)
      PROVE  StepKept(s)
  <2>1. TempDirHasCause'
    BY <1>1, <1>2, <1>4, DirRemoved DEF Goto, Ends
  <2>2. [g EXCEPT !.result = r] \in Files
    BY DEF Files, Verdicts
  <2>3. Closed([g EXCEPT !.result = r])
    BY <2>2, QuietCloses DEF Files
  <2> QED
    BY <1>4, <2>1, <2>3, EndKept DEF Verdicts
<1>5. Verdict(s, class) \in {"again", "transient", "permanent"}
  BY DEF Verdict
<1> QED
  BY <1>3, <1>4, <1>5 DEF Fails
-----------------------------------------------------------------------------
(* Errors and posts.                                                       *)

LEMMA FailsQuietlyKept ==
  ASSUME IInv, NEW s \in Senders, Active(s), NEW class \in {"transient", "permanent"},
         NEW reason \in Reasons, FailsQuietly(s, class, reason),
         reason = "capped" => at[s].id \in late
  PROVE  StepKept(s)
<1> DEFINE i == at[s].id
           f == File(i)
           u == f.undone + (IF \E k \in DOMAIN f.posts : f.posts[k].try = at[s].tries THEN 1 ELSE 0)
           w == IF reason = "none" THEN f.why ELSE reason
           g == [f EXCEPT !.undone = u, !.why = w]
<1>1. /\ f \in Files /\ at[s] \in States /\ Good(at[s], f, cap) /\ Closed(f) /\ f.result = "none"
      /\ i \in 1 .. Len(job)
  BY Holding
<1>2. u \in Nat /\ u >= f.undone /\ Cardinality(Firsts(f.posts)) <= u
  <2> HIDE DEF f
  <2> QED
    BY <1>1, Leaving
<1>3. /\ f.undone = undone[i] /\ f.why = why[i] /\ f.posts = posts[i] /\ f.job = job[i]
      /\ f.asked = (i \in asked) /\ f.late = (i \in late)
  BY DEF File
<1>4. /\ undone' = [undone EXCEPT ![i] = u]
      /\ why' = IF reason = "none" THEN why ELSE [why EXCEPT ![i] = reason]
      /\ Fails(s, class) /\ UNCHANGED <<job, posts, asked, late>>
      /\ UNCHANGED <<load, disabled, limit, cap, cancelled, ends>>
  BY <1>3 DEF FailsQuietly, Leaves, InChannel, shared
<1> HIDE DEF f, u
<1>5. w \in Reasons
  BY <1>1 DEF Files
<1>6. /\ g \in Files /\ g.undone = u /\ g.why = w /\ g.posts = f.posts /\ g.job = f.job
      /\ g.result = "none" /\ g.asked = f.asked /\ g.late = f.late
  BY <1>1, <1>2, <1>5 DEF Files
<1> HIDE DEF w, g
<1>7. Edited(s, g)
  <2>1. /\ posts \in Seq(Seq(Posts)) /\ undone \in Seq(Nat) /\ why \in Seq(Reasons)
        /\ i \in 1 .. Len(undone) /\ i \in 1 .. Len(why) /\ disabled \in BOOLEAN
    BY <1>1 DEF IInv, TypeOK
  <2>2. Only(undone, undone', i, Nat) /\ undone'[i] = u
    <3>1. undone \in [DOMAIN undone -> Nat] /\ i \in DOMAIN undone
      BY <2>1
    <3>2. /\ undone' \in [DOMAIN undone -> Nat] /\ undone'[i] = u
          /\ \A k \in DOMAIN undone : k # i => undone'[k] = undone[k]
      BY <1>2, <1>4, <3>1
    <3> QED
      BY <2>1, <3>2, OnlyExcept
  <2>3. Only(why, why', i, Reasons) /\ why'[i] = w
    <3>1. CASE reason = "none"
      BY <1>3, <1>4, <2>1, <3>1, OnlySame DEF w
    <3>2. CASE reason # "none"
      <4>1. why \in [DOMAIN why -> Reasons] /\ i \in DOMAIN why
        BY <2>1
      <4>2. /\ why' \in [DOMAIN why -> Reasons] /\ why'[i] = w
            /\ \A k \in DOMAIN why : k # i => why'[k] = why[k]
        BY <1>4, <3>2, <4>1 DEF w
      <4> QED
        BY <2>1, <4>2, OnlyExcept
    <3> QED
      BY <3>1, <3>2
  <2>4. Only(posts, posts', i, Seq(Posts)) /\ posts'[i] = posts[i]
    BY <1>4, <2>1, OnlySame
  <2> QED
    BY <1>3, <1>4, <1>6, <2>1, <2>2, <2>3, <2>4 DEF Edited
<1>8. Closed(g)
  <2>1. g.why = "capped" => f.why = "capped" \/ g.late
    BY <1>3, <1>6 DEF w
  <2> QED
    BY <1>1, <1>2, <1>5, <1>6, <2>1, QuietCloses
<1>9. \A k \in DOMAIN g.posts : g.posts[k].try <= at[s].tries
  BY <1>1, <1>6 DEF Good, Told
<1>10. Cardinality(Firsts(g.posts)) <= g.undone
  BY <1>2, <1>6
<1> QED
  BY <1>4, <1>6, <1>7, <1>8, <1>9, <1>10, FailsKept

\* What Posted adds.
LEMMA PostedIs ==
  ASSUME IInv, NEW s \in Senders, Active(s), NEW form, form = Form(at[s]), Posted(s, form),
         at[s].pc \in {"segment", "forward", "post", "chunk"}
  PROVE  \E p : /\ IsPost(p, at[s]) /\ posts'[at[s].id] = Append(posts[at[s].id], p)
                /\ Only(posts, posts', at[s].id, Seq(Posts))
                /\ posts'[at[s].id] \in Seq(Posts)
                /\ After(at[s], job[at[s].id], p, posts[at[s].id], posts'[at[s].id])
<1> DEFINE i == at[s].id
           p == [form |-> form, try |-> at[s].tries, piece |-> at[s].piece, body |-> at[s].body,
                 footers |-> at[s].footers, limit |-> at[s].limit]
<1>1. /\ File(i) \in Files /\ at[s] \in States /\ Good(at[s], File(i), cap) /\ i \in 1 .. Len(job)
      /\ File(i).posts = posts[i] /\ File(i).job = job[i]
  BY Holding DEF File
<1>2. IsPost(p, at[s])
  BY <1>1 DEF IsPost, Posts, States, Form
<1>3. posts' = [posts EXCEPT ![i] = Append(posts[i], p)]
  BY DEF Posted
<1> HIDE DEF p
<1>4. posts \in Seq(Seq(Posts)) /\ i \in 1 .. Len(posts)
  BY <1>1 DEF IInv, TypeOK
<1>5. posts[i] \in Seq(Posts) /\ p \in Posts
  BY <1>2, <1>4 DEF IsPost
<1>6. Append(posts[i], p) \in Seq(Posts)
  BY <1>5
<1>7. Only(posts, posts', i, Seq(Posts)) /\ posts'[i] = Append(posts[i], p)
  <2>1. posts \in [DOMAIN posts -> Seq(Posts)] /\ i \in DOMAIN posts
    BY <1>4
  <2>2. /\ posts' \in [DOMAIN posts -> Seq(Posts)] /\ posts'[i] = Append(posts[i], p)
        /\ \A k \in DOMAIN posts : k # i => posts'[k] = posts[k]
    BY <1>3, <1>6, <2>1
  <2> QED
    BY <1>4, <2>2, OnlyExcept
<1>8. After(at[s], File(i).job, p, File(i).posts, Append(File(i).posts, p))
  BY <1>1, <1>2, PostedFile
<1> QED
  BY <1>1, <1>2, <1>6, <1>7, <1>8

\* The file after a post, with u more failed calls to answer for.
LEMMA PostedEdited ==
  ASSUME IInv, NEW s \in Senders, Active(s), NEW p, IsPost(p, at[s]),
         Only(posts, posts', at[s].id, Seq(Posts)), posts'[at[s].id] \in Seq(Posts),
         UNCHANGED <<job, why, asked, late>>, UNCHANGED <<load, disabled, limit, cap, cancelled, ends>>,
         NEW u \in {0, 1},
         undone' = IF u = 0 THEN undone ELSE [undone EXCEPT ![at[s].id] = @ + 1]
  PROVE  \E g \in Files :
           /\ Edited(s, g) /\ g.posts = posts'[at[s].id] /\ g.undone = File(at[s].id).undone + u
           /\ g.job = File(at[s].id).job /\ g.result = "none" /\ g.why = File(at[s].id).why
           /\ g.asked = File(at[s].id).asked /\ g.late = File(at[s].id).late
<1> DEFINE i == at[s].id
           f == File(i)
           g == [f EXCEPT !.posts = posts'[i], !.undone = @ + u]
<1>1. f \in Files /\ f.result = "none" /\ i \in 1 .. Len(job) /\ posts'[i] \in Seq(Posts)
  BY Holding
<1>2. /\ f.undone = undone[i] /\ f.why = why[i] /\ f.job = job[i]
      /\ f.asked = (i \in asked) /\ f.late = (i \in late)
  BY DEF File
<1> HIDE DEF f
<1>9. f.undone + u \in Nat
  BY <1>1 DEF Files
<1>3. /\ g \in Files /\ g.undone = f.undone + u /\ g.why = f.why /\ g.posts = posts'[i]
      /\ g.job = f.job /\ g.result = "none" /\ g.asked = f.asked /\ g.late = f.late
  <2>1. PICK q \in Seq(Posts) : q = posts'[i]
    BY <1>1
  <2>2. PICK n \in Nat : n = f.undone + u
    BY <1>9
  <2>3. g = [f EXCEPT !.posts = q, !.undone = n]
    BY <2>1, <2>2
  <2> HIDE DEF g
  <2> QED
    BY <1>1, <2>1, <2>2, <2>3 DEF Files
<1> HIDE DEF g
<1>4. /\ undone \in Seq(Nat) /\ why \in Seq(Reasons) /\ i \in 1 .. Len(undone) /\ disabled \in BOOLEAN
  BY <1>1 DEF IInv, TypeOK
<1>5. Only(undone, undone', i, Nat) /\ undone'[i] = undone[i] + u
  <2>1. undone[i] + u \in Nat
    BY <1>1, <1>2 DEF Files
  <2>2. undone \in [DOMAIN undone -> Nat] /\ i \in DOMAIN undone
    BY <1>4
  <2>3. /\ undone' \in [DOMAIN undone -> Nat] /\ undone'[i] = undone[i] + u
        /\ \A k \in DOMAIN undone : k # i => undone'[k] = undone[k]
    BY <2>1, <2>2
  <2> QED
    BY <1>4, <2>3, OnlyExcept
<1>6. Only(why, why', i, Reasons)
  BY <1>4, OnlySame
<1>7. Edited(s, g)
  BY <1>2, <1>3, <1>4, <1>5, <1>6 DEF Edited
<1> QED
  BY <1>3, <1>7 DEF f
-----------------------------------------------------------------------------
(* The actions that post.                                                  *)

\* Posted, and the copy complete.
LEMMA FinishKept ==
  ASSUME IInv, NEW s \in Senders, Active(s), Posted(s, Form(at[s])), Finishes(s),
         at[s].pc \in {"segment", "forward", "post", "chunk"},
         \A p : IsPost(p, at[s]) => at[s].piece = Total(JobOf(s), p),
         UNCHANGED <<job, undone, why, asked, late, shared>>
  PROVE  StepKept(s)
<1> DEFINE i == at[s].id
           f == File(i)
<1>1. /\ f \in Files /\ at[s] \in States /\ Good(at[s], f, cap) /\ Closed(f) /\ i \in 1 .. Len(job)
      /\ f.posts = posts[i] /\ f.job = job[i] /\ f.undone = undone[i] /\ f.job = JobOf(s)
  BY Holding DEF File
<1> HIDE DEF f
<1>2. PICK p : /\ IsPost(p, at[s]) /\ Only(posts, posts', i, Seq(Posts)) /\ posts'[i] \in Seq(Posts)
               /\ After(at[s], f.job, p, f.posts, posts'[i])
  BY <1>1, PostedIs
<1>4. PICK g \in Files :
           /\ Edited(s, g) /\ g.posts = posts'[i] /\ g.undone = f.undone + 0
           /\ g.job = f.job /\ g.result = "none" /\ g.why = f.why
           /\ g.asked = f.asked /\ g.late = f.late
  BY <1>2, PostedEdited DEF f, shared
<1>5. WholeCopy(f.job, g.posts)
  BY <1>1, <1>2, <1>4, CopyIsWhole
<1>6. PICK h \in Files : h = [g EXCEPT !.result = "sent"]
  BY DEF Files, Verdicts
<1>7. Closed(h)
  <2>1. /\ h.job = f.job /\ h.posts = g.posts /\ h.undone = g.undone /\ h.why = f.why
        /\ h.asked = f.asked /\ h.late = f.late
    BY <1>4, <1>6 DEF Files
  <2>2. h.undone >= f.undone
    BY <1>1, <1>4, <2>1 DEF Files
  <2> QED
    BY <1>1, <1>2, <1>4, <1>5, <2>1, <2>2, PostCloses
<1>8. TempDirHasCause'
  <2>1. at \in [Senders -> States]
    BY DEF IInv, TypeOK
  <2> QED
    BY <2>1, DirRemoved DEF Finishes, Ends, Goto
<1> QED
  BY <1>4, <1>6, <1>7, <1>8, EndKept DEF Finishes, Verdicts

\* Posted, and the next piece of the text or the content.
LEMMA ProceedKept ==
  ASSUME IInv, NEW s \in Senders, Active(s), Posted(s, Form(at[s])),
         at[s].pc \in {"segment", "chunk"},
         NEW b \in States, b = [at[s] EXCEPT !.piece = @ + 1] \/ b = [at[s] EXCEPT !.piece = @ + 1, !.calls = 0],
         Goto(s, b), Placed(b, JobOf(s)),
         UNCHANGED <<job, undone, why, asked, late, result, tmp, stale, shared>>
  PROVE  StepKept(s)
<1> DEFINE i == at[s].id
           f == File(i)
<1>1. /\ f \in Files /\ at[s] \in States /\ Good(at[s], f, cap) /\ Closed(f) /\ i \in 1 .. Len(job)
      /\ f.posts = posts[i] /\ f.job = job[i] /\ f.undone = undone[i] /\ f.job = JobOf(s)
  BY Holding DEF File
<1> HIDE DEF f
<1>2. PICK p : /\ IsPost(p, at[s]) /\ Only(posts, posts', i, Seq(Posts)) /\ posts'[i] \in Seq(Posts)
               /\ After(at[s], f.job, p, f.posts, posts'[i])
  BY <1>1, PostedIs
<1>4. PICK g \in Files :
           /\ Edited(s, g) /\ g.posts = posts'[i] /\ g.undone = f.undone + 0
           /\ g.job = f.job /\ g.result = "none" /\ g.why = f.why
           /\ g.asked = f.asked /\ g.late = f.late
  BY <1>2, PostedEdited DEF f, shared
<1>5. g.undone = f.undone
  BY <1>1, <1>4 DEF Files
<1>6. /\ b.pc = at[s].pc /\ b.tries = at[s].tries /\ b.body = at[s].body /\ b.id = at[s].id
      /\ b.footers = at[s].footers /\ b.piece = at[s].piece + 1
  BY <1>1 DEF States
<1>7. Good(b, g, cap)
  BY <1>1, <1>2, <1>4, <1>5, <1>6, GoesOn
<1>8. Closed(g)
  <2>1. g.undone >= f.undone /\ g.result # "sent"
    BY <1>1, <1>4, <1>5 DEF Files
  <2> QED
    BY <1>1, <1>2, <1>4, <2>1, PostCloses
<1>9. TempDirHasCause'
  <2>1. at \in [Senders -> States]
    BY DEF IInv, TypeOK
  <2>2. \A t \in Senders \ {s} : at'[t] = at[t]
    BY <2>1 DEF Goto
  <2>3. at[s].pc \notin Filing
    BY DEF Filing
  <2> QED
    BY <2>2, <2>3, DirKept
<1> QED
  BY <1>4, <1>6, <1>7, <1>8, <1>9, StayKept

\* Posted, but the answer was lost: one failed call to answer for.
LEMMA LostAnswer ==
  ASSUME IInv, NEW s \in Senders, Active(s), Posted(s, Form(at[s])), Leaves(s, TRUE),
         at[s].pc \in {"segment", "forward", "post", "chunk"},
         UNCHANGED <<job, why, asked, late, shared>>
  PROVE  \E p : \E g \in Files :
           /\ IsPost(p, at[s])
           /\ After(at[s], File(at[s].id).job, p, File(at[s].id).posts, g.posts)
           /\ Edited(s, g) /\ g.undone = File(at[s].id).undone + 1 /\ g.result = "none"
           /\ g.job = File(at[s].id).job /\ g.asked = File(at[s].id).asked
           /\ Closed(g) /\ Cardinality(Firsts(g.posts)) <= g.undone
           /\ \A k \in DOMAIN g.posts : g.posts[k].try <= at[s].tries
<1> DEFINE i == at[s].id
           f == File(i)
<1>1. /\ f \in Files /\ at[s] \in States /\ Good(at[s], f, cap) /\ Closed(f) /\ i \in 1 .. Len(job)
      /\ f.posts = posts[i] /\ f.job = job[i] /\ f.undone = undone[i]
  BY Holding DEF File
<1> HIDE DEF f
<1>2. PICK p : /\ IsPost(p, at[s]) /\ Only(posts, posts', i, Seq(Posts)) /\ posts'[i] \in Seq(Posts)
               /\ After(at[s], f.job, p, f.posts, posts'[i])
  BY <1>1, PostedIs
<1>3. undone' = IF 1 = 0 THEN undone ELSE [undone EXCEPT ![i] = @ + 1]
  BY DEF Leaves
<1>4. PICK g \in Files :
           /\ Edited(s, g) /\ g.posts = posts'[i] /\ g.undone = f.undone + 1
           /\ g.job = f.job /\ g.result = "none" /\ g.why = f.why
           /\ g.asked = f.asked /\ g.late = f.late
  <2>1. 1 \in {0, 1}
    OBVIOUS
  <2> QED
    BY <1>2, <1>3, <2>1, PostedEdited DEF f, shared
<1>5. Closed(g)
  <2>1. g.undone >= f.undone /\ g.result # "sent"
    BY <1>1, <1>4 DEF Files
  <2> QED
    BY <1>1, <1>2, <1>4, <2>1, PostCloses
<1>6. Cardinality(Firsts(g.posts)) <= g.undone
  <2>1. Cardinality(Firsts(g.posts)) = Cardinality(Firsts(f.posts)) + (IF at[s].piece = 1 THEN 1 ELSE 0)
    BY <1>2, <1>4 DEF After
  <2>2. Cardinality(Firsts(f.posts)) <= f.undone + (IF Begun(at[s]) THEN 1 ELSE 0)
    BY <1>1 DEF Good, Counted
  <2>3. Cardinality(Firsts(f.posts)) \in Nat /\ f.undone \in Nat
    BY <1>1, FirstsFinite DEF Files
  <2>4. at[s].piece = 1 => ~ Begun(at[s])
    BY DEF Begun
  <2> QED
    BY <1>4, <2>1, <2>2, <2>3, <2>4
<1>7. \A k \in DOMAIN g.posts : g.posts[k].try <= at[s].tries
  BY <1>2, <1>4 DEF After
<1> QED
  BY <1>2, <1>4, <1>5, <1>6, <1>7 DEF f

\* An MTProto call that posts: SendText's segment, ForwardMessages, SendFiles.
LEMMA MTProtoKept ==
  ASSUME IInv, NEW s \in Senders, Active(s), at[s].pc \in {"segment", "forward", "post"},
         NEW last \in BOOLEAN, MTProto(s, last),
         last = (at[s].pc = "segment" => at[s].piece = Pieces(s))
  PROVE  StepKept(s)
<1>1. /\ at[s] \in States /\ Placed(at[s], JobOf(s)) /\ Form(at[s]) = "plain"
  BY Holding DEF Good, Form
<1>2. CASE Posted(s, "plain") /\ last /\ Finishes(s) /\ UNCHANGED <<job, undone, why, asked, late, shared>>
  <2>1. ASSUME NEW p, IsPost(p, at[s]) PROVE at[s].piece = Total(JobOf(s), p)
    <3>1. p.form = "plain" /\ p.body = at[s].body
      BY <1>1, <2>1 DEF IsPost
    <3>2. CASE at[s].pc = "segment"
      BY <1>1, <1>2, <3>1, <3>2 DEF Total, Pieces, Placed
    <3>3. CASE at[s].pc \in {"forward", "post"}
      BY <1>1, <3>1, <3>3 DEF Total, Placed, Filing
    <3> QED
      BY <3>2, <3>3
  <2> QED
    BY <1>1, <1>2, <2>1, FinishKept
<1>3. CASE Posted(s, "plain") /\ ~ last /\ Proceeds(s) /\ UNCHANGED <<job, undone, why, asked, late, shared>>
  <2>1. at[s].pc = "segment" /\ at[s].piece # Pieces(s)
    BY <1>3
  <2>2. at[s].piece \in Nat /\ Pieces(s) \in Nat
    BY <1>1, Constants DEF States, Pieces
  <2>3. PICK b \in States : b = [at[s] EXCEPT !.piece = @ + 1]
    <3>1. at[s].piece + 1 \in Nat
      BY <2>2
    <3> QED
      BY <1>1, <3>1, StateEdits
  <2>4. b.pc = "segment" /\ b.piece = at[s].piece + 1 /\ b.body = at[s].body /\ b.footers = at[s].footers
    BY <1>1, <2>1, <2>3 DEF States
  <2>5. Placed(b, JobOf(s))
    BY <1>1, <2>1, <2>2, <2>4 DEF Placed, Pieces, Filing
  <2> QED
    BY <1>1, <1>3, <2>1, <2>3, <2>5, ProceedKept DEF Proceeds
<1>4. CASE Posted(s, "plain") /\ Leaves(s, TRUE) /\ Fails(s, "transient") /\ UNCHANGED <<job, why, asked, late, shared>>
  BY <1>1, <1>4, LostAnswer, FailsKept
<1>5. CASE FailsQuietly(s, "transient", "none")
  BY <1>5, FailsQuietlyKept DEF Reasons
<1>6. CASE FailsQuietly(s, "permanent", IF at[s].raw THEN "unregistered" ELSE "refused")
  BY <1>6, FailsQuietlyKept DEF Reasons
<1> QED
  BY <1>2, <1>3, <1>4, <1>5, <1>6 DEF MTProto
-----------------------------------------------------------------------------
(* The other actions of a goroutine.                                       *)

\* A job that ends with nothing new in the channel and no error to classify.
LEMMA QuietEndKept ==
  ASSUME IInv, NEW s \in Senders, Active(s), NEW r \in Verdicts \ {"none", "sent"}, Ends(s, r),
         UNCHANGED <<job, posts, undone, why, tmp, asked, late, stale>>,
         UNCHANGED <<load, limit, cap, cancelled, ends, disabled>>,
         at[s].pc \notin Filing
  PROVE  StepKept(s)
<1> DEFINE f == File(at[s].id)
           g == [f EXCEPT !.result = "none"]
<1>1. f \in Files /\ Closed(f) /\ f.result = "none" /\ disabled \in BOOLEAN
  BY Holding DEF IInv, TypeOK
<1>2. g \in Files /\ Edited(s, g)
  BY <1>1, Untouched DEF Verdicts
<1>3. g = f
  BY <1>1 DEF Files
<1>4. [f EXCEPT !.result = r] \in Files
  BY <1>1 DEF Files
<1>5. Closed([f EXCEPT !.result = r])
  BY <1>1, <1>4, QuietCloses DEF Files
<1>6. TempDirHasCause'
  <2>1. at \in [Senders -> States]
    BY DEF IInv, TypeOK
  <2>2. \A t \in Senders \ {s} : at'[t] = at[t]
    BY <2>1 DEF Ends, Goto
  <2> QED
    BY <2>2, DirKept
<1> QED
  BY <1>1, <1>2, <1>3, <1>5, <1>6, EndKept

\* A move within an attempt that has posted nothing.
LEMMA QuietMoveKept ==
  ASSUME IInv, NEW s \in Senders, Active(s), at[s].pc \notin {"segment", "chunk", "backoff"},
         NEW b \in States, Goto(s, b), Keeps, b.id = at[s].id, b.tries = at[s].tries,
         b.pc \notin {"idle", "starting"}, Form(b) = Form(at[s]),
         Placed(b, JobOf(s)), Insists(b, File(at[s].id)), Within(b, File(at[s].id), cap),
         b.pc \in {"segment", "chunk"} => b.piece = 1,
         b.pc \in {"delay", "rewrite"} => at[s].pc \in {"delay", "rewrite"},
         b.pc \in {"route", "chunk"} => at[s].pc = "route",
         at[s].pc \in Filing => b.pc \in Filing
  PROVE  StepKept(s)
<1> DEFINE f == File(at[s].id)
<1>1. /\ f \in Files /\ at[s] \in States /\ Good(at[s], f, cap) /\ f.job = JobOf(s)
  BY Holding
<1>2. /\ Cardinality(Firsts(f.posts)) <= f.undone
      /\ \A k \in DOMAIN f.posts : f.posts[k].try <= at[s].tries
      /\ Mine(at[s], f.posts) = {}
  BY <1>1, Unbegun
<1>3. /\ b.pc \in {"delay", "rewrite"} => f.posts = <<>>
      /\ b.pc \in {"route", "chunk"} => \A k \in DOMAIN f.posts : f.posts[k].form = "rich"
  BY <1>1 DEF Good, Told
<1>4. Mine(b, f.posts) = {}
  BY <1>2 DEF Mine
<1>5. Good(b, f, cap)
  BY <1>1, <1>2, <1>3, <1>4, Starts
<1> QED
  BY <1>5, MoveKept

LEMMA DelayKept ==
  ASSUME IInv, NEW s \in Senders, Delay(s)
  PROVE  Active(s) /\ StepKept(s)
<1>1. Active(s) /\ at[s].pc = "delay"
  BY DEF Delay, Active
<1>2. /\ at[s] \in States /\ Placed(at[s], JobOf(s))
  BY <1>1, Holding DEF Good
<1>3. CASE Drop(s)
  BY <1>1, <1>3, QuietEndKept DEF Drop, Verdicts, Filing, shared
<1>4. CASE Goto(s, [at[s] EXCEPT !.pc = IF Wanted(JobOf(s)) THEN "rewrite" ELSE "attempt"]) /\ Keeps
  <2>1. PICK b \in States : b = [at[s] EXCEPT !.pc = IF Wanted(JobOf(s)) THEN "rewrite" ELSE "attempt"]
    BY <1>2, StateEdits DEF Pcs
  <2>2. b.pc \in {"rewrite", "attempt"} /\ b.id = at[s].id /\ b.tries = at[s].tries
    BY <1>2, <2>1 DEF States
  <2>3. Placed(b, JobOf(s)) /\ Insists(b, File(at[s].id)) /\ Within(b, File(at[s].id), cap)
    BY <1>1, <1>2, <2>2, Holding DEF Placed, Insists, Within, Filing
  <2> QED
    BY <1>1, <1>4, <2>1, <2>2, <2>3, QuietMoveKept DEF Form, Filing
<1> QED
  BY <1>1, <1>3, <1>4 DEF Delay

LEMMA RewriteKept ==
  ASSUME IInv, NEW s \in Senders, RewriteAgain(s) \/ RewriteEnds(s)
  PROVE  Active(s) /\ StepKept(s)
<1>1. Active(s) /\ at[s].pc = "rewrite"
  BY DEF RewriteAgain, RewriteEnds, Active
<1>2. /\ at[s] \in States /\ Placed(at[s], JobOf(s))
  BY <1>1, Holding DEF Good
<1>3. PICK b \in States : /\ Goto(s, b) /\ Keeps /\ b.pc \in {"rewrite", "attempt"}
                          /\ b.id = at[s].id /\ b.tries = at[s].tries
  <2>1. CASE RewriteAgain(s)
    <3>1. at[s].calls + 1 \in Nat
      BY <1>2 DEF States
    <3>2. PICK b \in States : b = [at[s] EXCEPT !.calls = @ + 1]
      BY <1>2, <3>1, StateEdits
    <3>3. b.pc = "rewrite" /\ b.id = at[s].id /\ b.tries = at[s].tries
      BY <1>1, <1>2, <3>2 DEF States
    <3> QED
      BY <2>1, <3>2, <3>3 DEF RewriteAgain
  <2>2. CASE RewriteEnds(s)
    <3>1. PICK body \in Bodies :
            Goto(s, [at[s] EXCEPT !.pc = "attempt", !.calls = 0, !.body = body])
      BY <2>2 DEF RewriteEnds, Bodies
    <3>2. PICK b \in States : b = [at[s] EXCEPT !.pc = "attempt", !.calls = 0, !.body = body]
      BY <1>2, StateEdits DEF Pcs
    <3>3. b.pc = "attempt" /\ b.id = at[s].id /\ b.tries = at[s].tries
      BY <1>2, <3>2 DEF States
    <3> QED
      BY <2>2, <3>1, <3>2, <3>3 DEF RewriteEnds
  <2> QED
    BY <2>1, <2>2
<1>4. Placed(b, JobOf(s)) /\ Insists(b, File(at[s].id)) /\ Within(b, File(at[s].id), cap)
  BY <1>1, <1>2, <1>3, Holding DEF Placed, Insists, Within, Filing
<1> QED
  BY <1>1, <1>3, <1>4, QuietMoveKept DEF Form, Filing

LEMMA BackoffKept ==
  ASSUME IInv, NEW s \in Senders, Backoff(s)
  PROVE  Active(s) /\ StepKept(s)
<1> DEFINE f == File(at[s].id)
<1>1. Active(s) /\ at[s].pc = "backoff"
  BY DEF Backoff, Active
<1>2. /\ at[s] \in States /\ f \in Files /\ Good(at[s], f, cap) /\ Placed(at[s], f.job)
  BY <1>1, Holding DEF Good
<1>3. CASE Drop(s)
  BY <1>1, <1>3, QuietEndKept DEF Drop, Verdicts, Filing, shared
<1>4. CASE Goto(s, [at[s] EXCEPT !.pc = "attempt", !.tries = @ + 1, !.piece = 0]) /\ Keeps
  <2>0. at[s].tries \in Nat /\ at[s].tries + 1 \in Nat
    BY <1>2 DEF States
  <2>1. PICK b \in States : b = [at[s] EXCEPT !.pc = "attempt", !.tries = @ + 1, !.piece = 0]
    BY <1>2, <2>0, StateEdits DEF Pcs
  <2>2. b.pc = "attempt" /\ b.id = at[s].id /\ b.tries = at[s].tries + 1
    BY <1>2, <2>1 DEF States
  <2>3. Placed(b, f.job) /\ Insists(b, f) /\ Within(b, f, cap)
    BY <1>1, <1>2, <2>2 DEF Placed, Insists, Within, Filing
  <2>4. /\ Cardinality(Firsts(f.posts)) <= f.undone
        /\ \A k \in DOMAIN f.posts : f.posts[k].try <= at[s].tries
    BY <1>1, <1>2, Unbegun
  <2>5. \A k \in DOMAIN f.posts : f.posts[k].try \in Nat
    <3>1. f.posts \in Seq(Posts)
      BY <1>2 DEF Files
    <3> HIDE DEF f
    <3>2. \A k \in DOMAIN f.posts : f.posts[k] \in Posts
      BY <3>1
    <3> QED
      BY <3>2 DEF Posts
  <2>6. \A k \in DOMAIN f.posts : f.posts[k].try <= b.tries /\ f.posts[k].try # b.tries
    BY <2>0, <2>2, <2>4, <2>5
  <2>7. Mine(b, f.posts) = {}
    BY <2>6 DEF Mine, Own
  <2>8. Good(b, f, cap)
    BY <1>2, <2>2, <2>3, <2>4, <2>6, <2>7, Starts
  <2> QED
    BY <1>1, <1>4, <2>1, <2>2, <2>8, MoveKept DEF Filing
<1> QED
  BY <1>1, <1>3, <1>4 DEF Backoff

LEMMA SendsKept ==
  ASSUME IInv, NEW s \in Senders, SendSegment(s) \/ ForwardMessages(s) \/ PostFiles(s)
  PROVE  Active(s) /\ StepKept(s)
<1>1. Active(s) /\ at[s].pc \in {"segment", "forward", "post"}
  BY DEF SendSegment, ForwardMessages, PostFiles, Active
<1>2. CASE SendSegment(s)
  <2>1. at[s].pc = "segment" /\ MTProto(s, at[s].piece = Pieces(s))
    BY <1>2 DEF SendSegment
  <2> QED
    BY <1>1, <2>1, MTProtoKept
<1>3. CASE ForwardMessages(s) \/ PostFiles(s)
  <2>1. at[s].pc # "segment" /\ MTProto(s, TRUE)
    BY <1>3 DEF ForwardMessages, PostFiles
  <2> QED
    BY <1>1, <2>1, MTProtoKept
<1> QED
  BY <1>1, <1>2, <1>3

LEMMA UploadKept ==
  ASSUME IInv, NEW s \in Senders, Upload(s) \/ RegisteredMedias(s)
  PROVE  Active(s) /\ StepKept(s)
<1> DEFINE f == File(at[s].id)
<1>1. Active(s) /\ at[s].pc \in {"upload", "register"}
  BY DEF Upload, RegisteredMedias, Active
<1>2. /\ at[s] \in States /\ f \in Files /\ Good(at[s], f, cap) /\ Placed(at[s], JobOf(s)) /\ f.job = JobOf(s)
  BY <1>1, Holding DEF Good
<1>3. CASE FailsQuietly(s, "transient", "none")
  BY <1>1, <1>3, FailsQuietlyKept DEF Reasons
<1>4. CASE \E b : /\ Goto(s, b) /\ Keeps
                  /\ \/ \E pc \in {"post", "register"} : b = [at[s] EXCEPT !.pc = pc]
                     \/ \E v \in BOOLEAN : b = [at[s] EXCEPT !.pc = "post", !.raw = v]
  <2>1. PICK b : /\ Goto(s, b) /\ Keeps
                 /\ \/ \E pc \in {"post", "register"} : b = [at[s] EXCEPT !.pc = pc]
                    \/ \E v \in BOOLEAN : b = [at[s] EXCEPT !.pc = "post", !.raw = v]
    BY <1>4
  <2>2. b \in States
    BY <1>2, <2>1, StateEdits DEF Pcs
  <2>3. /\ b.pc \in {"post", "register"} /\ b.id = at[s].id /\ b.tries = at[s].tries
        /\ b.piece = at[s].piece /\ b.footers = at[s].footers /\ b.limit = at[s].limit
    BY <1>2, <2>1 DEF States
  <2>4. Placed(b, JobOf(s))
    BY <1>1, <1>2, <2>3 DEF Placed, Filing
  <2>5. Insists(b, f)
    BY <1>1, <1>2 DEF Insists, Placed, Filing
  <2>6. Within(b, f, cap)
    <3>1. /\ at[s].limit = b.limit
          /\ at[s].pc \in Filing /\ at[s].pc # "download" /\ b.pc # "download"
      BY <1>1, <2>3 DEF Filing
    <3> QED
      BY <1>2, <3>1 DEF Good, Within
  <2> QED
    BY <1>1, <2>1, <2>2, <2>3, <2>4, <2>5, <2>6, QuietMoveKept DEF Form, Filing
<1> QED
  BY <1>1, <1>3, <1>4 DEF Upload, RegisteredMedias

LEMMA AttemptKept ==
  ASSUME IInv, NEW s \in Senders, Attempt(s)
  PROVE  Active(s) /\ StepKept(s)
<1> DEFINE f == File(at[s].id)
           j == JobOf(s)
           r == [at[s] EXCEPT !.piece = 1, !.footers = Footed(s), !.limit = limit,
                              !.refetched = FALSE, !.raw = FALSE]
<1>1. Active(s) /\ at[s].pc = "attempt" /\ at[s].pc \notin Filing
  BY DEF Attempt, Active, Filing
<1>2. /\ at[s] \in States /\ f \in Files /\ Good(at[s], f, cap) /\ Placed(at[s], j) /\ f.job = j
      /\ j.kind # "rich" /\ (j.kind = "rich") = (s \in Callers) /\ (s # Engine => s \in Callers)
      /\ limit \in Nat /\ j \in Tasks /\ Closed(f) /\ f.result = "none"
  BY <1>1, Holding DEF Good, Placed, Files
<1>3. Footed(s) = FootersDue(j) /\ Footed(s) \in Nat
  BY DEF Footed, FootersDue
<1>4. s = Engine
  BY <1>2
<1>5. ASSUME NEW pc \in {"segment", "forward", "download"}
      PROVE  \E b \in States :
               /\ b = [r EXCEPT !.pc = pc] /\ b.pc = pc /\ b.id = at[s].id /\ b.tries = at[s].tries
               /\ b.piece = 1 /\ b.footers = FootersDue(j) /\ b.limit = limit /\ b.body \in Bodies
  <2>1. PICK n \in Nat : n = Footed(s) /\ n = FootersDue(j)
    BY <1>3
  <2>2. PICK b : b = [r EXCEPT !.pc = pc]
    OBVIOUS
  <2>3. b = [[at[s] EXCEPT !.piece = 1, !.footers = n, !.limit = limit,
                           !.refetched = FALSE, !.raw = FALSE] EXCEPT !.pc = pc]
    BY <2>1, <2>2
  <2>4. at[s] \in States /\ limit \in Nat
    BY <1>2
  <2> HIDE DEF r, j, f
  <2>5. /\ b \in States /\ b.pc = pc /\ b.id = at[s].id /\ b.tries = at[s].tries
        /\ b.piece = 1 /\ b.footers = n /\ b.limit = limit /\ b.body \in Bodies
    BY <2>3, <2>4 DEF States, Pcs
  <2> QED
    BY <2>1, <2>2, <2>5
<1> HIDE DEF f, j, r
<1>6. ASSUME NEW pc \in {"segment", "forward"}, j.kind = (IF pc = "segment" THEN "text" ELSE "forward"),
             Goto(s, [r EXCEPT !.pc = pc]), Keeps
      PROVE  StepKept(s)
  <2>1. PICK b \in States :
               /\ b = [r EXCEPT !.pc = pc] /\ b.pc = pc /\ b.id = at[s].id /\ b.tries = at[s].tries
               /\ b.piece = 1 /\ b.footers = FootersDue(j) /\ b.limit = limit /\ b.body \in Bodies
    BY <1>5
  <2>2. Segments[b.body] \in Nat \ {0}
    BY <2>1, Constants
  <2>3. 1 \in 1 .. Segments[b.body]
    BY <2>2
  <2>4. Placed(b, j)
    BY <1>6, <2>1, <2>3 DEF Placed, Filing
  <2>5. Insists(b, f) /\ Within(b, f, cap)
    BY <1>2, <2>1 DEF Insists, Within, Filing
  <2> QED
    BY <1>1, <1>6, <2>1, <2>4, <2>5, QuietMoveKept DEF Form, Filing, f, j
<1>7. ASSUME NEW class \in {"transient", "permanent"}, NEW reason \in {"none", "too large"},
             FailsQuietly(s, class, reason)
      PROVE  StepKept(s)
  BY <1>1, <1>7, FailsQuietlyKept DEF Reasons
<1>8. CASE /\ j.kind = "files" /\ Goto(s, [r EXCEPT !.pc = "download"]) /\ tmp' = tmp \cup {Dir(s)}
           /\ late' = IF limit = cap THEN late ELSE late \cup {at[s].id}
           /\ UNCHANGED <<job, result, posts, undone, why, asked, stale, shared>>
  <2>1. PICK b \in States :
               /\ b = [r EXCEPT !.pc = "download"] /\ b.pc = "download" /\ b.id = at[s].id
               /\ b.tries = at[s].tries /\ b.piece = 1 /\ b.footers = FootersDue(j)
               /\ b.limit = limit /\ b.body \in Bodies
    BY <1>5
  <2>2. PICK g \in Files : g = [f EXCEPT !.late = f.late \/ limit # cap]
    BY <1>2 DEF Files
  <2>3. /\ g.job = f.job /\ g.result = "none" /\ g.posts = f.posts /\ g.undone = f.undone
        /\ g.why = f.why /\ g.asked = f.asked /\ g.late = (f.late \/ limit # cap)
    BY <1>2, <2>2 DEF Files
  <2>4. /\ f.job = job[at[s].id] /\ f.posts = posts[at[s].id] /\ f.undone = undone[at[s].id]
        /\ f.why = why[at[s].id] /\ f.asked = (at[s].id \in asked) /\ f.late = (at[s].id \in late)
    BY DEF f, File
  <2>5. Edited(s, g)
    <3>1. /\ Only(posts, posts, at[s].id, Seq(Posts)) /\ Only(undone, undone, at[s].id, Nat)
          /\ Only(why, why, at[s].id, Reasons) /\ disabled \in BOOLEAN
      BY OnlySame DEF IInv, TypeOK
    <3>2. asked' = asked \cup (IF g.asked THEN {at[s].id} ELSE {}) /\ (at[s].id \in asked => g.asked)
      BY <1>8, <2>3, <2>4
    <3>3. late' = late \cup (IF g.late THEN {at[s].id} ELSE {}) /\ (at[s].id \in late => g.late)
      BY <1>8, <2>3, <2>4
    <3>4. UNCHANGED <<job, load, limit, cap, cancelled, ends, disabled, posts, undone, why>>
      BY <1>8 DEF shared
    <3> QED
      BY <2>3, <2>4, <3>1, <3>2, <3>3, <3>4 DEF Edited
  <2>6. Closed(g)
    <3>1. g.undone >= f.undone
      BY <1>2, <2>3 DEF Files
    <3> QED
      BY <1>2, <2>3, <3>1, QuietCloses DEF Files
  <2>7. Placed(b, g.job)
    <3>1. j.media # <<>> /\ j.media \in Seq([declared : Nat, real : Nat])
      BY <1>2, <1>8 DEF Tasks, JobSet
    <3>2. 1 \in 1 .. Len(j.media)
      BY <3>1
    <3> QED
      BY <1>2, <1>8, <2>1, <2>3, <3>2 DEF Placed, Filing
  <2>8. Within(b, g, cap)
    <3>1. ~ g.late => b.limit = cap
      BY <2>1, <2>3
    <3>2. \A n \in 1 .. Len(g.job.media) : ~ n < b.piece
      BY <2>1
    <3> QED
      BY <2>1, <3>1, <3>2 DEF Within
  <2>9. Good(b, g, cap)
    <3>1. /\ Cardinality(Firsts(f.posts)) <= f.undone
          /\ \A k \in DOMAIN f.posts : f.posts[k].try <= at[s].tries
          /\ Mine(at[s], f.posts) = {}
      BY <1>1, <1>2, Unbegun
    <3>2. Mine(b, g.posts) = {}
      BY <1>1, <2>1, <2>3, <3>1 DEF Mine, Form
    <3>3. Insists(b, g)
      BY <1>2, <2>3 DEF Insists
    <3> QED
      BY <2>1, <2>3, <2>7, <2>8, <3>1, <3>2, <3>3, Starts
  <2>10. TempDirHasCause'
    <3>1. at' = [at EXCEPT ![s] = b] /\ at \in [Senders -> States]
      BY <1>8, <2>1 DEF Goto, IInv, TypeOK
    <3>2. at'[Engine] = b
      BY <1>4, <3>1
    <3>3. \A d : d \notin tmp \ stale
      BY <1>1, <1>4 DEF IInv, TempDirHasCause, Filing
    <3>4. \A d \in tmp' \ stale' : d = Dir(s)
      BY <1>8, <3>3
    <3>5. Dir(Engine)' = Dir(s)
      BY <1>4, <2>1, <3>2 DEF Dir
    <3> QED
      BY <2>1, <3>2, <3>4, <3>5 DEF TempDirHasCause
  <2> QED
    BY <1>1, <1>8, <2>1, <2>3, <2>5, <2>6, <2>9, <2>10, StayKept
<1>9. \/ /\ j.kind \in {"text", "forward"}
         /\ \/ Goto(s, [r EXCEPT !.pc = IF j.kind = "text" THEN "segment" ELSE "forward"]) /\ Keeps
            \/ FailsQuietly(s, "transient", "none")
      \/ FailsQuietly(s, "permanent", "too large")
      \/ /\ j.kind = "files" /\ Goto(s, [r EXCEPT !.pc = "download"]) /\ tmp' = tmp \cup {Dir(s)}
         /\ late' = IF limit = cap THEN late ELSE late \cup {at[s].id}
         /\ UNCHANGED <<job, result, posts, undone, why, asked, stale, shared>>
      \/ FailsQuietly(s, "transient", "none")
  BY DEF Attempt, j, r
<1>10. CASE Keeps /\ j.kind = "text" /\ Goto(s, [r EXCEPT !.pc = "segment"])
  BY <1>1, <1>6, <1>10
<1>11. CASE Keeps /\ j.kind = "forward" /\ Goto(s, [r EXCEPT !.pc = "forward"])
  BY <1>1, <1>6, <1>11
<1> QED
  BY <1>1, <1>7, <1>8, <1>9, <1>10, <1>11

LEMMA DownloadKept ==
  ASSUME IInv, NEW s \in Senders, Download(s)
  PROVE  Active(s) /\ StepKept(s)
<1> DEFINE f == File(at[s].id)
           j == JobOf(s)
           size == j.media[at[s].piece].real
<1>1. Active(s) /\ at[s].pc = "download" /\ at[s].pc \in Filing
  BY DEF Download, Active, Filing
<1>2. /\ at[s] \in States /\ f \in Files /\ Good(at[s], f, cap) /\ Placed(at[s], j) /\ f.job = j
      /\ cap \in Nat /\ f.late = (at[s].id \in late)
  BY <1>1, Holding DEF Good, File
<1>3. /\ j.kind = "files" /\ at[s].piece \in 1 .. Len(j.media) /\ at[s].footers = FootersDue(j)
      /\ at[s].piece \in Nat
  BY <1>1, <1>2 DEF Placed, Filing, States
<1>4. j.media \in Seq(Medias)
  BY <1>2 DEF Files, Tasks, JobSet, Medias
<1> HIDE DEF f, j
<1>5. size \in Nat /\ Len(j.media) \in Nat
  <2>1. j.media[at[s].piece] \in Medias /\ Len(j.media) \in Nat
    BY <1>3, <1>4
  <2> QED
    BY <2>1 DEF Medias
<1>6. ~ f.late => /\ at[s].limit = cap
                  /\ \A n \in 1 .. Len(j.media) : n < at[s].piece => Fits(j.media[n].real, cap)
  BY <1>1, <1>2 DEF Good, Within
<1>7. ASSUME NEW b \in States, Goto(s, b), Keeps, b.pc \in {"download", "upload"}, b.id = at[s].id,
             b.tries = at[s].tries, b.limit = at[s].limit, b.footers = at[s].footers,
             \/ b.pc = "upload" /\ b.piece = 1 /\ at[s].piece = Len(j.media) /\ Fits(size, cap)
             \/ b.pc = "download" /\ b.piece = at[s].piece
             \/ /\ b.pc = "download" /\ b.piece = at[s].piece + 1 /\ at[s].piece # Len(j.media)
                /\ Fits(size, cap)
      PROVE  StepKept(s)
  <2>1. Placed(b, j)
    BY <1>3, <1>5, <1>7 DEF Placed, Filing
  <2>2. Insists(b, f)
    BY <1>2, <1>3 DEF Insists
  <2>3. Within(b, f, cap)
    <3> SUFFICES ASSUME ~ f.late, NEW n \in 1 .. Len(j.media), b.pc = "download" => n < b.piece
                 PROVE  b.limit = cap /\ Fits(j.media[n].real, cap)
      BY <1>2, <1>3, <1>4, <1>6, <1>7 DEF Within
    <3>1. n < at[s].piece \/ (n = at[s].piece /\ Fits(size, cap))
      BY <1>3, <1>5, <1>7
    <3> QED
      BY <1>6, <1>7, <3>1
  <2> QED
    BY <1>1, <1>7, <2>1, <2>2, <2>3, QuietMoveKept DEF Form, Filing, f, j
<1>8. CASE /\ Fits(size, cap) /\ Keeps
           /\ Goto(s, IF at[s].piece = Len(j.media)
                      THEN [at[s] EXCEPT !.pc = "upload", !.piece = 1]
                      ELSE [at[s] EXCEPT !.piece = @ + 1, !.refetched = FALSE])
  <2>1. CASE at[s].piece = Len(j.media)
    <3>1. PICK b \in States : b = [at[s] EXCEPT !.pc = "upload", !.piece = 1]
      BY <1>2, StateEdits DEF Pcs
    <3>2. /\ b.pc = "upload" /\ b.piece = 1 /\ b.id = at[s].id /\ b.tries = at[s].tries
          /\ b.limit = at[s].limit /\ b.footers = at[s].footers
      BY <1>2, <3>1 DEF States
    <3> QED
      BY <1>1, <1>7, <1>8, <2>1, <3>1, <3>2
  <2>2. CASE at[s].piece # Len(j.media)
    <3>0. at[s].piece + 1 \in Nat
      BY <1>3
    <3>1. PICK b \in States : b = [at[s] EXCEPT !.piece = @ + 1, !.refetched = FALSE]
      BY <1>2, <3>0, StateEdits
    <3>2. /\ b.pc = "download" /\ b.piece = at[s].piece + 1 /\ b.id = at[s].id
          /\ b.tries = at[s].tries /\ b.limit = at[s].limit /\ b.footers = at[s].footers
      BY <1>1, <1>2, <3>1 DEF States
    <3> QED
      BY <1>1, <1>7, <1>8, <2>2, <3>1, <3>2
  <2> QED
    BY <2>1, <2>2
<1>9. CASE Goto(s, [at[s] EXCEPT !.refetched = TRUE]) /\ Keeps
  <2>1. PICK b \in States : b = [at[s] EXCEPT !.refetched = TRUE]
    BY <1>2, StateEdits
  <2>2. /\ b.pc = "download" /\ b.piece = at[s].piece /\ b.id = at[s].id
        /\ b.tries = at[s].tries /\ b.limit = at[s].limit /\ b.footers = at[s].footers
    BY <1>1, <1>2, <2>1 DEF States
  <2> QED
    BY <1>1, <1>7, <1>9, <2>1, <2>2
<1>10. CASE ~ Fits(size, cap) /\ FailsQuietly(s, "permanent", IF size > at[s].limit THEN "too large" ELSE "capped")
  <2>1. f.late \/ size > at[s].limit
    <3>1. cap # 0 /\ ~ (size <= cap)
      BY <1>10 DEF Fits
    <3>2. cap \in Nat /\ size \in Nat
      BY <1>2, <1>5
    <3>3. size > cap
      BY <3>1, <3>2
    <3> QED
      BY <1>6, <3>3
  <2>2. PICK reason \in Reasons : reason = IF size > at[s].limit THEN "too large" ELSE "capped"
    BY DEF Reasons
  <2>3. reason = "capped" => at[s].id \in late
    BY <1>2, <2>1, <2>2
  <2> QED
    BY <1>1, <1>10, <2>2, <2>3, FailsQuietlyKept
<1>11. CASE FailsQuietly(s, "transient", "none") \/ FailsQuietly(s, "permanent", "refused")
  BY <1>1, <1>11, FailsQuietlyKept DEF Reasons
<1> QED
  BY <1>1, <1>8, <1>9, <1>10, <1>11 DEF Download, j
-----------------------------------------------------------------------------
(* The Rich channel.                                                       *)

\* The undone calls after Leaves.
LEMMA LeavesOnly ==
  ASSUME IInv, NEW s \in Senders, Active(s), NEW effect \in BOOLEAN, Leaves(s, effect)
  PROVE  /\ Only(undone, undone', at[s].id, Nat)
         /\ undone'[at[s].id] = undone[at[s].id] + (IF effect \/ InChannel(s) THEN 1 ELSE 0)
<1> DEFINE i == at[s].id
           u == undone[i] + (IF effect \/ InChannel(s) THEN 1 ELSE 0)
<1>1. i \in 1 .. Len(job)
  BY Holding
<1>2. undone \in Seq(Nat) /\ i \in 1 .. Len(undone)
  BY <1>1 DEF IInv, TypeOK
<1>3. undone \in [DOMAIN undone -> Nat] /\ i \in DOMAIN undone
  BY <1>2
<1>4. u \in Nat
  BY <1>3
<1>5. undone' = [undone EXCEPT ![i] = u]
  BY DEF Leaves
<1> HIDE DEF u
<1>6. /\ undone' \in [DOMAIN undone -> Nat] /\ undone'[i] = u
      /\ \A k \in DOMAIN undone : k # i => undone'[k] = undone[k]
  BY <1>3, <1>4, <1>5
<1>7. Only(undone, undone', i, Nat)
  BY <1>2, <1>6, OnlyExcept
<1> QED
  BY <1>6, <1>7 DEF u

\* The way to the MTProto fallback, for a content that does not insist or was refused.
LEMMA FallbackKept ==
  ASSUME IInv, NEW s \in Senders, Active(s), at[s].pc \in {"route", "chunk"},
         Goto(s, Fallback(s)), disabled' \in BOOLEAN,
         UNCHANGED <<job, result, posts, why, tmp, late, stale, load, limit, cap, cancelled, ends>>,
         asked' \in {asked, asked \cup {at[s].id}},
         at[s].id \in asked' \/ JobOf(s).style # "rich",
         Only(undone, undone', at[s].id, Nat), undone'[at[s].id] >= undone[at[s].id],
         Cardinality(Firsts(posts[at[s].id])) <= undone'[at[s].id]
  PROVE  StepKept(s)
<1> DEFINE i == at[s].id
           f == File(i)
<1>1. /\ at[s] \in States /\ f \in Files /\ Good(at[s], f, cap) /\ Closed(f) /\ f.result = "none"
      /\ i \in 1 .. Len(job) /\ f.job = JobOf(s) /\ f.job.kind = "rich"
  BY Holding DEF Good, Placed
<1>2. /\ f.job = job[i] /\ f.posts = posts[i] /\ f.undone = undone[i] /\ f.why = why[i]
      /\ f.asked = (i \in asked) /\ f.late = (i \in late)
  BY DEF File
<1> HIDE DEF f
<1>3. PICK u \in Nat : u = undone'[i]
  <2>1. i \in 1 .. Len(undone')
    BY <1>1 DEF Only, IInv, TypeOK
  <2> QED
    BY <2>1 DEF Only
<1>4. PICK g \in Files : g = [f EXCEPT !.undone = u, !.asked = IF i \in asked' THEN TRUE ELSE FALSE]
  BY <1>1, <1>3 DEF Files
<1>5. /\ g.job = f.job /\ g.result = "none" /\ g.posts = f.posts /\ g.undone = u
      /\ g.why = f.why /\ g.late = f.late
      /\ i \in asked' => g.asked = TRUE
      /\ i \notin asked' => g.asked = FALSE
  BY <1>1, <1>4 DEF Files
<1>6. Edited(s, g)
  <2>1. Only(posts, posts, i, Seq(Posts)) /\ Only(why, why, i, Reasons)
    BY OnlySame DEF IInv, TypeOK
  <2>2. late' = late \cup (IF g.late THEN {i} ELSE {}) /\ (i \in late => g.late)
    BY <1>2, <1>5
  <2>3. asked' = asked \cup (IF g.asked THEN {i} ELSE {}) /\ (i \in asked => g.asked)
    BY <1>5
  <2> QED
    BY <1>2, <1>3, <1>5, <2>1, <2>2, <2>3 DEF Edited
<1>7. Closed(g)
  <2>1. g.undone >= f.undone /\ (f.asked => g.asked) /\ g.result # "sent" /\ g.why \in Reasons
    BY <1>2, <1>3, <1>5 DEF Files
  <2> QED
    BY <1>1, <1>5, <2>1, QuietCloses
<1>8. PICK b \in States : b = Fallback(s)
  BY <1>1, StateEdits DEF Fallback, Pcs
<1>9. /\ b.pc = "fallback" /\ b.id = at[s].id /\ b.tries = at[s].tries
      /\ b.footers = at[s].footers
  BY <1>1, <1>8 DEF States, Fallback
<1>10. Good(b, g, cap)
  <2>1. /\ \A k \in DOMAIN f.posts : f.posts[k].form = "rich" /\ f.posts[k].try <= at[s].tries
    BY <1>1 DEF Good, Told
  <2>2. Mine(b, g.posts) = {}
    BY <1>5, <1>9, <2>1 DEF Mine, Own, Form
  <2>3. Placed(b, g.job)
    BY <1>1, <1>5, <1>9 DEF Good, Placed, Filing
  <2>4. Insists(b, g)
    BY <1>1, <1>5 DEF Insists
  <2>5. Within(b, g, cap)
    BY <1>9 DEF Within, Filing
  <2>6. Cardinality(Firsts(g.posts)) <= g.undone
    BY <1>2, <1>3, <1>5
  <2> QED
    BY <1>5, <1>9, <2>1, <2>2, <2>3, <2>4, <2>5, <2>6, Starts
<1>11. TempDirHasCause'
  <2>1. at \in [Senders -> States]
    BY DEF IInv, TypeOK
  <2>2. \A t \in Senders \ {s} : at'[t] = at[t]
    BY <2>1 DEF Goto
  <2> QED
    BY <2>2, DirKept DEF Filing
<1> QED
  BY <1>5, <1>6, <1>7, <1>8, <1>9, <1>10, <1>11, StayKept

LEMMA RouteKept ==
  ASSUME IInv, NEW s \in Senders, Route(s)
  PROVE  Active(s) /\ StepKept(s)
<1> DEFINE f == File(at[s].id)
<1>1. Active(s) /\ at[s].pc = "route" /\ at[s].pc \notin Filing
  BY DEF Route, Active, Filing
<1>2. /\ at[s] \in States /\ f \in Files /\ Good(at[s], f, cap) /\ Placed(at[s], JobOf(s))
      /\ f.job = JobOf(s) /\ f.posts = posts[at[s].id] /\ f.undone = undone[at[s].id]
      /\ undone[at[s].id] \in Nat
  BY <1>1, Holding DEF Good, File, Files
<1>3. Cardinality(Firsts(f.posts)) <= f.undone
  BY <1>1, <1>2, Unbegun
<1>4. disabled \in BOOLEAN /\ Only(undone, undone, at[s].id, Nat)
  BY OnlySame DEF IInv, TypeOK
<1> HIDE DEF f
<1>5. CASE /\ Ends(s, "unavailable")
           /\ UNCHANGED <<job, posts, undone, why, tmp, asked, late, stale, shared>>
  BY <1>1, <1>5, QuietEndKept DEF Verdicts, shared
<1>6. CASE JobOf(s).style # "rich" /\ Goto(s, Fallback(s)) /\ Keeps
  <2>1. /\ UNCHANGED <<job, result, posts, why, tmp, late, stale, load, limit, cap, cancelled, ends>>
        /\ asked' = asked /\ undone' = undone /\ disabled' = disabled
    BY <1>6 DEF Keeps, shared
  <2>2. undone'[at[s].id] >= undone[at[s].id] /\ Cardinality(Firsts(posts[at[s].id])) <= undone'[at[s].id]
    BY <1>2, <1>3, <2>1
  <2> QED
    BY <1>1, <1>4, <1>6, <2>1, <2>2, FallbackKept
<1>7. CASE /\ Goto(s, Fallback(s)) /\ asked' = asked \cup {at[s].id}
           /\ UNCHANGED <<job, result, posts, undone, why, tmp, late, stale, shared>>
  <2>1. /\ UNCHANGED <<job, result, posts, why, tmp, late, stale, load, limit, cap, cancelled, ends>>
        /\ asked' = asked \cup {at[s].id} /\ undone' = undone /\ disabled' = disabled
    BY <1>7 DEF shared
  <2>2. undone'[at[s].id] >= undone[at[s].id] /\ Cardinality(Firsts(posts[at[s].id])) <= undone'[at[s].id]
    BY <1>2, <1>3, <2>1
  <2> QED
    BY <1>1, <1>4, <1>7, <2>1, <2>2, FallbackKept
<1>8. CASE JobOf(s).chunks > 0 /\ Goto(s, [at[s] EXCEPT !.pc = "chunk", !.piece = 1]) /\ Keeps
  <2>1. PICK b \in States : b = [at[s] EXCEPT !.pc = "chunk", !.piece = 1]
    BY <1>2, StateEdits DEF Pcs
  <2>2. /\ b.pc = "chunk" /\ b.piece = 1 /\ b.id = at[s].id /\ b.tries = at[s].tries
        /\ b.footers = at[s].footers
    BY <1>2, <2>1 DEF States
  <2>3. 1 \in 1 .. JobOf(s).chunks
    BY <1>2, <1>8 DEF Files, Tasks, JobSet
  <2>4. Placed(b, JobOf(s)) /\ Insists(b, File(at[s].id)) /\ Within(b, File(at[s].id), cap)
    BY <1>1, <1>2, <2>2, <2>3 DEF Placed, Insists, Within, Filing
  <2> QED
    BY <1>1, <1>8, <2>1, <2>2, <2>4, QuietMoveKept DEF Form
<1> QED
  BY <1>1, <1>5, <1>6, <1>7, <1>8 DEF Route

LEMMA StartFallbackKept ==
  ASSUME IInv, NEW s \in Senders, StartFallback(s)
  PROVE  Active(s) /\ StepKept(s)
<1>1. Active(s) /\ at[s].pc = "fallback" /\ at[s].pc \notin Filing
  BY DEF StartFallback, Active, Filing
<1>2. /\ at[s] \in States /\ Good(at[s], File(at[s].id), cap) /\ Placed(at[s], JobOf(s))
      /\ File(at[s].id).job = JobOf(s)
  BY <1>1, Holding DEF Good
<1>3. CASE FailsQuietly(s, "transient", "none")
  BY <1>1, <1>3, FailsQuietlyKept DEF Reasons
<1>4. CASE Goto(s, [at[s] EXCEPT !.pc = "segment", !.piece = 1]) /\ Keeps
  <2>1. PICK b \in States : b = [at[s] EXCEPT !.pc = "segment", !.piece = 1]
    BY <1>2, StateEdits DEF Pcs
  <2>2. /\ b.pc = "segment" /\ b.piece = 1 /\ b.id = at[s].id /\ b.tries = at[s].tries
        /\ b.footers = at[s].footers /\ b.body \in Bodies
    BY <1>2, <2>1 DEF States
  <2>3. Segments[b.body] \in Nat \ {0}
    BY <2>2, Constants
  <2>4. 1 \in 1 .. Segments[b.body]
    BY <2>3
  <2>5. Placed(b, JobOf(s))
    BY <1>1, <1>2, <2>2, <2>4 DEF Placed, Filing
  <2>6. Insists(b, File(at[s].id))
    BY <1>1, <1>2 DEF Insists, Good
  <2>7. Within(b, File(at[s].id), cap)
    BY <2>2 DEF Within, Filing
  <2> QED
    BY <1>1, <1>4, <2>1, <2>2, <2>5, <2>6, <2>7, QuietMoveKept DEF Form
<1> QED
  BY <1>1, <1>3, <1>4 DEF StartFallback

LEMMA ChunkAcceptedKept ==
  ASSUME IInv, NEW s \in Senders, ChunkAccepted(s)
  PROVE  Active(s) /\ StepKept(s)
<1>1. Active(s) /\ at[s].pc = "chunk" /\ Form(at[s]) = "rich" /\ Posted(s, Form(at[s]))
  BY DEF ChunkAccepted, Active, Form
<1>2. /\ at[s] \in States /\ Placed(at[s], JobOf(s)) /\ JobOf(s) \in Tasks
  BY <1>1, Holding DEF Good, Files
<1>3. CASE at[s].piece = JobOf(s).chunks /\ Finishes(s)
  <2>1. \A p : IsPost(p, at[s]) => at[s].piece = Total(JobOf(s), p)
    BY <1>1, <1>3 DEF IsPost, Total
  <2> QED
    BY <1>1, <1>3, <2>1, FinishKept DEF ChunkAccepted
<1>4. CASE /\ at[s].piece # JobOf(s).chunks /\ UNCHANGED <<result, tmp, stale>>
           /\ Goto(s, [at[s] EXCEPT !.piece = @ + 1, !.calls = 0])
  <2>1. at[s].piece \in 1 .. JobOf(s).chunks /\ JobOf(s).chunks \in Nat
    BY <1>1, <1>2 DEF Placed, Tasks, JobSet
  <2>2. at[s].piece + 1 \in Nat /\ at[s].piece + 1 \in 1 .. JobOf(s).chunks
    BY <1>4, <2>1
  <2>3. PICK b \in States : b = [at[s] EXCEPT !.piece = @ + 1, !.calls = 0]
    BY <1>2, <2>2, StateEdits
  <2>4. b.pc = "chunk" /\ b.piece = at[s].piece + 1 /\ b.footers = at[s].footers
    BY <1>1, <1>2, <2>3 DEF States
  <2>5. Placed(b, JobOf(s))
    BY <1>1, <1>2, <2>2, <2>4 DEF Placed, Filing
  <2> QED
    BY <1>1, <1>4, <2>3, <2>5, ProceedKept DEF ChunkAccepted
<1> QED
  BY <1>1, <1>3, <1>4 DEF ChunkAccepted

\* A failed call after which the channel is as before.
LEMMA NoAnswer ==
  ASSUME IInv, NEW s \in Senders, Active(s), Leaves(s, FALSE), UNCHANGED posts,
         UNCHANGED <<job, why, asked, late, shared>>
  PROVE  \E g \in Files :
           /\ Edited(s, g) /\ g.result = "none" /\ g.posts = File(at[s].id).posts
           /\ g.job = File(at[s].id).job /\ g.asked = File(at[s].id).asked
           /\ g.undone >= File(at[s].id).undone /\ Closed(g)
           /\ Cardinality(Firsts(g.posts)) <= g.undone
<1> DEFINE i == at[s].id
           f == File(i)
<1>1. /\ f \in Files /\ at[s] \in States /\ Good(at[s], f, cap) /\ Closed(f) /\ f.result = "none"
  BY Holding
<1>2. /\ f.job = job[i] /\ f.posts = posts[i] /\ f.undone = undone[i] /\ f.why = why[i]
      /\ f.asked = (i \in asked) /\ f.late = (i \in late)
  BY DEF File
<1>3. Only(undone, undone', i, Nat)
  BY LeavesOnly
<1>4. undone'[i] = f.undone + (IF \E k \in DOMAIN f.posts : f.posts[k].try = at[s].tries THEN 1 ELSE 0)
  BY <1>2, LeavesOnly DEF InChannel
<1> HIDE DEF f
<1>5. PICK u \in Nat : u = undone'[i] /\ u >= f.undone /\ Cardinality(Firsts(f.posts)) <= u
  BY <1>1, <1>4, Leaving
<1>6. PICK g \in Files : g = [f EXCEPT !.undone = u]
  BY <1>1 DEF Files
<1>7. /\ g.job = f.job /\ g.result = "none" /\ g.posts = f.posts /\ g.undone = u
      /\ g.why = f.why /\ g.asked = f.asked /\ g.late = f.late
  BY <1>1, <1>6 DEF Files
<1>8. Edited(s, g)
  <2>1. /\ Only(posts, posts, i, Seq(Posts)) /\ Only(why, why, i, Reasons) /\ disabled \in BOOLEAN
    BY OnlySame DEF IInv, TypeOK
  <2>2. /\ asked' = asked \cup (IF g.asked THEN {i} ELSE {}) /\ (i \in asked => g.asked)
        /\ late' = late \cup (IF g.late THEN {i} ELSE {}) /\ (i \in late => g.late)
    BY <1>2, <1>7
  <2> QED
    BY <1>2, <1>3, <1>5, <1>7, <2>1, <2>2 DEF Edited, shared
<1>9. Closed(g)
  BY <1>1, <1>5, <1>7, QuietCloses DEF Files
<1> QED
  BY <1>5, <1>7, <1>8, <1>9 DEF f

\* Where only the calls are counted, what was good stays so.
LEMMA CalledAgain ==
  ASSUME NEW a \in States, NEW f \in Files, NEW c, Good(a, f, c), a.pc = "chunk",
         NEW b \in States, b.pc = a.pc, b.tries = a.tries, b.piece = a.piece, b.body = a.body,
         b.footers = a.footers,
         NEW g \in Files, g.job = f.job, g.posts = f.posts, g.asked = f.asked, g.undone >= f.undone
  PROVE  Good(b, g, c)
<1>1. Mine(b, g.posts) = Mine(a, f.posts)
  BY DEF Mine, Form
<1>2. Placed(b, g.job)
  BY DEF Good, Placed, Filing
<1>3. Told(b, g.posts) /\ InOrder(b, g.job, g.posts)
  BY <1>1 DEF Good, Told, InOrder
<1>4. Counted(b, g)
  <2>1. Cardinality(Firsts(f.posts)) \in Nat /\ f.undone \in Nat /\ g.undone \in Nat
    BY FirstsFinite DEF Files
  <2>2. Cardinality(Firsts(f.posts)) <= f.undone + (IF a.piece > 1 THEN 1 ELSE 0)
    BY DEF Good, Counted, Begun
  <2>3. Cardinality(Firsts(g.posts)) <= g.undone + (IF b.piece > 1 THEN 1 ELSE 0)
    BY <2>1, <2>2
  <2> QED
    BY <2>3 DEF Counted, Begun
<1>5. Insists(b, g) /\ Within(b, g, c)
  BY DEF Insists, Within, Filing
<1> QED
  BY <1>2, <1>3, <1>4, <1>5 DEF Good

LEMMA ChunkErrorKept ==
  ASSUME IInv, NEW s \in Senders, ChunkRetryable(s) \/ ChunkFails(s)
  PROVE  Active(s) /\ StepKept(s)
<1> DEFINE f == File(at[s].id)
<1>1. Active(s) /\ at[s].pc = "chunk" /\ at[s].pc \notin Filing /\ Form(at[s]) = "rich"
  BY DEF ChunkRetryable, ChunkFails, Active, Form, Filing
<1>2. /\ at[s] \in States /\ f \in Files /\ Good(at[s], f, cap) /\ Placed(at[s], f.job)
  BY <1>1, Holding DEF Good
<1>3. /\ UNCHANGED <<job, why, asked, late, shared>> /\ UNCHANGED <<tmp, stale>>
      /\ \/ Posted(s, Form(at[s])) /\ Leaves(s, TRUE)
         \/ UNCHANGED posts /\ Leaves(s, FALSE)
      /\ \/ Goto(s, [at[s] EXCEPT !.calls = @ + 1]) /\ UNCHANGED result
         \/ Ends(s, "transient")
  BY <1>1 DEF ChunkRetryable, ChunkFails, CallAgain
<1>4. PICK g \in Files :
        /\ Edited(s, g) /\ g.result = "none" /\ g.job = f.job /\ Closed(g)
        /\ \/ g.posts = f.posts /\ g.asked = f.asked /\ g.undone >= f.undone
           \/ \E p : /\ IsPost(p, at[s]) /\ After(at[s], f.job, p, f.posts, g.posts)
                     /\ g.undone = f.undone + 1 /\ g.asked = f.asked
  <2>1. CASE Posted(s, Form(at[s])) /\ Leaves(s, TRUE)
    BY <1>1, <1>3, <2>1, LostAnswer
  <2>2. CASE UNCHANGED posts /\ Leaves(s, FALSE)
    BY <1>1, <1>3, <2>2, NoAnswer
  <2> QED
    BY <1>3, <2>1, <2>2
<1>5. TempDirHasCause'
  <2>1. at \in [Senders -> States]
    BY DEF IInv, TypeOK
  <2>2. \A t \in Senders \ {s} : at'[t] = at[t]
    BY <1>3, <2>1 DEF Goto, Ends
  <2> QED
    BY <1>1, <1>3, <2>2, DirKept
<1>6. CASE Ends(s, "transient")
  <2>1. [g EXCEPT !.result = "transient"] \in Files
    BY DEF Files, Verdicts
  <2>2. Closed([g EXCEPT !.result = "transient"])
    BY <1>4, <2>1, QuietCloses DEF Files
  <2> QED
    BY <1>1, <1>4, <1>5, <1>6, <2>2, EndKept DEF Verdicts
<1>7. CASE Goto(s, [at[s] EXCEPT !.calls = @ + 1]) /\ UNCHANGED result
  <2>1. at[s].calls + 1 \in Nat
    BY <1>2 DEF States
  <2>2. PICK b \in States : b = [at[s] EXCEPT !.calls = @ + 1]
    BY <1>2, <2>1, StateEdits
  <2>3. /\ b.pc = at[s].pc /\ b.id = at[s].id /\ b.tries = at[s].tries /\ b.piece = at[s].piece
        /\ b.body = at[s].body /\ b.footers = at[s].footers
    BY <1>2, <2>2 DEF States
  <2>4. Placed(b, g.job)
    BY <1>1, <1>2, <1>4, <2>3 DEF Placed, Filing
  <2>5. Good(b, g, cap)
    <3>1. CASE g.posts = f.posts /\ g.asked = f.asked /\ g.undone >= f.undone
      BY <1>1, <1>2, <1>4, <2>3, <3>1, CalledAgain
    <3>2. CASE \E p : /\ IsPost(p, at[s]) /\ After(at[s], f.job, p, f.posts, g.posts)
                      /\ g.undone = f.undone + 1 /\ g.asked = f.asked
      BY <1>1, <1>2, <1>4, <2>3, <2>4, <3>2, GoesOn
    <3> QED
      BY <1>4, <3>1, <3>2
  <2> QED
    BY <1>1, <1>4, <1>5, <1>7, <2>2, <2>3, <2>5, StayKept
<1> QED
  BY <1>1, <1>3, <1>6, <1>7

LEMMA ChunkRejectedKept ==
  ASSUME IInv, NEW s \in Senders, ChunkRejected(s)
  PROVE  Active(s) /\ StepKept(s)
<1> DEFINE f == File(at[s].id)
<1>1. Active(s) /\ at[s].pc = "chunk"
  BY DEF ChunkRejected, Active
<1>2. /\ at[s] \in States /\ f \in Files /\ Good(at[s], f, cap)
      /\ f.posts = posts[at[s].id] /\ f.undone = undone[at[s].id]
  BY <1>1, Holding DEF File
<1>3. Only(undone, undone', at[s].id, Nat)
  BY <1>1, LeavesOnly DEF ChunkRejected
<1>4. undone'[at[s].id] =
        f.undone + (IF \E k \in DOMAIN f.posts : f.posts[k].try = at[s].tries THEN 1 ELSE 0)
  BY <1>1, <1>2, LeavesOnly DEF ChunkRejected, InChannel
<1> HIDE DEF f
<1>5. undone'[at[s].id] >= undone[at[s].id] /\ Cardinality(Firsts(posts[at[s].id])) <= undone'[at[s].id]
  BY <1>2, <1>4, Leaving
<1>6. disabled' \in BOOLEAN
  BY DEF ChunkRejected, IInv, TypeOK
<1>7. asked' = asked \cup {at[s].id} /\ Goto(s, Fallback(s))
      /\ UNCHANGED <<job, result, posts, why, tmp, late, stale, load, limit, cap, cancelled, ends>>
  BY DEF ChunkRejected
<1> QED
  BY <1>1, <1>3, <1>5, <1>6, <1>7, FallbackKept

LEMMA StepsKept ==
  ASSUME IInv, NEW s \in Senders, Step(s)
  PROVE  IInv'
<1>1. Active(s) /\ StepKept(s)
  BY DelayKept, RewriteKept, AttemptKept, BackoffKept, SendsKept, DownloadKept, UploadKept,
     RouteKept, ChunkAcceptedKept, ChunkErrorKept, ChunkRejectedKept, StartFallbackKept DEF Step
<1> QED
  BY <1>1, StepIsKept
-----------------------------------------------------------------------------
(* Starting, being given a job, and the end of the process.                *)

LEMMA InitIInv == Init => IInv
<1> SUFFICES ASSUME Init PROVE IInv
  OBVIOUS
<1>1. TypeOK
  <2>1. /\ Idle \in States /\ [Idle EXCEPT !.pc = "starting"] \in States
    BY DEF Idle, States, Pcs, Bodies
  <2>2. at \in [Senders -> States]
    BY <2>1 DEF Init
  <2>3. load \in [Senders -> Nat]
    BY DeliveryAssumption DEF Init, Senders
  <2>4. /\ job \in Seq(Tasks) /\ result \in Seq(Verdicts) /\ posts \in Seq(Seq(Posts))
        /\ undone \in Seq(Nat) /\ why \in Seq(Reasons)
    <3>1. \A T : <<>> \in Seq(T)
      OBVIOUS
    <3> QED
      BY <3>1 DEF Init
  <2>5. /\ Len(result) = Len(job) /\ Len(posts) = Len(job) /\ Len(undone) = Len(job)
        /\ Len(why) = Len(job)
    BY DEF Init
  <2>6. /\ {disabled, cancelled} \subseteq BOOLEAN /\ {limit, cap} \subseteq Limits /\ ends \in Nat
    BY DEF Init
  <2> QED
    BY <2>2, <2>3, <2>4, <2>5, <2>6 DEF TypeOK
<1>2. \A s \in Senders : ~ Active(s)
  BY DEF Init, Active, Idle
<1>3. Owned
  BY <1>2, Constants DEF Init, Owned, Idle, Senders
<1>4. Jobs = {} /\ tmp = {}
  BY DEF Init, Jobs
<1> QED
  BY <1>1, <1>2, <1>3, <1>4 DEF IInv, TempDirHasCause

LEMMA CleanupKept ==
  ASSUME IInv, CleanupStaleTemp
  PROVE  IInv'
<1>1. /\ at[Engine].pc = "starting" /\ at' = [at EXCEPT ![Engine] = Idle] /\ at \in [Senders -> States]
      /\ Engine \in Senders /\ Idle \in States /\ Idle.pc = "idle"
      /\ UNCHANGED <<job, result, posts, undone, why, asked, late>>
      /\ UNCHANGED <<load, disabled, limit, cap, cancelled, ends>>
  BY Constants DEF CleanupStaleTemp, IInv, TypeOK, Idle, States, Pcs, Bodies, shared
<1>2. TypeOK'
  BY <1>1 DEF IInv, TypeOK
<1>3. \A s \in Senders : (Active(s)' <=> Active(s)) /\ (Active(s) => at'[s] = at[s])
  BY <1>1 DEF Active
<1>4. Owned'
  BY <1>1, <1>3, Constants DEF IInv, Owned, Senders, Jobs
<1>5. \A i : File(i)' = File(i)
  BY <1>1 DEF File
<1>6. \A s \in Senders : Active(s)' => Good(at[s], File(at[s].id), cap)'
  <2> SUFFICES ASSUME NEW s \in Senders, Active(s)' PROVE Good(at[s], File(at[s].id), cap)'
    OBVIOUS
  <2>1. at'[s] = at[s] /\ Active(s)
    BY <1>3
  <2>2. Good(at'[s], File(at[s].id)', cap')
    <3>1. File(at[s].id)' = File(at[s].id)
      BY <1>1, <2>1 DEF File
    <3> QED
      BY <1>1, <2>1, <3>1 DEF IInv
  <2> QED
    BY <2>2 DEF Good, Placed, Told, InOrder, Counted, Insists, Within, Mine, Form, Begun
<1>7. \A i \in Jobs' : Closed(File(i))'
  <2>1. \A i \in Jobs : Closed(File(i)')
    BY <1>5 DEF IInv
  <2>2. Jobs' = Jobs
    BY <1>1 DEF Jobs
  <2> QED
    BY <2>1, <2>2 DEF Closed, AllRich, AllFit
<1>8. TempDirHasCause'
  BY DEF CleanupStaleTemp, Cleaned, TempDirHasCause
<1> QED
  BY <1>2, <1>4, <1>6, <1>7, <1>8 DEF IInv

\* What the invariant speaks of is as before.
LEMMA FrameKept ==
  ASSUME IInv, TypeOK',
         UNCHANGED <<at, job, result, posts, undone, why, tmp, asked, late, stale, cap>>
  PROVE  IInv'
<1>1. Owned'
  BY DEF IInv, Owned, Active, Jobs
<1>2. \A i : File(i)' = File(i)
  BY DEF File
<1>3. \A s \in Senders : Active(s)' => Good(at[s], File(at[s].id), cap)'
  <2> SUFFICES ASSUME NEW s \in Senders, Active(s)' PROVE Good(at[s], File(at[s].id), cap)'
    OBVIOUS
  <2>1. Good(at'[s], File(at[s].id)', cap')
    <3>1. File(at[s].id)' = File(at[s].id) /\ Active(s)
      BY DEF File, Active
    <3> QED
      BY <3>1 DEF IInv
  <2> QED
    BY <2>1 DEF Good, Placed, Told, InOrder, Counted, Insists, Within, Mine, Form, Begun
<1>4. \A i \in Jobs' : Closed(File(i))'
  <2>1. \A i \in Jobs : Closed(File(i)')
    BY <1>2 DEF IInv
  <2>2. Jobs' = Jobs
    BY DEF Jobs
  <2> QED
    BY <2>1, <2>2 DEF Closed, AllRich, AllFit
<1>5. TempDirHasCause'
  BY DEF IInv, TempDirHasCause, Dir
<1> QED
  BY <1>1, <1>3, <1>4, <1>5 DEF IInv

LEMMA ControlKept ==
  ASSUME IInv, ApplySettings \/ Cancel
  PROVE  IInv'
<1>1. TypeOK'
  BY DEF IInv, TypeOK, ApplySettings, Cancel
<1>2. UNCHANGED <<at, job, result, posts, undone, why, tmp, asked, late, stale, cap>>
  BY DEF ApplySettings, Cancel
<1> QED
  BY <1>1, <1>2, FrameKept

LEMMA RestartKept ==
  ASSUME IInv, Restart
  PROVE  IInv'
<1>1. /\ job \in Seq(Tasks) /\ result \in Seq(Verdicts) /\ Len(result) = Len(job) /\ Len(job) \in Nat
      /\ Jobs = 1 .. Len(job)
  BY JobsAre DEF IInv, TypeOK
<1>2. /\ result' = [i \in 1 .. Len(job) |-> IF result[i] = "none" THEN "lost" ELSE result[i]]
      /\ UNCHANGED <<job, posts, undone, why, tmp, asked, late, load, limit>>
      /\ at' = [s \in Senders |-> IF s = Engine THEN [Idle EXCEPT !.pc = "starting"] ELSE Idle]
      /\ disabled' = FALSE /\ cancelled' = FALSE /\ cap' = limit /\ ends' = ends + 1
      /\ stale' = stale \cup tmp
  BY <1>1 DEF Restart
<1>3. /\ result' \in Seq(Verdicts) /\ Len(result') = Len(job)
      /\ \A i \in Jobs : result'[i] = "sent" => result[i] = "sent"
  <2>1. \A i \in 1 .. Len(job) : result[i] \in Verdicts
    BY <1>1
  <2>2. result' \in [1 .. Len(job) -> Verdicts]
    BY <1>2, <2>1 DEF Verdicts
  <2> QED
    BY <1>1, <1>2, <2>2
<1>4. at' \in [Senders -> States]
  <2>1. Idle \in States /\ [Idle EXCEPT !.pc = "starting"] \in States
    BY DEF Idle, States, Pcs, Bodies
  <2> QED
    BY <1>2, <2>1
<1>5. TypeOK'
  <2>1. {disabled', cancelled'} \subseteq BOOLEAN
    BY <1>2
  <2>2. {limit', cap'} \subseteq Limits
    BY <1>2 DEF IInv, TypeOK
  <2>3. ends' \in Nat
    BY <1>2 DEF IInv, TypeOK
  <2>4. /\ load' \in [Senders -> Nat] /\ job' \in Seq(Tasks) /\ posts' \in Seq(Seq(Posts))
        /\ undone' \in Seq(Nat) /\ why' \in Seq(Reasons)
        /\ Len(posts') = Len(job') /\ Len(undone') = Len(job') /\ Len(why') = Len(job')
    BY <1>2 DEF IInv, TypeOK
  <2>5. result' \in Seq(Verdicts) /\ Len(result') = Len(job')
    BY <1>2, <1>3
  <2> QED
    BY <1>4, <2>1, <2>2, <2>3, <2>4, <2>5 DEF TypeOK
<1>6. \A s \in Senders : ~ Active(s)'
  BY <1>2 DEF Active, Idle
<1>7. Owned'
  BY <1>2, <1>6, Constants DEF Owned, Senders, Idle
<1>8. \A i \in Jobs' : Closed(File(i))'
  <2>1. Jobs' = Jobs
    BY <1>2 DEF Jobs
  <2>2. ASSUME NEW i \in Jobs PROVE Closed(File(i)')
    <3>1. PICK f : f = File(i) /\ f \in Files /\ Closed(f)
      BY FileType DEF IInv
    <3>2. PICK g : g = File(i)' /\ g \in Files
      <4>1. \A k \in Jobs' : File(k)' \in Files
        BY <1>5 DEF TypeOK, Jobs, File, Files
      <4> QED
        BY <2>1, <4>1
    <3>3. /\ g.job = f.job /\ g.posts = f.posts /\ g.undone = f.undone /\ g.why = f.why
          /\ g.asked = f.asked /\ g.late = f.late
          /\ (g.result = "sent" => f.result = "sent")
      BY <1>2, <1>3, <3>1, <3>2 DEF File
    <3>4. Closed(g)
      BY <3>1, <3>2, <3>3, QuietCloses DEF Files
    <3> QED
      BY <3>2, <3>4
  <2> QED
    BY <2>1, <2>2 DEF Closed, AllRich, AllFit
<1>9. TempDirHasCause'
  BY <1>2 DEF TempDirHasCause
<1> QED
  BY <1>5, <1>6, <1>7, <1>8, <1>9 DEF IInv

LEMMA BeginKept ==
  ASSUME IInv, NEW s \in Senders, Begin(s)
  PROVE  IInv'
<1>0. PICK n \in Nat : n = Len(job) + 1
  BY JobsAre DEF IInv, TypeOK
<1>1. PICK j \in Given[s] :
        /\ job' = Append(job, j)
        /\ at' = [at EXCEPT ![s] = [Idle EXCEPT !.pc = IF s = Engine THEN "delay" ELSE "route",
                                                !.id = n]]
  BY <1>0 DEF Begin
<1>2. /\ result' = Append(result, "none") /\ posts' = Append(posts, <<>>)
      /\ undone' = Append(undone, 0) /\ why' = Append(why, "none")
      /\ load' = [load EXCEPT ![s] = @ - 1] /\ load[s] > 0 /\ at[s].pc = "idle"
      /\ UNCHANGED <<tmp, asked, late, stale, disabled, limit, cap, cancelled, ends>>
  BY DEF Begin
<1>3. j \in Tasks /\ (j.kind = "rich") = (s \in Callers) /\ (s # Engine => s \in Callers)
  BY Constants DEF Senders
<1>4. /\ at \in [Senders -> States] /\ load \in [Senders -> Nat] /\ job \in Seq(Tasks)
      /\ result \in Seq(Verdicts) /\ posts \in Seq(Seq(Posts)) /\ undone \in Seq(Nat)
      /\ why \in Seq(Reasons) /\ Len(result) = Len(job) /\ Len(posts) = Len(job)
      /\ Len(undone) = Len(job) /\ Len(why) = Len(job) /\ Len(job) \in Nat /\ Jobs = 1 .. Len(job)
      /\ n = Len(job) + 1
  BY <1>0, JobsAre DEF IInv, TypeOK
<1>5. PICK b \in States : /\ b = [Idle EXCEPT !.pc = IF s = Engine THEN "delay" ELSE "route", !.id = n]
                          /\ b.pc = (IF s = Engine THEN "delay" ELSE "route") /\ b.id = n
                          /\ b.tries = 0 /\ b.footers = 0
  <2>1. \A p \in {"delay", "route"} :
          /\ [Idle EXCEPT !.pc = p, !.id = n] \in States
          /\ [Idle EXCEPT !.pc = p, !.id = n].pc = p /\ [Idle EXCEPT !.pc = p, !.id = n].id = n
          /\ [Idle EXCEPT !.pc = p, !.id = n].tries = 0 /\ [Idle EXCEPT !.pc = p, !.id = n].footers = 0
    BY <1>0 DEF Idle, States, Pcs, Bodies
  <2>2. PICK p \in {"delay", "route"} : p = IF s = Engine THEN "delay" ELSE "route"
    OBVIOUS
  <2> QED
    BY <2>1, <2>2
<1>6. /\ at' \in [Senders -> States] /\ at'[s] = b /\ \A t \in Senders \ {s} : at'[t] = at[t]
  BY <1>1, <1>4, <1>5
<1>7. /\ job' \in Seq(Tasks) /\ Len(job') = n /\ job'[n] = j
      /\ \A i \in 1 .. Len(job) : job'[i] = job[i]
  BY <1>1, <1>3, <1>4
<1>8. /\ result' \in Seq(Verdicts) /\ Len(result') = n /\ result'[n] = "none"
      /\ \A i \in 1 .. Len(job) : result'[i] = result[i]
  BY <1>2, <1>4 DEF Verdicts
<1>9. /\ posts' \in Seq(Seq(Posts)) /\ Len(posts') = n /\ posts'[n] = <<>>
      /\ \A i \in 1 .. Len(job) : posts'[i] = posts[i]
  <2>1. <<>> \in Seq(Posts)
    BY NothingPosted
  <2> QED
    BY <1>2, <1>4, <2>1
<1>10. /\ undone' \in Seq(Nat) /\ Len(undone') = n /\ undone'[n] = 0
       /\ \A i \in 1 .. Len(job) : undone'[i] = undone[i]
  BY <1>2, <1>4
<1>11. /\ why' \in Seq(Reasons) /\ Len(why') = n /\ why'[n] = "none"
       /\ \A i \in 1 .. Len(job) : why'[i] = why[i]
  <2>1. "none" \in Reasons
    BY DEF Reasons
  <2> QED
    BY <1>2, <1>4, <2>1
<1>12. load' \in [Senders -> Nat]
  BY <1>2, <1>4
<1>13. TypeOK'
  BY <1>2, <1>6, <1>7, <1>8, <1>9, <1>10, <1>11, <1>12 DEF IInv, TypeOK
<1>14. Jobs' = Jobs \cup {n} /\ n \notin Jobs
  <2>1. Jobs' = 1 .. n
    BY <1>4, <1>7 DEF Jobs
  <2> QED
    BY <1>4, <2>1
<1>15. \A i \in Jobs : File(i)' = File(i)
  BY <1>2, <1>4, <1>7, <1>8, <1>9, <1>10, <1>11 DEF File
<1>16. \A t \in Senders : t # s => (Active(t)' <=> Active(t))
  BY <1>6 DEF Active
<1>17. Owned'
  <2>1. \A t \in Callers : at'[t].pc # "starting"
    BY <1>5, <1>6 DEF IInv, Owned, Senders
  <2>2. ASSUME NEW t \in Senders, Active(t)'
        PROVE  /\ at'[t].id \in Jobs' /\ result'[at'[t].id] = "none"
               /\ (job'[at'[t].id].kind = "rich") = (t \in Callers)
               /\ \A u \in Senders : Active(u)' /\ at'[u].id = at'[t].id => u = t
    <3>1. \A u \in Senders : u # s /\ Active(u)' => at'[u] = at[u] /\ at[u].id \in Jobs
      BY <1>6, <1>16 DEF IInv, Owned
    <3>2. CASE t = s
      BY <3>1, <3>2, <1>3, <1>5, <1>6, <1>7, <1>8, <1>14
    <3>3. CASE t # s
      <4>1. Active(t) /\ at'[t] = at[t] /\ at[t].id \in Jobs /\ at[t].id # n
        BY <2>2, <3>1, <3>3, <1>14, <1>16
      <4>2. /\ result[at[t].id] = "none" /\ (job[at[t].id].kind = "rich") = (t \in Callers)
            /\ \A u \in Senders : Active(u) /\ at[u].id = at[t].id => u = t
        BY <4>1 DEF IInv, Owned
      <4>3. result'[at[t].id] = "none" /\ (job'[at[t].id].kind = "rich") = (t \in Callers)
        BY <1>4, <1>7, <1>8, <4>1, <4>2
      <4>4. \A u \in Senders : Active(u)' /\ at'[u].id = at[t].id => u = t
        BY <3>1, <4>1, <4>2, <1>5, <1>6, <1>16
      <4> QED
        BY <4>1, <4>3, <4>4, <1>14
    <3> QED
      BY <3>2, <3>3
  <2> QED
    BY <2>1, <2>2 DEF Owned
<1>18. PICK g \in Files : /\ g = File(n)' /\ g.job = j /\ g.posts = <<>> /\ g.undone = 0
                          /\ g.why = "none" /\ g.result = "none"
  <2>1. \A k \in Jobs' : File(k)' \in Files
    BY <1>13 DEF TypeOK, Jobs, File, Files
  <2>2. File(n)' \in Files
    BY <1>14, <2>1
  <2> QED
    BY <2>2, <1>7, <1>8, <1>9, <1>10, <1>11 DEF File
<1>19. Good(b, g, cap)
  <2>1. Placed(b, j)
    <3>1. s # Engine => FootersDue(j) = 0
      BY <1>3 DEF FootersDue, Tasks
    <3> QED
      BY <1>3, <1>5, <3>1, Constants DEF Placed, Filing
  <2>2. Insists(b, g)
    BY <1>3, <1>5, <1>18, Constants DEF Insists
  <2>3. Within(b, g, cap)
    BY <1>5 DEF Within, Filing
  <2>4. Mine(b, g.posts) = {} /\ DOMAIN g.posts = {} /\ Cardinality(Firsts(g.posts)) = 0
    BY <1>18, NothingPosted DEF Mine, Own
  <2>5. /\ \A k \in DOMAIN g.posts : g.posts[k].try <= b.tries
        /\ \A k \in DOMAIN g.posts : g.posts[k].form = "rich"
        /\ b.pc \notin {"segment", "chunk"} /\ Cardinality(Firsts(g.posts)) <= g.undone
    BY <1>5, <1>18, <2>4
  <2> QED
    BY <1>5, <1>18, <2>1, <2>2, <2>3, <2>4, <2>5, Starts
<1>20. Closed(g)
  <2>1. DOMAIN g.posts = {} /\ Cardinality(Firsts(g.posts)) = 0
    BY <1>18, NothingPosted
  <2> QED
    BY <1>18, <2>1 DEF Closed, AllRich, AllFit
<1>21. \A t \in Senders : Active(t)' => Good(at[t], File(at[t].id), cap)'
  <2> SUFFICES ASSUME NEW t \in Senders, Active(t)' PROVE Good(at[t], File(at[t].id), cap)'
    OBVIOUS
  <2>1. Good(at'[t], File(at[t].id)', cap')
    <3>1. CASE t = s
      <4>1. File(at[t].id)' = File(n)'
        BY <3>1, <1>5, <1>6 DEF File
      <4> QED
        BY <3>1, <4>1, <1>2, <1>6, <1>18, <1>19
    <3>2. CASE t # s
      <4>1. Active(t) /\ at'[t] = at[t] /\ at[t].id \in Jobs
        BY <3>2, <1>6, <1>16 DEF IInv, Owned
      <4>2. PICK i \in Jobs : i = at[t].id
        BY <4>1
      <4>3. File(at[t].id)' = File(i)' /\ File(i)' = File(i) /\ File(i) = File(at[t].id)
        BY <1>15, <4>1, <4>2 DEF File
      <4> QED
        BY <4>1, <4>3, <1>2 DEF IInv
    <3> QED
      BY <3>1, <3>2
  <2> QED
    BY <2>1 DEF Good, Placed, Told, InOrder, Counted, Insists, Within, Mine, Form, Begun
<1>22. \A i \in Jobs' : Closed(File(i))'
  <2>1. \A i \in Jobs' : Closed(File(i)')
    BY <1>14, <1>15, <1>18, <1>20 DEF IInv
  <2> QED
    BY <2>1 DEF Closed, AllRich, AllFit
<1>23. TempDirHasCause'
  <2>1. s = Engine => at[Engine].pc \notin Filing
    BY <1>2 DEF Filing
  <2> QED
    BY <1>2, <1>6, <2>1, DirKept DEF Filing
<1> QED
  BY <1>13, <1>17, <1>21, <1>22, <1>23 DEF IInv

LEMMA StepIInv == IInv /\ [Next]_vars => IInv'
<1> SUFFICES ASSUME IInv, [Next]_vars PROVE IInv'
  OBVIOUS
<1>1. CASE UNCHANGED vars
  <2>1. TypeOK'
    BY <1>1 DEF IInv, TypeOK, vars
  <2> QED
    BY <1>1, <2>1, FrameKept DEF vars
<1>2. CASE Next
  BY <1>2, CleanupKept, BeginKept, StepsKept, ControlKept, RestartKept DEF Next
<1> QED
  BY <1>1, <1>2

LEMMA Invariance == Spec => []IInv
BY InitIInv, StepIInv, PTL DEF Spec
-----------------------------------------------------------------------------
(* The theorems.                                                           *)

\* Types, and who is where: in particular no caller runs the engine's cleanup, and
\* a sender that is not idle holds a job of its own kind that no other sender holds.
THEOREM SendersAreTyped == Spec => [](TypeOK /\ Owned)
<1>1. IInv => TypeOK /\ Owned
  BY DEF IInv
<1> QED
  BY <1>1, Invariance, PTL

\* A result "sent" means that the last attempt put every piece of its version of the
\* text into the channel, in order, with the footer as often as the rule asks
\* (sendTextMTProto, richRouter.send, SendFiles and ForwardMessages).
THEOREM SentMeansWhole == Spec => []SentIsWhole
<1>1. IInv => SentIsWhole
  BY DEF IInv, Closed, File, SentIsWhole
<1> QED
  BY <1>1, Invariance, PTL

\* The beginning of a copy appears again only after a failed call that had left
\* something in the channel, once for each (sendWithRetry, Call, fallback).
THEOREM RepeatsHaveCause == Spec => []CopiesHaveCause
<1>1. IInv => CopiesHaveCause
  BY DEF IInv, Closed, File, CopiesHaveCause
<1> QED
  BY <1>1, Invariance, PTL

\* A StyleRich content is never posted over MTProto unless its own Rich form was
\* refused, whatever another sender learnt of the channel (richRouter.send).
THEOREM StyleIsHonoured == Spec => []StyleRichHonoured
<1>1. IInv => StyleRichHonoured
  <2> SUFFICES ASSUME IInv, NEW i \in Jobs \ asked, job[i].kind = "rich", job[i].style = "rich",
                      NEW q \in ToSet(posts[i])
               PROVE  q.form = "rich"
    BY DEF StyleRichHonoured
  <2>1. AllRich(File(i)) /\ File(i).posts = posts[i] /\ File(i).job = job[i] /\ ~ File(i).asked
    BY DEF IInv, Closed, File
  <2> QED
    BY <2>1 DEF AllRich, ToSet
<1> QED
  BY <1>1, Invariance, PTL

\* A directory of temporary files that is neither the running attempt's nor marked
\* by a failed removal or a process end does not exist (sendAsFiles' RemoveAll).
THEOREM DirsHaveCause == Spec => []TempDirHasCause
<1>1. IInv => TempDirHasCause
  BY DEF IInv
<1> QED
  BY <1>1, Invariance, PTL

\* A file above media_max_size is not copied, and no group is given up for a limit
\* it does not exceed, unless the setting changed under a running process.
THEOREM LimitIsHonoured == Spec => []SizeLimitHonoured
<1>1. IInv => SizeLimitHonoured
  <2> SUFFICES ASSUME IInv, NEW i \in Jobs \ late
               PROVE  /\ why[i] # "capped"
                      /\ \A p \in ToSet(posts[i]) : \A size \in {m.real : m \in ToSet(job[i].media)} :
                           p.limit = 0 \/ size <= p.limit
    BY DEF SizeLimitHonoured
  <2>1. AllFit(File(i)) /\ File(i).posts = posts[i] /\ File(i).job = job[i] /\ ~ File(i).late
        /\ File(i).why = why[i]
    BY DEF IInv, Closed, File
  <2>2. job[i].media \in Seq(Medias)
    BY FileType DEF IInv, File, Files, Tasks, JobSet, Medias
  <2>3. DOMAIN job[i].media = 1 .. Len(job[i].media)
    BY <2>2
  <2> QED
    BY <2>1, <2>3 DEF AllFit, ToSet
<1> QED
  BY <1>1, Invariance, PTL
=============================================================================
