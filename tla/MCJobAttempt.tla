---------------------------- MODULE MCJobAttempt ----------------------------
(* A small instance of JobAttempt for TLC: MaxLen is 9 bytes, not 400. *)
EXTENDS JobAttempt, TLC

Word(kind, core) == [lead |-> <<>>, kind |-> kind, core |-> core, trail |-> <<>>]
Typed(name, words) == [name |-> name, words |-> words]

MCPlain == <<Word("plain", <<1, 1, 1>>)>>
MCWithUrl == <<Word("plain", <<1, 1>>),
               [lead |-> <<1>>, kind |-> "url", core |-> <<1, 1>>, trail |-> <<1>>]>>

\* Behind the three letters and the space of MCPlain: what fits, what is cut
\* after a character, and what would be cut inside one.
MCSafe == {
  Typed("a cat", <<Word("plain", <<1>>), Word("plain", <<1, 1>>)>>),
  Typed("two characters", <<Word("plain", <<1, 1, 3, 3>>)>>),
  Typed("a path", <<Word("path", <<1>>), Word("plain", <<1>>)>>),
  Typed(SEED, <<Word("plain", <<1, 1, 1, 1, 1>>)>>),
  Typed(INPUT_IMAGE, <<Word("plain", <<1, 1, 1, 1, 1, 1>>)>>)}
MCSplit == {Typed("chinese", <<Word("plain", <<3, 3, 3>>)>>)}
MCPrompts == MCSafe \cup MCSplit

MCLeaves == {"text", "image", "prefix", "seed", "sampler"}
MCTemplate == [l \in MCLeaves |->
  CASE l = "text" -> PROMPT [] l = "image" -> INPUT_IMAGE [] l = "prefix" -> FILENAME_PREFIX
    [] l = "seed" -> SEED [] OTHER -> Fixed]
=============================================================================
