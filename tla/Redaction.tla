----------------------------- MODULE Redaction -----------------------------
(***************************************************************************)
(* redact_internal of src/src/error.rs: the words of an error are redacted *)
(* one by one and joined until the result reaches MaxLen bytes, where it   *)
(* is cut.  A text is a sequence of words, a word a record of its opening  *)
(* brackets, its core and its closing punctuation, each a sequence of      *)
(* characters; of a character only its width in bytes (UTF-8) matters.     *)
(***************************************************************************)
EXTENDS Naturals, Sequences, SequencesExt

CONSTANTS MaxLen,   \* MAX_LEN, 400
          Panic     \* String::truncate inside a character

ASSUME MaxLenAssumption == MaxLen \in Nat \ {0}

Widths == 1 .. 4
Chars == Seq(Widths)
Marker == [path |-> <<1, 1, 1, 1, 1, 1>>, url |-> <<1, 1, 1, 1, 1>>]   \* <path>, <url>
Space == <<1>>
Ellipsis == <<3>>

Bytes(chars) ==
  LET upTo[n \in 0 .. Len(chars)] == IF n = 0 THEN 0 ELSE upTo[n - 1] + chars[n]
  IN  upTo[Len(chars)]

\* kind: "plain", or what is_redactable_path and is_redactable_url find.
Texts == Seq([lead : Chars, kind : {"plain", "path", "url"}, core : Chars, trail : Chars])

redact_token(word) ==
  word.lead \o (IF word.kind = "plain" THEN word.core ELSE Marker[word.kind]) \o word.trail

\* String::truncate panics unless the new length is a boundary of characters.
truncate(chars, len) ==
  IF \E p \in Prefixes(chars) : Bytes(p) = len
  THEN CHOOSE p \in Prefixes(chars) : Bytes(p) = len
  ELSE Panic

redact_checks_before_push(msg) ==
  LET out[i \in 0 .. Len(msg)] ==
        IF i = 0 THEN <<>>
        ELSE IF Bytes(out[i - 1]) >= MaxLen THEN out[i - 1]
        ELSE out[i - 1] \o (IF i > 1 THEN Space ELSE <<>>) \o redact_token(msg[i])
  IN  out[Len(msg)]

\* The loop: out[i] is the result when i words have been pushed.
redact_internal(msg) ==
  LET out[i \in 0 .. Len(msg)] ==
        IF i = 0 THEN <<>>
        ELSE out[i - 1] \o (IF i > 1 THEN Space ELSE <<>>) \o redact_token(msg[i])
      full == {i \in 1 .. Len(msg) : Bytes(out[i]) >= MaxLen}
  IN  IF full = {} THEN out[Len(msg)]
      ELSE LET cut == truncate(out[CHOOSE i \in full : \A k \in full : i <= k], MaxLen)
           IN  IF cut = Panic THEN Panic ELSE cut \o Ellipsis

Whole(msg) ==
  LET words == [i \in DOMAIN msg |-> redact_token(msg[i])]
  IN  FlattenSeq([i \in DOMAIN words |-> IF i = 1 THEN words[i] ELSE Space \o words[i]])

\* What its comment asks for: the redacted words joined by spaces and, from
\* MaxLen bytes on, the whole characters that fit and an ellipsis.
Redacted(msg) ==
  LET fits == {p \in Prefixes(Whole(msg)) : Bytes(p) <= MaxLen}
  IN  IF Bytes(Whole(msg)) < MaxLen THEN Whole(msg)
      ELSE (CHOOSE p \in fits : \A q \in fits : Len(q) <= Len(p)) \o Ellipsis
=============================================================================
