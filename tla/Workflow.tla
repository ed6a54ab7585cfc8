------------------------------ MODULE Workflow ------------------------------
(***************************************************************************)
(* src/src/workflow.rs: filling the placeholders of a workflow template.   *)
(* A JSON document is taken as the function from its leaves to their       *)
(* values: both passes visit every leaf and leave the shape alone.         *)
(***************************************************************************)
CONSTANTS Leaves,    \* the leaves of the templates
          Fixed      \* what a leaf that is no placeholder holds

PROMPT == "PROMPT_PLACEHOLDER"
INPUT_IMAGE == "INPUT_IMAGE_PLACEHOLDER"
FILENAME_PREFIX == "FILENAME_PREFIX_PLACEHOLDER"
SEED == "SEED_PLACEHOLDER"
Placeholders == {PROMPT, INPUT_IMAGE, FILENAME_PREFIX, SEED}

Templates == [Leaves -> Placeholders \cup {Fixed}]

\* Whole strings only, one pass: what a leaf is given is not looked at again.
patch_placeholders(value, subs) ==
  [l \in DOMAIN value |-> IF value[l] \in DOMAIN subs THEN subs[value[l]] ELSE value[l]]

patch_seed_placeholder(value, seed) ==
  [l \in DOMAIN value |-> IF value[l] = SEED THEN seed ELSE value[l]]

build_one_by_one(template, prompt, image, prefix, seed) ==
  LET one(value, s, by) == patch_placeholders(value, [x \in {s} |-> by])
  IN  one(one(one(template, PROMPT, prompt), INPUT_IMAGE, image), FILENAME_PREFIX, prefix)

build_without_seed(template, prompt, image, prefix, seed) ==
  patch_placeholders(template,
    [s \in {PROMPT, INPUT_IMAGE, FILENAME_PREFIX} |->
       IF s = PROMPT THEN prompt ELSE IF s = INPUT_IMAGE THEN image ELSE prefix])

\* Two passes: the second sees the text and names the first has put in.
build_edit_workflow(template, prompt, image, prefix, seed) ==
  patch_seed_placeholder(build_without_seed(template, prompt, image, prefix, seed), seed)

\* What the templates ask for: every placeholder replaced, all at once, and
\* nothing else touched.
Filled(template, prompt, image, prefix, seed) ==
  [l \in DOMAIN template |->
     CASE template[l] = PROMPT          -> prompt
       [] template[l] = INPUT_IMAGE     -> image
       [] template[l] = FILENAME_PREFIX -> prefix
       [] template[l] = SEED            -> seed
       [] OTHER                         -> template[l]]
=============================================================================
