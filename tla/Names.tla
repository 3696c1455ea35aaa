------------------------------- MODULE Names -------------------------------
(***************************************************************************)
(* How the host names its players: crates/proto/src/lib.rs, `unique_name`  *)
(* and `with_suffix`.                                                      *)
(*                                                                         *)
(* A name is the text a player asked for (`head`, one value per distinct   *)
(* sanitized text) followed by the " #n" tags it carries.  A player may    *)
(* ask for a name that already carries tags ("bob #2"), and the suffix is  *)
(* appended to whatever was asked for.  TagRoom stands for the byte limit  *)
(* MAX_NAME_BYTES: a name whose room is used up loses its last tag to make *)
(* room for the new one, which is how two different requests can compete   *)
(* for one candidate.                                                      *)
(***************************************************************************)
EXTENDS Naturals, Sequences, FiniteSets

CONSTANTS
  Heads,      \* the distinct texts a player can ask to be called
  TagRoom     \* how many " #n" tags fit into MAX_NAME_BYTES

ASSUME TagRoomAssumption == TagRoom \in Nat \ {0}

PlayerNames == [head : Heads, tags : Seq(Nat)]

\* `base` plus " #n", the end of `base` cut off when the whole would not fit.
WithSuffix(base, n) ==
  LET kept == IF Len(base.tags) < TagRoom
              THEN base.tags
              ELSE SubSeq(base.tags, 1, TagRoom - 1)
  IN  [head |-> base.head, tags |-> Append(kept, n)]

\* What a whisper calls a player: the name up to its first white space.  A text
\* is one word; every tag begins with a space.
FirstWord(name) == [name EXCEPT !.tags = << >>]

\* Faulty variant: nobody looks whether the candidate is taken too.
AllSuffixes(desired, taken) == 2 .. Cardinality(taken) + 2

\* The suffixes whose candidate nobody in `taken` has.  The code counts up from
\* 2 without a bound; one of the first Cardinality(taken) + 1 candidates is
\* always free, because different suffixes make different names.
FreeSuffixes(desired, taken) ==
  {n \in 2 .. Cardinality(taken) + 2 : WithSuffix(desired, n) \notin taken}

\* The request itself when nobody has it, else the first free candidate.
UniqueName(desired, taken) ==
  IF desired \notin taken
  THEN desired
  ELSE LET free == FreeSuffixes(desired, taken)
       IN  WithSuffix(desired, CHOOSE n \in free : \A m \in free : n <= m)

=============================================================================
