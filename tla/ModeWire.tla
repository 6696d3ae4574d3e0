------------------------------ MODULE ModeWire ------------------------------
(***************************************************************************)
(* A mode is a schema and ascii_mode; outside the engine it is one string, *)
(* the schema's id with or without ":ascii" (rime_mode.c), which lives in  *)
(* buffers of 128 bytes and crosses the worker's channel in hexadecimal    *)
(* (worker_main.c).  This module follows one mode id round: from librime   *)
(* to the host, which keeps it and may ask for it again, to librime and to *)
(* the configuration tree, from which the next session is opened.          *)
(***************************************************************************)
EXTENDS Integers, SequencesExt

CONSTANTS
    Bytes,     \* the bytes of a schema's id
    MaxId,     \* bound on the length of a schema's id
    Width,     \* sizeof mode_id and of schema_id, 128
    Suffix,    \* ":ascii"
    Null,      \* a null pointer
    NotHex     \* a character that is no hexadecimal digit

ASSUME BytesAssumption == Bytes \subseteq 1..255 /\ MaxId \in Nat
ASSUME SuffixAssumption ==
    Suffix \in Seq(Bytes) /\ Suffix # <<>> /\ Width \in Nat \ {0}
ASSUME NotHexAssumption == NotHex \notin 0..15

Ids == Seq(Bytes)
Memories == [id : Ids, schema : Ids, ascii : BOOLEAN]

ASSUME NullAssumption == Null \notin Ids /\ Null \notin Memories

SchemaIds == BoundedSeq(Bytes, MaxId) \ {<<>>}

VARIABLES
    deployed,  \* the schemas librime knows
    schema,    \* the session's schema
    ascii,     \* its option ascii_mode
    tree,      \* engines.rime.schema
    told,      \* the mode id the host keeps of those it was told, with the
               \* mode of that moment, or Null
    asked      \* told if the host asked for it in the last step, else Null

wire == <<deployed, schema, ascii, tree, told, asked>>

WireTypeOK ==
    /\ deployed \subseteq Ids \ {<<>>} /\ schema \in deployed /\ ascii \in BOOLEAN
    /\ tree \in Ids \cup {Null}
    /\ told \in Memories \cup {Null} /\ asked \in {Null, told}

-----------------------------------------------------------------------------
(* The string (rime_mode.c).                                               *)

\* What snprintf and strncpy leave of a string in a buffer.
Truncated(s) == IF Len(s) < Width THEN s ELSE SubSeq(s, 1, Width - 1)

\* rime_fill_status: the suffix goes in whole or not at all.
MarkedInPart(s, a) == Truncated(IF a THEN Truncated(s) \o Suffix ELSE s)
Marked(s, a) ==
    LET t == Truncated(s)
    IN  IF a /\ t # <<>> /\ Len(t) + Len(Suffix) < Width THEN t \o Suffix ELSE t

\* rime_writeback_schema and typio_rime_set_active_mode take it off again;
\* the suffix alone is a schema's name.
HasSuffix(s) ==
    /\ Len(s) > Len(Suffix)
    /\ SubSeq(s, Len(s) - Len(Suffix) + 1, Len(s)) = Suffix
SuffixKept(id) == Truncated(id)
SchemaOf(id) ==
    LET t == Truncated(id)
    IN  IF HasSuffix(t) THEN SubSeq(t, 1, Len(t) - Len(Suffix)) ELSE t
AsciiOfSchema(id) == HasSuffix(SchemaOf(id))
AsciiOf(id) == HasSuffix(Truncated(id))

-----------------------------------------------------------------------------
(* The channel (worker_main.c).                                            *)

\* write_hex: two digits for every byte.
Hex(s) == [k \in 1..2 * Len(s) |->
              LET byte == s[(k + 1) \div 2]
              IN  IF k % 2 = 1 THEN byte \div 16 ELSE byte % 16]

\* decode_hex_string: null for a field of odd length or with another
\* character, else the bytes.
IsHex(field) == Len(field) % 2 = 0 /\ \A k \in DOMAIN field : field[k] \in 0..15
DigitsSwapped(field) ==
    IF IsHex(field)
    THEN [k \in 1..Len(field) \div 2 |-> field[2 * k - 1] + 16 * field[2 * k]]
    ELSE Null
Decoded(field) ==
    IF IsHex(field)
    THEN [k \in 1..Len(field) \div 2 |-> 16 * field[2 * k - 1] + field[2 * k]]
    ELSE Null

-----------------------------------------------------------------------------
(* The life of a mode id.                                                  *)

WireInit ==
    /\ deployed \in {{s, t} : s, t \in SchemaIds}
    /\ schema \in deployed /\ ascii = FALSE
    /\ tree = Null /\ told = Null /\ asked = Null

\* A key or librime's menu changes schema or ascii_mode; the engine
\* publishes, which writes the schema back.
Published == tree' = SchemaOf(Marked(schema', ascii'))

Switch(s, a) ==
    /\ schema' = s /\ ascii' = a
    /\ Published
    /\ asked' = Null
    /\ UNCHANGED <<deployed, told>>

\* An ACTIVE_MODE line; the host undoes the hexadecimal.
Tell ==
    /\ told' = [id |-> Decoded(Hex(Marked(schema, ascii))),
                schema |-> schema, ascii |-> ascii]
    /\ asked' = Null
    /\ UNCHANGED <<deployed, schema, ascii, tree>>

\* handle_set_active_mode and typio_rime_set_active_mode.  A field that does
\* not decode, an empty id and a schema that is not deployed are errors and
\* change nothing.
SetActiveMode(field) ==
    LET id == Decoded(field)
    IN  IF id # Null /\ id # <<>> /\ SchemaOf(id) \in deployed
        THEN schema' = SchemaOf(id) /\ ascii' = AsciiOf(id) /\ Published
        ELSE UNCHANGED <<schema, ascii, tree>>

AskAgain ==
    /\ told # Null
    /\ SetActiveMode(Hex(told.id))
    /\ asked' = told
    /\ UNCHANGED <<deployed, told>>

\* A field that lost its last character, or has another one there.
Garble ==
    /\ told # Null
    /\ LET rest == Front(Hex(told.id))
       IN  \E field \in {rest, Append(rest, NotHex)} : SetActiveMode(field)
    /\ asked' = Null
    /\ UNCHANGED <<deployed, told>>

\* The next process opens its session with the schema of the tree, if there
\* is one and librime knows it (typio_rime_apply_schema); else with librime's
\* choice.
Reopen ==
    /\ IF tree # Null /\ tree \in deployed THEN schema' = tree
                                           ELSE schema' \in deployed
    /\ ascii' = FALSE /\ asked' = Null
    /\ Published
    /\ UNCHANGED <<deployed, told>>

WireNext ==
    \/ \E s \in deployed, a \in BOOLEAN : Switch(s, a)
    \/ Tell \/ AskAgain \/ Garble \/ Reopen

WireSpec == WireInit /\ [][WireNext]_wire

-----------------------------------------------------------------------------
(* Properties.                                                             *)

\* A schema whose name does not end like an ascii mode, and that fits.
Plain(s) == ~HasSuffix(s) /\ Len(s) < Width

\* Asking for a mode the engine told restores that schema, up to the very
\* width of the buffers, where there is no room for the suffix or only for a
\* part of it (rime_mode.c:64, 201).
SchemaIsRestored ==
    [][asked' # Null /\ Plain(asked'.schema) => schema' = asked'.schema]_wire

\* It restores ascii_mode too, unless the id is too long for the suffix.
AsciiIsRestored ==
    [][/\ asked' # Null /\ Plain(asked'.schema)
       /\ Len(asked'.schema) + Len(Suffix) < Width
       => ascii' = asked'.ascii]_wire

\* The tree never names anything but the session's schema, so that no other
\* schema is opened next time, whichever mode was published (rime_mode.c:108).
TreeNamesSchema == tree # Null /\ Plain(schema) => tree = schema

=============================================================================
