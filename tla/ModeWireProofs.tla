--------------------------- MODULE ModeWireProofs ---------------------------
(***************************************************************************)
(* Proofs about ModeWire for every set of bytes, every suffix and every    *)
(* width of the buffers.  Two lemmas carry them: hexadecimal loses         *)
(* nothing, and the suffix comes off a plain schema exactly when it went   *)
(* on.                                                                     *)
(***************************************************************************)
EXTENDS ModeWire, SequenceTheorems, TLAPS

\* A byte and its two digits.
LEMMA Digits ==
  ASSUME NEW b \in 1..255
  PROVE  /\ b \div 16 \in 0..15 /\ b % 16 \in 0..15
         /\ 16 * (b \div 16) + (b % 16) = b
OBVIOUS

\* The two functions of the channel are inverse (worker_main.c:36, 56).
LEMMA HexIsUndone == ASSUME NEW s \in Ids PROVE Decoded(Hex(s)) = s
<1> DEFINE h == Hex(s)
<1>1. Len(s) \in Nat /\ \A k \in 1..Len(s) : s[k] \in 1..255
  <2>1. Len(s) \in Nat /\ \A k \in 1..Len(s) : s[k] \in Bytes
    BY DEF Ids
  <2>2. Bytes \subseteq 1..255
    BY BytesAssumption
  <2> QED
    BY <2>1, <2>2
<1>2. \A k \in 1..2 * Len(s) : (k + 1) \div 2 \in 1..Len(s)
  BY <1>1
<1>3. \A k \in 1..2 * Len(s) : h[k] \in 0..15
  <2> SUFFICES ASSUME NEW k \in 1..2 * Len(s) PROVE h[k] \in 0..15
    OBVIOUS
  <2>1. s[(k + 1) \div 2] \in 1..255
    BY <1>1, <1>2
  <2>2. s[(k + 1) \div 2] \div 16 \in 0..15 /\ s[(k + 1) \div 2] % 16 \in 0..15
    BY <2>1, Digits
  <2>3. \/ h[k] = s[(k + 1) \div 2] \div 16
        \/ h[k] = s[(k + 1) \div 2] % 16
    BY DEF Hex
  <2> QED
    BY <2>2, <2>3
<1>4. DOMAIN h = 1..2 * Len(s) /\ Len(h) = 2 * Len(s)
  <2>1. h \in Seq(0..15) /\ DOMAIN h = 1..2 * Len(s)
    <3>1. \A k \in 1..2 * Len(s) : h[k] \in 0..15
      BY <1>3
    <3>2. h = [k \in 1..2 * Len(s) |-> h[k]]
      BY DEF Hex
    <3> HIDE DEF h
    <3>3. 2 * Len(s) \in Nat
      BY <1>1
    <3> QED
      BY <3>1, <3>2, <3>3, SeqDef
  <2> HIDE DEF h
  <2> QED
    BY <1>1, <2>1
<1>5. \A k \in 1..Len(s) : 16 * h[2 * k - 1] + h[2 * k] = s[k]
  <2> SUFFICES ASSUME NEW k \in 1..Len(s)
               PROVE  16 * h[2 * k - 1] + h[2 * k] = s[k]
    OBVIOUS
  <2>1. /\ 2 * k - 1 \in 1..2 * Len(s) /\ 2 * k \in 1..2 * Len(s)
        /\ (2 * k - 1) % 2 = 1 /\ (2 * k) % 2 = 0
        /\ (2 * k - 1 + 1) \div 2 = k /\ (2 * k + 1) \div 2 = k
    BY <1>1
  <2>2. h[2 * k - 1] = s[k] \div 16 /\ h[2 * k] = s[k] % 16
    BY <2>1 DEF Hex
  <2> HIDE DEF h
  <2>3. s[k] \in 1..255
    BY <1>1
  <2>4. 16 * (s[k] \div 16) + (s[k] % 16) = s[k]
    BY <2>3, Digits
  <2> QED
    BY <2>2, <2>4
<1> HIDE DEF h
<1>6. IsHex(h)
  BY <1>1, <1>3, <1>4 DEF IsHex
<1>7. Decoded(h) = [k \in 1..Len(s) |-> 16 * h[2 * k - 1] + h[2 * k]]
  <2>1. Len(h) \div 2 = Len(s)
    BY <1>1, <1>4
  <2> QED
    BY <1>6, <2>1 DEF Decoded
<1>8. Decoded(h) = [k \in 1..Len(s) |-> s[k]]
  BY <1>5, <1>7
<1> QED
  BY <1>8 DEF h, Ids

\* What fits is not cut, and what is cut stays a string.
LEMMA TruncatedString ==
  ASSUME NEW s \in Ids
  PROVE  /\ Truncated(s) \in Ids
         /\ Len(s) < Width => Truncated(s) = s
         /\ s # <<>> /\ Width > 1 => Truncated(s) # <<>>
BY SuffixAssumption DEF Truncated, Ids

LEMMA MarkedString ==
  ASSUME NEW s \in Ids, NEW a \in BOOLEAN
  PROVE  Marked(s, a) \in Ids
BY TruncatedString, SuffixAssumption DEF Marked, Ids

LEMMA SchemaString == ASSUME NEW id \in Ids PROVE SchemaOf(id) \in Ids
BY TruncatedString, SuffixAssumption DEF SchemaOf, HasSuffix, Ids

\* Taking the suffix off gives back the schema, and tells whether it was put
\* on, for every plain schema up to the width of the buffer.
LEMMA SuffixIsUndone ==
  ASSUME NEW s \in Ids, s # <<>>, Plain(s), NEW a \in BOOLEAN
  PROVE  /\ SchemaOf(Marked(s, a)) = s
         /\ Len(s) + Len(Suffix) < Width => AsciiOf(Marked(s, a)) = a
<1> DEFINE n == Len(s)
           m == Len(Suffix)
           w == s \o Suffix
<1>1. /\ n \in Nat /\ n > 0 /\ m \in Nat /\ m > 0 /\ Width \in Nat
      /\ n < Width /\ Suffix \in Ids /\ ~HasSuffix(s)
  BY SuffixAssumption DEF Ids, Plain
<1>2. Truncated(s) = s
  BY <1>1, TruncatedString
<1>3. CASE a /\ n + m < Width
  <2>1. Marked(s, a) = w
    BY <1>2, <1>3 DEF Marked
  <2>2. w \in Ids /\ Len(w) = n + m
    BY <1>1 DEF Ids
  <2>3. Truncated(w) = w
    BY <1>3, <2>2, TruncatedString
  <2>4. SubSeq(w, Len(w) - m + 1, Len(w)) = Suffix
    BY <1>1, <2>2 DEF Ids
  <2>5. SubSeq(w, 1, Len(w) - m) = s
    BY <1>1, <2>2 DEF Ids
  <2>6. HasSuffix(w)
    BY <1>1, <2>2, <2>4 DEF HasSuffix
  <2> HIDE DEF n, m, w
  <2>7. SchemaOf(w) = s
    BY <2>3, <2>5, <2>6 DEF SchemaOf, m
  <2>8. AsciiOf(w) = a
    <3>1. HasSuffix(w) \in BOOLEAN /\ HasSuffix(w)
      BY <2>6 DEF HasSuffix
    <3>2. a = TRUE
      BY <1>3
    <3> QED
      BY <2>3, <3>1, <3>2, Zenon DEF AsciiOf
  <2> QED
    BY <2>1, <2>7, <2>8
<1>4. CASE ~(a /\ n + m < Width)
  <2>1. Marked(s, a) = s
    BY <1>2, <1>4 DEF Marked
  <2> HIDE DEF n, m, w
  <2>2. SchemaOf(s) = s
    BY <1>1, <1>2 DEF SchemaOf
  <2>3. n + m < Width => AsciiOf(s) = a
    <3>1. HasSuffix(s) = FALSE
      BY <1>1 DEF HasSuffix
    <3>2. n + m < Width => a = FALSE
      BY <1>4
    <3> QED
      BY <1>2, <3>1, <3>2, Zenon DEF AsciiOf
  <2> QED
    BY <2>1, <2>2, <2>3 DEF n, m
<1> QED
  BY <1>3, <1>4

-----------------------------------------------------------------------------

\* What the host keeps is the string of a mode of a deployed schema.
TrueMemory ==
    told # Null => /\ told.id = Marked(told.schema, told.ascii)
                   /\ told.schema \in deployed

WireInv == WireTypeOK /\ TrueMemory /\ TreeNamesSchema

LEMMA WireInitially == WireInit => WireInv
<1> SUFFICES ASSUME WireInit PROVE WireInv
  OBVIOUS
<1>1. deployed \subseteq Ids \ {<<>>}
  <2>1. PICK s \in SchemaIds, t \in SchemaIds : deployed = {s, t}
    BY DEF WireInit
  <2>2. SchemaIds \subseteq Ids \ {<<>>}
    BY SeqDef DEF SchemaIds, BoundedSeq, SeqOf, Ids
  <2> QED
    BY <2>1, <2>2
<1>2. WireTypeOK
  <2>1. schema \in deployed /\ ascii \in BOOLEAN
    <3>1. schema \in deployed
      BY DEF WireInit
    <3>2. ascii = FALSE
      BY DEF WireInit
    <3> QED
      BY <3>1, <3>2
  <2>2. tree = Null /\ told = Null /\ asked = Null
    BY DEF WireInit
  <2> QED
    BY <1>1, <2>1, <2>2, Zenon DEF WireTypeOK
<1> QED
  BY <1>2 DEF WireInit, WireInv, TrueMemory, TreeNamesSchema

\* A published mode leaves a string in the tree, the schema's if it is plain.
LEMMA PublishedTree ==
  ASSUME schema' \in Ids \ {<<>>}, ascii' \in BOOLEAN, Published
  PROVE  tree' \in Ids /\ TreeNamesSchema'
<1>1. tree' = SchemaOf(Marked(schema', ascii'))
  BY DEF Published
<1>2. tree' \in Ids
  BY <1>1, MarkedString, SchemaString
<1>3. Plain(schema') => tree' = schema'
  BY <1>1, SuffixIsUndone
<1> QED
  BY <1>2, <1>3 DEF TreeNamesSchema

LEMMA SetActiveModeKeeps ==
  ASSUME WireInv, NEW field, SetActiveMode(field), UNCHANGED deployed
  PROVE  /\ schema' \in deployed /\ ascii' \in BOOLEAN
         /\ tree' \in Ids \cup {Null} /\ TreeNamesSchema'
<1> DEFINE id == Decoded(field)
<1>1. CASE id # Null /\ id # <<>> /\ SchemaOf(id) \in deployed
  <2>1. schema' = SchemaOf(id) /\ ascii' = AsciiOf(id) /\ Published
    BY <1>1 DEF SetActiveMode
  <2>2. schema' \in Ids \ {<<>>}
    BY <1>1, <2>1 DEF WireInv, WireTypeOK
  <2>3. ascii' \in BOOLEAN
    BY <2>1 DEF AsciiOf, HasSuffix
  <2> QED
    BY <1>1, <2>1, <2>2, <2>3, PublishedTree
<1>2. CASE ~(id # Null /\ id # <<>> /\ SchemaOf(id) \in deployed)
  <2>1. UNCHANGED <<schema, ascii, tree>>
    BY <1>2 DEF SetActiveMode
  <2> QED
    BY <2>1 DEF WireInv, WireTypeOK, TreeNamesSchema
<1> QED
  BY <1>1, <1>2

LEMMA WireStep == WireInv /\ [WireNext]_wire => WireInv'
<1> SUFFICES ASSUME WireInv, [WireNext]_wire PROVE WireInv'
  OBVIOUS
<1> USE DEF WireInv
<1>1. ASSUME NEW s \in deployed, NEW a \in BOOLEAN, Switch(s, a) PROVE WireInv'
  <2>1. schema' \in Ids \ {<<>>} /\ ascii' \in BOOLEAN /\ Published
    BY <1>1 DEF Switch, WireTypeOK
  <2>2. tree' \in Ids /\ TreeNamesSchema'
    BY <2>1, PublishedTree
  <2> QED
    BY <1>1, <2>1, <2>2 DEF Switch, WireTypeOK, TrueMemory
<1>2. CASE Tell
  <2>1. Marked(schema, ascii) \in Ids /\ schema \in Ids /\ ascii \in BOOLEAN
    BY MarkedString DEF WireTypeOK
  <2>2. told' = [id |-> Marked(schema, ascii), schema |-> schema, ascii |-> ascii]
    BY <1>2, <2>1, HexIsUndone DEF Tell
  <2>3. told' \in Memories
    BY <2>1, <2>2 DEF Memories
  <2> QED
    BY <1>2, <2>2, <2>3 DEF Tell, WireTypeOK, TrueMemory, TreeNamesSchema
<1>3. CASE AskAgain
  <2>1. /\ schema' \in deployed /\ ascii' \in BOOLEAN
        /\ tree' \in Ids \cup {Null} /\ TreeNamesSchema'
    BY <1>3, SetActiveModeKeeps DEF AskAgain
  <2> QED
    BY <1>3, <2>1 DEF AskAgain, WireTypeOK, TrueMemory
<1>4. CASE Garble
  <2>1. /\ schema' \in deployed /\ ascii' \in BOOLEAN
        /\ tree' \in Ids \cup {Null} /\ TreeNamesSchema'
    <3>1. PICK field : SetActiveMode(field)
      BY <1>4 DEF Garble
    <3> QED
      BY <1>4, <3>1, SetActiveModeKeeps DEF Garble
  <2> QED
    BY <1>4, <2>1 DEF Garble, WireTypeOK, TrueMemory
<1>5. CASE Reopen
  <2>1. schema' \in deployed /\ ascii' \in BOOLEAN /\ Published
    BY <1>5 DEF Reopen
  <2>2. tree' \in Ids /\ TreeNamesSchema'
    BY <2>1, PublishedTree DEF WireTypeOK
  <2> QED
    BY <1>5, <2>1, <2>2 DEF Reopen, WireTypeOK, TrueMemory
<1>6. CASE UNCHANGED wire
  BY <1>6 DEF wire, WireTypeOK, TrueMemory, TreeNamesSchema
<1> QED
  BY <1>1, <1>2, <1>3, <1>4, <1>5, <1>6 DEF WireNext

LEMMA WireInvariant == WireSpec => []WireInv
<1> QED
  BY WireInitially, WireStep, PTL DEF WireSpec

\* Type correctness: no conversion leaves the strings of bytes, whatever the
\* lengths and the suffix (rime_mode.c:64, worker_main.c:56).
THEOREM WireTypeCorrect == WireSpec => []WireTypeOK
<1>1. WireInv => WireTypeOK
  BY DEF WireInv
<1> QED
  BY <1>1, WireInvariant, PTL

\* A plain schema that is published is the one the tree names, for every
\* width and suffix (rime_mode.c:108).
THEOREM TreeAlwaysNamesSchema == WireSpec => []TreeNamesSchema
<1>1. WireInv => TreeNamesSchema
  BY DEF WireInv
<1> QED
  BY <1>1, WireInvariant, PTL

\* What a step that asks for a kept mode does.
LEMMA AskedMode ==
  ASSUME WireInv, WireNext, asked' # Null, Plain(asked'.schema)
  PROVE  /\ schema' = asked'.schema
         /\ Len(asked'.schema) + Len(Suffix) < Width => ascii' = asked'.ascii
<1>1. told # Null /\ SetActiveMode(Hex(told.id)) /\ asked' = told
  BY DEF WireNext, Switch, Tell, AskAgain, Garble, Reopen
<1>2. told.id \in Ids /\ told.schema \in Ids \ {<<>>} /\ told.ascii \in BOOLEAN
  BY <1>1 DEF WireInv, WireTypeOK, TrueMemory, Memories
<1>3. Decoded(Hex(told.id)) = told.id
  BY <1>2, HexIsUndone
<1>4. told.id = Marked(told.schema, told.ascii) /\ told.schema \in deployed
  BY <1>1 DEF WireInv, TrueMemory
<1>5. /\ SchemaOf(told.id) = told.schema
      /\ Len(told.schema) + Len(Suffix) < Width => AsciiOf(told.id) = told.ascii
  BY <1>1, <1>2, <1>4, SuffixIsUndone
<1>6. told.id # Null /\ told.id # <<>>
  <2>1. told.id # Null
    BY <1>2, NullAssumption
  <2>2. told.id # <<>>
    <3>1. ASSUME told.id = <<>> PROVE FALSE
      <4>1. Truncated(<<>>) = <<>> /\ Len(<<>>) = 0
        BY SuffixAssumption DEF Truncated
      <4>2. SchemaOf(<<>>) = <<>>
        BY <4>1, SuffixAssumption DEF SchemaOf, HasSuffix
      <4> QED
        BY <1>2, <1>5, <3>1, <4>2
    <3> QED
      BY <3>1
  <2> QED
    BY <2>1, <2>2
<1> QED
  BY <1>1, <1>3, <1>4, <1>5, <1>6 DEF SetActiveMode

\* Asking for a mode the engine told restores the schema, whatever happened
\* in between and up to the width of the buffers (rime_mode.c:201).
THEOREM SchemaIsAlwaysRestored == WireSpec => SchemaIsRestored
<1>1. WireInv /\ [WireNext]_wire
        => [asked' # Null /\ Plain(asked'.schema) => schema' = asked'.schema]_wire
  BY AskedMode
<1> QED
  BY <1>1, WireInvariant, PTL DEF WireSpec, SchemaIsRestored

\* And ascii_mode with it, if the suffix had room.
THEOREM AsciiIsAlwaysRestored == WireSpec => AsciiIsRestored
<1>1. WireInv /\ [WireNext]_wire
        => [/\ asked' # Null /\ Plain(asked'.schema)
            /\ Len(asked'.schema) + Len(Suffix) < Width
            => ascii' = asked'.ascii]_wire
  BY AskedMode
<1> QED
  BY <1>1, WireInvariant, PTL DEF WireSpec, AsciiIsRestored

=============================================================================
