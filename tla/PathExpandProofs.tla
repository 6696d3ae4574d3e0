-------------------------- MODULE PathExpandProofs --------------------------
(***************************************************************************)
(* Proofs about PathExpand for every alphabet, environment and length.     *)
(***************************************************************************)
EXTENDS PathExpand, SequenceTheorems, WellFoundedInduction, TLAPS

\* A nonempty set of naturals has a least element.
LEMMA Least ==
  ASSUME NEW T, T \subseteq Nat, T # {}
  PROVE  \E x \in T : \A y \in T : x <= y
<1>1. PICK x \in T : \A y \in T : ~(<<y, x>> \in OpToRel(<, Nat))
  BY NatLessThanWellFounded, WFMin
<1>2. \A y \in T : y < x => <<y, x>> \in OpToRel(<, Nat)
  <2> SUFFICES ASSUME NEW y \in T, y < x PROVE <<y, x>> \in OpToRel(<, Nat)
    OBVIOUS
  <2>1. <<y, x>> \in Nat \X Nat /\ <<y, x>>[1] < <<y, x>>[2]
    OBVIOUS
  <2> QED
    BY <2>1, Zenon DEF OpToRel
<1>3. \A y \in T : ~(y < x)
  BY <1>1, <1>2, Zenon
<1>4. \A y \in T : x \in Nat /\ y \in Nat
  OBVIOUS
<1> QED
  BY <1>3, <1>4

\* A set of naturals that has m, and k + 1 with every k below n, has them all.
LEMMA Upwards ==
  ASSUME NEW m \in Nat, NEW n \in Nat, NEW T, m \in T,
         \A k \in m .. n - 1 : k \in T => k + 1 \in T
  PROVE  m..n \subseteq T
<1> DEFINE missing == {k \in m..n : k \notin T}
<1> SUFFICES ASSUME missing # {} PROVE FALSE
  OBVIOUS
<1>1. missing \subseteq Nat
  OBVIOUS
<1>2. PICK x \in missing : \A y \in missing : x <= y
  BY <1>1, Least
<1>3. x \in m..n /\ x # m /\ x \in Nat
  BY <1>2
<1>4. x - 1 \in m .. n - 1 /\ x - 1 \in m..n /\ ~(x <= x - 1) /\ x - 1 + 1 = x
  BY <1>3
<1>5. x - 1 \in T
  BY <1>2, <1>4
<1> QED
  BY <1>2, <1>4, <1>5

\* f has the value v at m, and then step gives each value from the one before.
Iterates(f, m, n, v, step) ==
    f[m] = v /\ \A k \in m + 1 .. n : f[k] = step[f[k - 1], k]

\* There is such a function: what a recursive definition needs to mean what
\* it says.
LEMMA FiniteRecursion ==
  ASSUME NEW m \in Nat, NEW n \in Nat, m <= n, NEW V, NEW v \in V,
         NEW step \in [V \X (m + 1 .. n) -> V]
  PROVE  \E f \in [m..n -> V] : Iterates(f, m, n, v, step)
<1> DEFINE Upto(k, f) == Iterates(f, m, k, v, step)
           T == {k \in m..n : \E f \in [m..k -> V] : Upto(k, f)}
<1>1. m \in T
  <2> DEFINE f == [k \in m..m |-> v]
  <2>1. f \in [m..m -> V] /\ f[m] = v /\ m + 1 .. m = {} /\ m \in m..n
    OBVIOUS
  <2> HIDE DEF f
  <2>2. Upto(m, f)
    BY <2>1 DEF Iterates
  <2> QED
    BY <2>1, <2>2
<1>2. ASSUME NEW k \in m .. n - 1, k \in T PROVE k + 1 \in T
  <2>1. PICK f \in [m..k -> V] : Upto(k, f)
    BY <1>2
  <2>2. /\ m \in Nat /\ n \in Nat /\ k \in Nat /\ m <= k /\ k + 1 <= n
        /\ m \in m..k /\ k \in m..k
        /\ k + 1 \in m + 1 .. n /\ k + 1 \in m..n
    OBVIOUS
  <2> DEFINE next == step[<<f[k], k + 1>>]
             g == [j \in m .. k + 1 |-> IF j = k + 1 THEN next ELSE f[j]]
  <2>3. next \in V
    <3>1. f[k] \in V
      BY <2>1, <2>2
    <3>2. <<f[k], k + 1>> \in V \X (m + 1 .. n)
      BY <2>2, <3>1
    <3> QED
      BY <3>2
  <2> HIDE DEF next
  <2>4. \A j \in m..k : f[j] \in V /\ j \in m .. k + 1 /\ j # k + 1
    <3>1. \A j \in m..k : f[j] \in V
      BY <2>1
    <3>2. \A j \in m..k : j \in m .. k + 1 /\ j # k + 1
      BY <2>2
    <3> QED
      BY <3>1, <3>2
  <2>5. \A j \in m .. k + 1 : j = k + 1 \/ j \in m..k
    BY <2>2
  <2>6. g \in [m .. k + 1 -> V]
    BY <2>3, <2>4, <2>5
  <2>7. \A j \in m..k : g[j] = f[j]
    BY <2>4
  <2>8. g[k + 1] = next
    BY <2>2
  <2> HIDE DEF g
  <2>9. g[m] = v
    BY <2>1, <2>2, <2>7 DEF Iterates
  <2>10. ASSUME NEW j \in m + 1 .. k + 1 PROVE g[j] = step[g[j - 1], j]
    <3>1. CASE j = k + 1
      <4>1. j - 1 = k
        BY <2>2, <3>1
      <4>2. g[j - 1] = f[k]
        BY <2>2, <2>7, <4>1
      <4> QED
        BY <2>8, <3>1, <4>2 DEF next
    <3>2. CASE j # k + 1
      <4>1. j \in m + 1 .. k /\ j \in m..k /\ j - 1 \in m..k
        BY <2>2, <3>2
      <4>2. f[j] = step[f[j - 1], j]
        BY <2>1, <4>1 DEF Iterates
      <4> QED
        BY <2>7, <4>1, <4>2
    <3> QED
      BY <3>1, <3>2
  <2>11. Upto(k + 1, g)
    BY <2>9, <2>10 DEF Iterates
  <2> QED
    BY <2>2, <2>6, <2>11
<1>3. m..n \subseteq T
  <2> HIDE DEF T
  <2> QED
    BY <1>1, <1>2, Upwards
<1>4. n \in T
  <2>1. n \in m..n
    OBVIOUS
  <2> HIDE DEF T
  <2> QED
    BY <1>3, <2>1
<1> QED
  BY <1>4

-----------------------------------------------------------------------------
(* The buffer grows to what is required.                                   *)

LEMMA GrownIsEnough ==
  ASSUME capacity \in Nat, NEW required \in Nat
  PROVE  Grown(required) \in Nat /\ Grown(required) >= required
<1> DEFINE from == IF capacity = 0 THEN FirstSize ELSE capacity
           Positive == Nat \ {0}
           step == [x \in Positive \X (0 + 1 .. required) |->
                      IF x[1] < required THEN 2 * x[1] ELSE x[1]]
           Loop(f) == [k \in 0..required |->
                         IF k = 0 THEN from
                         ELSE IF f[k - 1] < required THEN 2 * f[k - 1]
                         ELSE f[k - 1]]
           size == CHOOSE f : f = Loop(f)
<1>1. from \in Positive
  BY SizeAssumption
<1>2. step \in [Positive \X (0 + 1 .. required) -> Positive]
  OBVIOUS
<1> HIDE DEF from
<1>3. PICK f \in [0..required -> Positive] :
         Iterates(f, 0, required, from, step)
  <2>1. 0 \in Nat /\ 0 <= required
    OBVIOUS
  <2> HIDE DEF step, Positive
  <2> QED
    BY <1>1, <1>2, <2>1, FiniteRecursion
<1>4. f = Loop(f)
  <2>1. ASSUME NEW k \in 0..required, k # 0
        PROVE  f[k] = IF f[k - 1] < required THEN 2 * f[k - 1] ELSE f[k - 1]
    <3>1. k - 1 \in 0..required /\ k \in 0 + 1 .. required
      BY <2>1
    <3>2. f[k - 1] \in Positive
      <4> HIDE DEF Positive
      <4> QED
        BY <1>3, <3>1
    <3>3. <<f[k - 1], k>> \in Positive \X (0 + 1 .. required)
      BY <3>1, <3>2
    <3>4. f[k] = step[f[k - 1], k]
      BY <1>3, <3>1 DEF Iterates
    <3> QED
      BY <3>3, <3>4
  <2>2. f = [k \in 0..required |-> f[k]]
    <3> HIDE DEF step, Positive
    <3> QED
      BY <1>3
  <2>3. f[0] = from
    BY <1>3 DEF Iterates
  <2> QED
    BY <2>1, <2>2, <2>3
<1>5. size = Loop(size)
  BY <1>4
<1>6. Grown(required) = size[required]
  BY DEF Grown, from
<1> HIDE DEF size
<1> DEFINE T == {k \in 0..required :
                   size[k] \in Nat /\ (size[k] >= required \/ size[k] > k)}
<1>7. 0 \in T
  BY <1>1, <1>5
<1>8. ASSUME NEW k \in 0 .. required - 1, k \in T PROVE k + 1 \in T
  <2>1. size[k + 1] = IF size[k] < required THEN 2 * size[k] ELSE size[k]
    BY <1>5
  <2> QED
    BY <1>8, <2>1
<1>9. required \in T
  <2> HIDE DEF T
  <2>1. 0..required \subseteq T
    BY <1>7, <1>8, Upwards
  <2> QED
    BY <2>1
<1> QED
  BY <1>6, <1>9

-----------------------------------------------------------------------------
(* The tokens end where the code says, within the path.                    *)

LEMMA BracedEndExists ==
  ASSUME path \in Text, NEW i \in 1..Len(path), IsBraced(i)
  PROVE  /\ BracedEnd(i) \in i + 2 .. Len(path)
         /\ BracedEnd(i) \in Closings(i)
         /\ \A k \in Closings(i) : BracedEnd(i) <= k
<1>1. Closings(i) \subseteq Nat /\ Closings(i) # {}
  <2>1. Closings(i) \subseteq Nat
    <3>1. Len(path) \in Nat
      BY DEF Text
    <3>2. Closings(i) \subseteq i + 2 .. Len(path)
      BY DEF Closings
    <3>3. i + 2 .. Len(path) \subseteq Nat
      BY <3>1
    <3> QED
      BY <3>2, <3>3
  <2>2. Closings(i) # {}
    BY DEF IsBraced
  <2> QED
    BY <2>1, <2>2
<1>2. \E j \in Closings(i) : \A k \in Closings(i) : j <= k
  BY <1>1, Least
<1>3. BracedEnd(i) \in Closings(i) /\ \A k \in Closings(i) : BracedEnd(i) <= k
  BY <1>2 DEF BracedEnd
<1> QED
  BY <1>3 DEF Closings

\* A name goes on to the character before the first that belongs to no name.
LEMMA BareEndExists ==
  ASSUME path \in Text, NEW i \in 1..Len(path), IsBare(i)
  PROVE  /\ BareEnd(i) \in i + 1 .. Len(path)
         /\ ~IsVarChar(BareEnd(i) + 1)
         /\ \A k \in i + 1 .. BareEnd(i) : IsVarChar(k)
<1> DEFINE beyond == {j \in i + 2 .. Len(path) + 1 : ~IsVarChar(j)}
<1>1. Len(path) \in Nat /\ i < Len(path)
  BY DEF IsBare, Text
<1>2. beyond \subseteq Nat /\ Len(path) + 1 \in beyond
  BY <1>1 DEF IsVarChar
<1>3. PICK e \in beyond : \A j \in beyond : e <= j
  BY <1>2, Least
<1>4. IsVarChar(i + 1)
  BY DEF IsBare, IsVarStart, IsVarChar
<1>5. e - 1 \in i + 1 .. Len(path) /\ ~IsVarChar(e - 1 + 1)
  BY <1>1, <1>3
<1>6. \A k \in i + 1 .. e - 1 : IsVarChar(k)
  <2> SUFFICES ASSUME NEW k \in i + 1 .. e - 1 PROVE IsVarChar(k)
    OBVIOUS
  <2>1. k = i + 1 \/ k \in i + 2 .. Len(path) + 1
    BY <1>1, <1>5
  <2>2. ~(e <= k)
    BY <1>1, <1>5
  <2> QED
    BY <1>3, <1>4, <2>1, <2>2
<1>7. \E j \in i + 1 .. Len(path) :
         ~IsVarChar(j + 1) /\ \A k \in i + 1 .. j : IsVarChar(k)
  BY <1>5, <1>6
<1> QED
  BY <1>7 DEF BareEnd

\* A part of a path is a text.
LEMMA TokenIsText ==
  ASSUME NEW p \in Text, NEW i \in 1..Len(p) + 1, NEW j \in 0..Len(p)
  PROVE  SubSeq(p, i, j) \in Text
<1>1. Len(p) \in Nat
  BY DEF Text
<1>2. i \in Int /\ j \in Int
  BY <1>1
<1>3. \A k \in i..j : p[k] \in Chars
  <2>1. \A k \in i..j : k \in 1..Len(p)
    BY <1>1
  <2> QED
    BY <2>1, ElementOfSeq DEF Text
<1> QED
  BY <1>2, <1>3, SubSeqProperties DEF Text

\* A path with a home has the ~ for it.
LEMMA HomeIsWritten ==
  ASSUME path \in Text, HasHome
  PROVE  Len(path) >= 1 /\ path[1] = "~" /\ (Len(path) = 1 \/ path[2] = "/")
<1>1. CASE path = <<"~">>
  <2>1. Len(<<"~">>) = 1 /\ <<"~">>[1] = "~"
    OBVIOUS
  <2> QED
    BY <1>1, <2>1
<1>2. CASE IsPrefix(<<"~", "/">>, path)
  <2> DEFINE q == <<"~", "/">>
  <2>1. q \in Seq({"~", "/"}) /\ Len(q) = 2 /\ q[1] = "~" /\ q[2] = "/"
    OBVIOUS
  <2> HIDE DEF q
  <2>2. /\ Len(path) \in Nat /\ 2 <= Len(path)
        /\ SubSeq(q, 1, 2) = SubSeq(path, 1, 2)
    <3>1. IsPrefix(q, path)
      BY <1>2 DEF q
    <3> QED
      BY <2>1, <3>1 DEF IsPrefix, Text
  <2>3. SubSeq(path, 1, 2)[1] = path[1] /\ SubSeq(path, 1, 2)[2] = path[2]
    BY <2>2 DEF Text
  <2>4. SubSeq(q, 1, 2)[1] = q[1] /\ SubSeq(q, 1, 2)[2] = q[2]
    BY <2>1
  <2> QED
    BY <2>1, <2>2, <2>3, <2>4
<1> QED
  BY <1>1, <1>2 DEF HasHome

-----------------------------------------------------------------------------
(* With nothing set, what was scanned so far is what was written so far.   *)

ScanInv ==
    /\ path \in Text
    /\ at \in 1..Len(path) + 1
    /\ scan \in {"tilde", "loop", "done", "null"}
    /\ NothingSet /\ scan \in {"tilde", "loop"} => expanded = SubSeq(path, 1, at - 1)
    /\ KeptVerbatim

\* A variable that is unset or empty leaves its token.
LEMMA TokenStays ==
  ASSUME NothingSet, NEW name, NEW token
  PROVE  Substitute(name, token) = token
BY DEF NothingSet, Value, Substitute

LEMMA ScanInitially == PathInit => ScanInv
<1> SUFFICES ASSUME PathInit PROVE ScanInv
  OBVIOUS
<1>1. path \in Text
  BY SeqDef DEF PathInit, BoundedSeq, SeqOf, Text
<1>2. SubSeq(path, 1, 0) = <<>>
  BY SubSeqEmpty
<1> QED
  BY <1>1, <1>2 DEF PathInit, ScanInv, KeptVerbatim, Text

\* One turn that appends the characters it consumed.
LEMMA TurnKeeps ==
  ASSUME ScanInv, scan = "loop", at <= Len(path),
         NEW last \in at..Len(path), NEW bytes, Turn(last, bytes),
         NothingSet => bytes = SubSeq(path, at, last)
  PROVE  ScanInv'
<1>1. /\ path \in Text /\ Len(path) \in Nat /\ at \in 1..Len(path)
      /\ at' = last + 1 /\ path' = path /\ env' = env /\ scan' = "loop"
      /\ expanded' = expanded \o bytes
  BY DEF ScanInv, Turn, Appended, Text
<1>2. at' \in 1..Len(path') + 1
  BY <1>1
<1>3. ASSUME NothingSet' PROVE expanded' = SubSeq(path', 1, at' - 1)
  <2>1. NothingSet
    BY <1>1, <1>3 DEF NothingSet
  <2>2. expanded = SubSeq(path, 1, at - 1) /\ bytes = SubSeq(path, at, last)
    BY <2>1 DEF ScanInv
  <2>3. /\ 1 \in 1..Len(path) + 1 /\ at - 1 \in 1 - 1 .. Len(path)
        /\ last \in at - 1 .. Len(path) /\ at - 1 + 1 = at
    BY <1>1
  <2>4. SubSeq(path, 1, at - 1) \o SubSeq(path, at - 1 + 1, last)
          = SubSeq(path, 1, last)
    BY <1>1, <2>3, ConcatAdjacentSubSeq DEF Text
  <2>5. last + 1 - 1 = last
    BY <1>1
  <2> QED
    BY <1>1, <2>2, <2>3, <2>4, <2>5
<1> QED
  BY <1>1, <1>2, <1>3 DEF ScanInv, KeptVerbatim

LEMMA ScanStep == ScanInv /\ [PathNext]_scanner => ScanInv'
<1> SUFFICES ASSUME ScanInv, [PathNext]_scanner PROVE ScanInv'
  OBVIOUS
<1>0. path \in Text /\ Len(path) \in Nat /\ at \in 1..Len(path) + 1
  BY DEF ScanInv, Text
<1>1. CASE Tilde
  <2>1. path' = path /\ env' = env /\ scan' = "loop" /\ scan = "tilde"
    BY <1>1 DEF Tilde
  <2>2. CASE HasHome
    <3>1. at' = 2 /\ at' \in 1..Len(path) + 1
      <4>1. at' = 2
        BY <1>1, <2>2 DEF Tilde
      <4>2. Len(path) >= 1
        BY <1>0, <2>2, HomeIsWritten
      <4> QED
        BY <1>0, <4>1, <4>2
    <3>2. ~NothingSet'
      BY <2>1, <2>2 DEF HasHome, NothingSet
    <3> QED
      BY <1>0, <2>1, <3>1, <3>2 DEF ScanInv, KeptVerbatim
  <2>3. CASE ~HasHome
    <3>1. UNCHANGED <<expanded, at>>
      BY <1>1, <2>3 DEF Tilde
    <3> QED
      BY <2>1, <3>1 DEF ScanInv, KeptVerbatim, NothingSet
  <2> QED
    BY <2>2, <2>3
<1>2. CASE Braced
  <2>1. scan = "loop" /\ IsBraced(at) /\ at \in 1..Len(path)
    <3>1. scan = "loop" /\ IsBraced(at)
      BY <1>2 DEF Braced
    <3>2. at < Len(path)
      BY <3>1 DEF IsBraced
    <3> QED
      BY <1>0, <3>1, <3>2
  <2>2. BracedEnd(at) \in at + 2 .. Len(path)
    BY <1>0, <2>1, BracedEndExists
  <2>3. BracedEnd(at) \in at..Len(path)
    BY <1>0, <2>2
  <2> DEFINE last == BracedEnd(at)
             token == SubSeq(path, at, last)
             bytes == Substitute(SubSeq(path, at + 2, last - 1), token)
  <2>4. Turn(last, bytes)
    BY <1>2 DEF Braced
  <2>5. NothingSet => bytes = token
    BY TokenStays
  <2>6. last \in at..Len(path) /\ at <= Len(path)
    BY <1>0, <2>1, <2>3
  <2> HIDE DEF last, bytes
  <2> QED
    BY <2>1, <2>4, <2>5, <2>6, TurnKeeps
<1>3. CASE Bare
  <2>1. scan = "loop" /\ IsBare(at) /\ at \in 1..Len(path)
    BY <1>0, <1>3 DEF Bare, IsBare
  <2>2. BareEnd(at) \in at + 1 .. Len(path)
    BY <1>0, <2>1, BareEndExists
  <2>3. BareEnd(at) \in at..Len(path)
    BY <1>0, <2>2
  <2> DEFINE last == BareEnd(at)
             token == SubSeq(path, at, last)
             bytes == Substitute(SubSeq(path, at + 1, last), token)
  <2>4. Turn(last, bytes)
    BY <1>3 DEF Bare
  <2>5. NothingSet => bytes = token
    BY TokenStays
  <2>6. last \in at..Len(path) /\ at <= Len(path)
    BY <1>0, <2>1, <2>3
  <2> HIDE DEF last, bytes
  <2> QED
    BY <2>1, <2>4, <2>5, <2>6, TurnKeeps
<1>4. CASE Copy
  <2>1. scan = "loop" /\ at <= Len(path) /\ at \in at..Len(path)
    BY <1>0, <1>4 DEF Copy
  <2> QED
    BY <1>4, <2>1, TurnKeeps DEF Copy
<1>5. CASE Finish
  <2>1. /\ path' = path /\ env' = env /\ at' = at /\ scan' = "done"
        /\ scan = "loop" /\ at - 1 = Len(path)
        /\ expanded' = path \/ expanded' = expanded
    BY <1>0, <1>5 DEF Finish
  <2>2. ASSUME NothingSet PROVE expanded' = path
    <3>1. expanded = SubSeq(path, 1, Len(path))
      BY <2>1, <2>2 DEF ScanInv
    <3>2. expanded = path
      BY <1>0, <3>1, SubSeqFull DEF Text
    <3> QED
      BY <2>1, <3>2
  <2> QED
    BY <1>0, <2>1, <2>2 DEF ScanInv, KeptVerbatim, NothingSet
<1>6. CASE OutOfMemory
  BY <1>0, <1>6 DEF OutOfMemory, ScanInv, KeptVerbatim
<1>7. CASE UNCHANGED scanner
  BY <1>7 DEF scanner, ScanInv, KeptVerbatim, NothingSet
<1> QED
  BY <1>1, <1>2, <1>3, <1>4, <1>5, <1>6, <1>7 DEF PathNext, Turns

\* With nothing set that a path could refer to, every path of every length
\* comes back unchanged: no dollar, brace or tilde is lost on the way
\* (path_expand.c:57).
THEOREM NothingSetNothingChanged == PathSpec => []KeptVerbatim
<1>1. ScanInv => KeptVerbatim
  BY DEF ScanInv
<1> QED
  BY <1>1, ScanInitially, ScanStep, PTL DEF PathSpec

-----------------------------------------------------------------------------
(* The buffer.                                                             *)

BufferInv == PathTypeOK /\ NulFits

\* Whatever is appended, the buffer then holds it and its NUL.
LEMMA AppendedFits ==
  ASSUME expanded \in Text, capacity \in Nat, NEW bytes \in Text,
         Appended(bytes)
  PROVE  expanded' \in Text /\ capacity' \in Nat /\ Len(expanded') < capacity'
<1>1. /\ Len(expanded) \in Nat /\ Len(bytes) \in Nat
      /\ expanded' \in Text /\ Len(expanded') = Len(expanded) + Len(bytes)
  BY ConcatProperties DEF Appended, Text
<1>2. Required(bytes) = Len(expanded) + Len(bytes) + 1
  BY DEF Required
<1>3. Required(bytes) \in Nat
  BY <1>1, <1>2
<1>4. CASE Required(bytes) > capacity
  <2>1. capacity' = Grown(Required(bytes))
    BY <1>4 DEF Appended
  <2>2. capacity' \in Nat /\ capacity' >= Required(bytes)
    BY <1>3, <2>1, GrownIsEnough
  <2> QED
    BY <1>1, <1>2, <2>2
<1>5. CASE ~(Required(bytes) > capacity)
  <2>1. capacity' = capacity
    BY <1>5 DEF Appended
  <2> QED
    BY <1>1, <1>2, <1>5, <2>1
<1> QED
  BY <1>4, <1>5

LEMMA SubstituteIsText ==
  ASSUME env \in Envs, NEW name, NEW token \in Text
  PROVE  Substitute(name, token) \in Text
<1>1. name \in DOMAIN env.value => env.value[name] \in Text
  BY EnvsAssumption
<1>2. Value(name) # <<>> => Value(name) \in Text
  BY <1>1 DEF Value
<1> QED
  BY <1>2 DEF Substitute

LEMMA BufferInitially == PathInit => BufferInv
<1> SUFFICES ASSUME PathInit PROVE BufferInv
  OBVIOUS
<1>1. path \in Text
  BY SeqDef DEF PathInit, BoundedSeq, SeqOf, Text
<1>2. <<>> \in Text /\ Len(path) \in Nat
  BY <1>1 DEF Text
<1> QED
  BY <1>1, <1>2 DEF PathInit, BufferInv, PathTypeOK, NulFits

LEMMA TurnFits ==
  ASSUME BufferInv, scan = "loop", NEW last \in at..Len(path),
         NEW bytes \in Text, Turn(last, bytes)
  PROVE  BufferInv'
<1>1. /\ path \in Text /\ env \in Envs /\ Len(path) \in Nat
      /\ at \in 1..Len(path) + 1 /\ expanded \in Text /\ capacity \in Nat
  BY DEF BufferInv, PathTypeOK, Text
<1>2. /\ Appended(bytes) /\ at' = last + 1
      /\ path' = path /\ env' = env /\ scan' = "loop"
  BY DEF Turn
<1>3. at' \in 1..Len(path') + 1
  BY <1>1, <1>2
<1>4. expanded' \in Text /\ capacity' \in Nat /\ Len(expanded') < capacity'
  BY <1>1, <1>2, AppendedFits
<1> QED
  BY <1>1, <1>2, <1>3, <1>4 DEF BufferInv, PathTypeOK, NulFits

LEMMA BufferStep == BufferInv /\ [PathNext]_scanner => BufferInv'
<1> SUFFICES ASSUME BufferInv, [PathNext]_scanner PROVE BufferInv'
  OBVIOUS
<1>0. /\ path \in Text /\ env \in Envs /\ Len(path) \in Nat
      /\ at \in 1..Len(path) + 1 /\ expanded \in Text /\ capacity \in Nat
  BY DEF BufferInv, PathTypeOK, Text
<1>1. CASE Tilde
  <2>1. path' = path /\ env' = env /\ scan' = "loop"
    BY <1>1 DEF Tilde
  <2>2. CASE HasHome
    <3>1. Appended(env.home) /\ at' = 2
      BY <1>1, <2>2 DEF Tilde
    <3>2. env.home \in Text
      BY <1>0, EnvsAssumption
    <3>3. at' \in 1..Len(path') + 1
      BY <1>0, <2>1, <2>2, <3>1, HomeIsWritten
    <3>4. expanded' \in Text /\ capacity' \in Nat /\ Len(expanded') < capacity'
      BY <1>0, <3>1, <3>2, AppendedFits
    <3> QED
      BY <1>0, <2>1, <3>3, <3>4 DEF BufferInv, PathTypeOK, NulFits
  <2>3. CASE ~HasHome
    <3>1. UNCHANGED <<expanded, capacity, at>>
      BY <1>1, <2>3 DEF Tilde
    <3> QED
      BY <2>1, <3>1 DEF BufferInv, PathTypeOK, NulFits
  <2> QED
    BY <2>2, <2>3
<1>2. CASE Braced
  <2>1. scan = "loop" /\ IsBraced(at) /\ at < Len(path)
    BY <1>2 DEF Braced, IsBraced
  <2>2. BracedEnd(at) \in at + 2 .. Len(path)
    BY <1>0, <2>1, BracedEndExists
  <2> DEFINE last == BracedEnd(at)
             token == SubSeq(path, at, last)
             bytes == Substitute(SubSeq(path, at + 2, last - 1), token)
  <2>3. Turn(last, bytes)
    BY <1>2 DEF Braced
  <2>4. last \in at..Len(path) /\ last \in Nat
    BY <1>0, <2>2
  <2> HIDE DEF last
  <2>5. token \in Text
    BY <1>0, <2>4, TokenIsText
  <2>6. bytes \in Text
    <3> HIDE DEF token
    <3> QED
      BY <1>0, <2>5, SubstituteIsText
  <2> HIDE DEF bytes
  <2> QED
    BY <2>1, <2>3, <2>4, <2>6, TurnFits
<1>3. CASE Bare
  <2>1. scan = "loop" /\ IsBare(at) /\ at < Len(path)
    BY <1>3 DEF Bare, IsBare
  <2>2. BareEnd(at) \in at + 1 .. Len(path)
    BY <1>0, <2>1, BareEndExists
  <2> DEFINE last == BareEnd(at)
             token == SubSeq(path, at, last)
             bytes == Substitute(SubSeq(path, at + 1, last), token)
  <2>3. Turn(last, bytes)
    BY <1>3 DEF Bare
  <2>4. last \in at..Len(path) /\ last \in Nat
    BY <1>0, <2>2
  <2> HIDE DEF last
  <2>5. token \in Text
    BY <1>0, <2>4, TokenIsText
  <2>6. bytes \in Text
    <3> HIDE DEF token
    <3> QED
      BY <1>0, <2>5, SubstituteIsText
  <2> HIDE DEF bytes
  <2> QED
    BY <2>1, <2>3, <2>4, <2>6, TurnFits
<1>4. CASE Copy
  <2>1. scan = "loop" /\ at \in at..Len(path)
    BY <1>0, <1>4 DEF Copy
  <2>2. SubSeq(path, at, at) \in Text
    BY <1>0, <2>1, TokenIsText
  <2>3. Turn(at, SubSeq(path, at, at))
    BY <1>4 DEF Copy
  <2> QED
    BY <2>1, <2>2, <2>3, TurnFits
<1>5. CASE Finish
  <2>1. /\ path' = path /\ env' = env /\ at' = at /\ scan' = "done"
        /\ capacity' = capacity
        /\ expanded' = IF capacity = 0 THEN path ELSE expanded
    BY <1>5 DEF Finish
  <2>2. capacity > 0 => capacity # 0
    BY <1>0
  <2> QED
    BY <1>0, <2>1, <2>2 DEF BufferInv, PathTypeOK, NulFits
<1>6. CASE OutOfMemory
  <2>1. /\ UNCHANGED <<path, env, at>> /\ scan' = "null"
        /\ expanded' = <<>> /\ capacity' = 0
    BY <1>6 DEF OutOfMemory
  <2>2. <<>> \in Text /\ ~(0 > 0)
    BY DEF Text
  <2> QED
    BY <1>0, <2>1, <2>2 DEF BufferInv, PathTypeOK, NulFits
<1>7. CASE UNCHANGED scanner
  BY <1>7 DEF scanner, BufferInv, PathTypeOK, NulFits
<1> QED
  BY <1>1, <1>2, <1>3, <1>4, <1>5, <1>6, <1>7 DEF PathNext, Turns

LEMMA BufferAlways == PathSpec => []BufferInv
  BY BufferInitially, BufferStep, PTL DEF PathSpec

\* The scan stays within the path and the buffer, however long either gets.
THEOREM PathTypeCorrect == PathSpec => []PathTypeOK
<1>1. BufferInv => PathTypeOK
  BY DEF BufferInv
<1> QED
  BY <1>1, BufferAlways, PTL

\* Every append leaves room for the NUL that ends the text: doubling reaches
\* what is required, from any capacity and for any bytes (path_expand.c:22).
THEOREM NulAlwaysFits == PathSpec => []NulFits
<1>1. BufferInv => NulFits
  BY DEF BufferInv
<1> QED
  BY <1>1, BufferAlways, PTL

=============================================================================
