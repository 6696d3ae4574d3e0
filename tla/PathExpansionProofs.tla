------------------------ MODULE PathExpansionProofs ------------------------
(***************************************************************************)
(* What typio_rime_expand_path returns is the reference's Expansion, for   *)
(* every alphabet, environment and path.  The scan is at the end of a      *)
(* token or of a single character whenever a turn begins; what it has      *)
(* written by then is what the characters before contribute.               *)
(***************************************************************************)
EXTENDS PathExpandProofs

-----------------------------------------------------------------------------
(* The tokens of the reference, by their characters.                       *)

LEMMA TokenChars ==
  ASSUME NEW p \in Text, NEW i \in 1..Len(p), NEW j \in i..Len(p)
  PROVE  /\ Len(SubSeq(p, i, j)) = j - i + 1
         /\ \A k \in 1 .. j - i + 1 : SubSeq(p, i, j)[k] = p[i + k - 1]
<1>1. Len(p) \in Nat
  BY DEF Text
<1>2. \A k \in i..j : k \in 1..Len(p)
  BY <1>1
<1>3. \A k \in i..j : p[k] \in Chars
  BY <1>2, ElementOfSeq DEF Text
<1>4. i \in Int /\ j \in Int /\ i <= j
  BY <1>1
<1> QED
  BY <1>3, <1>4, SubSeqProperties

\* One character as a text.
LEMMA OneChar ==
  ASSUME NEW p \in Text, NEW i \in 1..Len(p)
  PROVE  SubSeq(p, i, i) = <<p[i]>>
<1>1. Len(p) \in Nat /\ i \in Nat /\ i \in i..Len(p) /\ i < i + 1
  BY DEF Text
<1>2. SubSeq(p, i, i) = <<p[i]>> \o SubSeq(p, i + 1, i)
  BY <1>1, SubSeqRecursiveFirst DEF Text
<1>3. SubSeq(p, i + 1, i) = <<>>
  BY <1>1, SubSeqEmpty
<1>4. p[i] \in Chars
  BY ElementOfSeq DEF Text
<1>5. <<p[i]>> \in Seq(Chars)
  BY <1>4
<1> QED
  BY <1>2, <1>3, <1>5, ConcatEmptySeq

OpenBefore(p, i, j) == \A k \in i + 2 .. j - 1 : p[k] # "}"

BracedAt(p, i, j) ==
    /\ j >= i + 2 /\ p[i] = "$" /\ p[i + 1] = "{" /\ p[j] = "}"
    /\ OpenBefore(p, i, j)

LEMMA BracedChars ==
  ASSUME NEW p \in Text, NEW i \in 1..Len(p), NEW j \in i..Len(p)
  PROVE  IsBracedToken(SubSeq(p, i, j)) <=> BracedAt(p, i, j)
<1> DEFINE s == SubSeq(p, i, j)
<1>1. /\ Len(p) \in Nat /\ i \in Nat /\ j \in Nat /\ i <= j
      /\ Len(s) = j - i + 1
      /\ \A k \in 1 .. j - i + 1 : s[k] = p[i + k - 1]
  BY TokenChars DEF Text
<1> HIDE DEF s
<1>2. ASSUME IsBracedToken(s) PROVE BracedAt(p, i, j)
  <2>0. j - i + 1 >= 3
    BY <1>1, <1>2 DEF IsBracedToken
  <2>1. /\ s[1] = "$" /\ s[2] = "{"
        /\ {k \in 3 .. j - i + 1 : s[k] = "}"} = {j - i + 1}
    BY <1>1, <1>2 DEF IsBracedToken
  <2>2. s[j - i + 1] = "}"
    BY <2>1
  <2>3. s[1] = p[i] /\ s[2] = p[i + 1] /\ s[j - i + 1] = p[j]
    <3>1. i + 1 - 1 = i /\ i + 2 - 1 = i + 1 /\ i + (j - i + 1) - 1 = j
      BY <1>1
    <3>2. 1 \in 1 .. j - i + 1 /\ 2 \in 1 .. j - i + 1
          /\ j - i + 1 \in 1 .. j - i + 1
      BY <1>1, <2>0
    <3> QED
      BY <1>1, <3>1, <3>2
  <2>4. ASSUME NEW k \in i + 2 .. j - 1 PROVE p[k] # "}"
    <3>1. /\ k - i + 1 \in 3 .. j - i + 1 /\ k - i + 1 \in 1 .. j - i + 1
          /\ k - i + 1 # j - i + 1 /\ i + (k - i + 1) - 1 = k
      BY <1>1
    <3>2. s[k - i + 1] = p[k]
      BY <1>1, <3>1
    <3>3. s[k - i + 1] # "}"
      BY <2>1, <3>1
    <3> QED
      BY <3>2, <3>3
  <2> QED
    <3>1. j >= i + 2
      BY <1>1, <2>0
    <3>2. OpenBefore(p, i, j)
      BY <2>4 DEF OpenBefore
    <3> QED
      BY <2>1, <2>2, <2>3, <3>1, <3>2 DEF BracedAt
<1>3. ASSUME BracedAt(p, i, j) PROVE IsBracedToken(s)
  <2>0. j >= i + 2
    BY <1>3 DEF BracedAt
  <2>1. j - i + 1 >= 3
    BY <1>1, <2>0
  <2>2. s[1] = p[i] /\ s[2] = p[i + 1] /\ s[j - i + 1] = p[j]
    <3>1. i + 1 - 1 = i /\ i + 2 - 1 = i + 1 /\ i + (j - i + 1) - 1 = j
      BY <1>1
    <3>2. 1 \in 1 .. j - i + 1 /\ 2 \in 1 .. j - i + 1
          /\ j - i + 1 \in 1 .. j - i + 1
      BY <1>1, <2>1
    <3> QED
      BY <1>1, <3>1, <3>2
  <2>3. ASSUME NEW k \in 3 .. j - i + 1, k # j - i + 1 PROVE s[k] # "}"
    <3>1. k \in 1 .. j - i + 1 /\ i + k - 1 \in i + 2 .. j - 1
      BY <1>1, <2>3
    <3> QED
      BY <1>1, <1>3, <3>1 DEF BracedAt, OpenBefore
  <2>4. {k \in 3 .. j - i + 1 : s[k] = "}"} = {j - i + 1}
    <3>1. j - i + 1 \in 3 .. j - i + 1
      BY <1>1, <2>1
    <3>2. s[j - i + 1] = "}"
      BY <1>3, <2>2 DEF BracedAt
    <3> QED
      BY <2>3, <3>1, <3>2
  <2> QED
    BY <1>1, <1>3, <2>1, <2>2, <2>4 DEF IsBracedToken, BracedAt
<1> QED
  BY <1>2, <1>3 DEF s

BareAt(p, i, j) ==
    /\ j >= i + 1 /\ p[i] = "$" /\ p[i + 1] \in Letters
    /\ \A k \in i + 2 .. j : p[k] \in Letters \cup Digits

LEMMA BareChars ==
  ASSUME NEW p \in Text, NEW i \in 1..Len(p), NEW j \in i..Len(p)
  PROVE  IsBareToken(SubSeq(p, i, j)) <=> BareAt(p, i, j)
<1> DEFINE s == SubSeq(p, i, j)
<1>1. /\ Len(p) \in Nat /\ i \in Nat /\ j \in Nat /\ i <= j
      /\ Len(s) = j - i + 1
      /\ \A k \in 1 .. j - i + 1 : s[k] = p[i + k - 1]
  BY TokenChars DEF Text
<1> HIDE DEF s
<1>2. ASSUME j - i + 1 >= 2 PROVE s[1] = p[i] /\ s[2] = p[i + 1]
  <2>1. i + 1 - 1 = i /\ i + 2 - 1 = i + 1
    BY <1>1
  <2>2. 1 \in 1 .. j - i + 1 /\ 2 \in 1 .. j - i + 1
    BY <1>1, <1>2
  <2> QED
    BY <1>1, <2>1, <2>2
<1>3. ASSUME IsBareToken(s) PROVE BareAt(p, i, j)
  <2>1. /\ j - i + 1 >= 2 /\ s[1] = "$" /\ s[2] \in Letters
        /\ \A k \in 3 .. j - i + 1 : s[k] \in Letters \cup Digits
    BY <1>1, <1>3 DEF IsBareToken
  <2>2. ASSUME NEW k \in i + 2 .. j PROVE p[k] \in Letters \cup Digits
    <3>1. /\ k - i + 1 \in 3 .. j - i + 1 /\ k - i + 1 \in 1 .. j - i + 1
          /\ i + (k - i + 1) - 1 = k
      BY <1>1
    <3>2. s[k - i + 1] = p[k]
      BY <1>1, <3>1
    <3> QED
      BY <2>1, <3>1, <3>2
  <2> QED
    BY <1>1, <1>2, <2>1, <2>2 DEF BareAt
<1>4. ASSUME BareAt(p, i, j) PROVE IsBareToken(s)
  <2>1. j - i + 1 >= 2
    BY <1>1, <1>4 DEF BareAt
  <2>2. ASSUME NEW k \in 3 .. j - i + 1 PROVE s[k] \in Letters \cup Digits
    <3>1. k \in 1 .. j - i + 1 /\ i + k - 1 \in i + 2 .. j
      BY <1>1
    <3> QED
      BY <1>1, <1>4, <3>1 DEF BareAt
  <2> QED
    BY <1>1, <1>2, <1>4, <2>1, <2>2 DEF IsBareToken, BareAt
<1> QED
  BY <1>3, <1>4 DEF s

-----------------------------------------------------------------------------
(* The tokens the scan finds are the reference's.                          *)

\* Where a token of p that begins at i may end.
Ends(p, i) == {j \in i..Len(p) : BracedAt(p, i, j) \/ BareAt(p, i, j)}

LEMMA TokenEndIs ==
  ASSUME NEW p \in Text, NEW i \in 1..Len(p)
  PROVE  TokenEnd(p, i) = IF Ends(p, i) = {} THEN 0 ELSE Max(Ends(p, i))
<1> DEFINE ends == {j \in i..Len(p) : \/ IsBracedToken(SubSeq(p, i, j))
                                      \/ IsBareToken(SubSeq(p, i, j))}
<1>1. ends = Ends(p, i)
  BY BracedChars, BareChars DEF Ends
<1>2. TokenEnd(p, i) = IF ends = {} THEN 0 ELSE Max(ends)
  BY DEF TokenEnd
<1> QED
  BY <1>1, <1>2

\* The greatest of a set is the one that is not exceeded.
LEMMA MaxIs ==
  ASSUME NEW T, T \subseteq Nat, NEW x \in T, \A y \in T : x >= y
  PROVE  Max(T) = x
<1>1. Max(T) \in T /\ \A y \in T : Max(T) >= y
  <2>1. \E z \in T : \A y \in T : z >= y
    OBVIOUS
  <2> QED
    BY <2>1, Zenon DEF Max
<1>2. Max(T) >= x /\ x >= Max(T) /\ Max(T) \in Nat /\ x \in Nat
  BY <1>1
<1> QED
  BY <1>1, <1>2

LEMMA EndsHaveMax ==
  ASSUME NEW p \in Text, NEW i \in 1..Len(p), Ends(p, i) # {}
  PROVE  Max(Ends(p, i)) \in Ends(p, i)
<1> DEFINE above == {Len(p) - j : j \in Ends(p, i)}
<1>1. Len(p) \in Nat /\ \A j \in Ends(p, i) : j \in i..Len(p)
  BY DEF Ends, Text
<1>2. above \subseteq Nat /\ above # {}
  BY <1>1
<1>3. PICK x \in above : \A y \in above : x <= y
  <2> HIDE DEF above
  <2> QED
    BY <1>2, Least
<1>4. PICK j \in Ends(p, i) : x = Len(p) - j
  BY <1>3
<1>5. ASSUME NEW k \in Ends(p, i) PROVE j >= k
  <2>1. Len(p) - k \in above
    OBVIOUS
  <2>2. Len(p) - j <= Len(p) - k
    BY <1>3, <1>4, <2>1
  <2> QED
    BY <1>1, <2>2
<1> HIDE DEF above
<1>6. Ends(p, i) \subseteq Nat
  BY <1>1
<1>7. Max(Ends(p, i)) = j
  BY <1>5, <1>6, MaxIs
<1> QED
  BY <1>7

LEMMA BracedIsToken ==
  ASSUME path \in Text, NEW i \in 1..Len(path), IsBraced(i)
  PROVE  TokenEnd(path, i) = BracedEnd(i)
<1> DEFINE b == BracedEnd(i)
<1>1. /\ Len(path) \in Nat /\ b \in i + 2 .. Len(path) /\ b \in Closings(i)
      /\ \A k \in Closings(i) : b <= k
  BY BracedEndExists DEF Text
<1>2. path[i] = "$" /\ path[i + 1] = "{" /\ path[b] = "}"
  BY <1>1 DEF IsBraced, Closings
<1> HIDE DEF b
<1>3. BracedAt(path, i, b)
  <2>1. ASSUME NEW k \in i + 2 .. b - 1 PROVE path[k] # "}"
    <3>1. k \in i + 2 .. Len(path) /\ ~(b <= k)
      BY <1>1
    <3> QED
      BY <1>1, <3>1 DEF Closings
  <2>2. b >= i + 2
    BY <1>1
  <2> QED
    BY <1>2, <2>1, <2>2 DEF BracedAt, OpenBefore
<1>4. ASSUME NEW j \in Ends(path, i) PROVE j = b
  <2>1. ~BareAt(path, i, j)
    BY <1>2, NamesAssumption DEF BareAt, Signs
  <2>2. j \in i..Len(path) /\ BracedAt(path, i, j)
    BY <2>1 DEF Ends
  <2>3. j >= i + 2 /\ OpenBefore(path, i, j)
    BY <2>2 DEF BracedAt
  <2>4. j \in i + 2 .. Len(path)
    <3>1. j >= i + 2 /\ j \in i..Len(path)
      BY <2>2, <2>3
    <3> QED
      BY <1>1, <3>1
  <2>5. b <= j
    <3>1. path[j] = "}"
      BY <2>2 DEF BracedAt
    <3> QED
      BY <1>1, <2>4, <3>1 DEF Closings
  <2>6. ~(b < j)
    <3> SUFFICES ASSUME b < j PROVE FALSE
      OBVIOUS
    <3>1. b \in i + 2 .. j - 1
      BY <1>1, <2>4
    <3> QED
      BY <1>2, <2>3, <3>1 DEF OpenBefore
  <2> QED
    BY <1>1, <2>4, <2>5, <2>6
<1>5. b \in Ends(path, i) /\ Ends(path, i) \subseteq Nat
  <2>1. b \in i..Len(path)
    BY <1>1
  <2> QED
    BY <1>3, <2>1 DEF Ends
<1>6. \A y \in Ends(path, i) : b >= y
  BY <1>4, <1>5
<1>7. Max(Ends(path, i)) = b
  BY <1>5, <1>6, MaxIs
<1> QED
  BY <1>5, <1>7, TokenEndIs DEF b

LEMMA BareIsToken ==
  ASSUME path \in Text, NEW i \in 1..Len(path), IsBare(i)
  PROVE  TokenEnd(path, i) = BareEnd(i)
<1> DEFINE b == BareEnd(i)
<1>1. /\ Len(path) \in Nat /\ b \in i + 1 .. Len(path)
      /\ ~IsVarChar(b + 1) /\ \A k \in i + 1 .. b : IsVarChar(k)
  BY BareEndExists DEF Text
<1>2. path[i] = "$" /\ path[i + 1] \in Letters
  BY DEF IsBare, IsVarStart
<1> HIDE DEF b
<1>3. BareAt(path, i, b)
  <2>1. ASSUME NEW k \in i + 2 .. b PROVE path[k] \in Letters \cup Digits
    <3>1. k \in i + 1 .. b
      BY <1>1
    <3> QED
      BY <1>1, <3>1 DEF IsVarChar
  <2> QED
    BY <1>1, <1>2, <2>1 DEF BareAt
<1>4. ASSUME NEW j \in Ends(path, i) PROVE b >= j
  <2>1. ~BracedAt(path, i, j)
    BY <1>2, NamesAssumption DEF BracedAt, Signs
  <2>2. j \in i..Len(path) /\ BareAt(path, i, j)
    BY <2>1 DEF Ends
  <2> SUFFICES ASSUME b < j PROVE FALSE
    BY <1>1, <2>2
  <2>3. b + 1 \in i + 2 .. j /\ b + 1 <= Len(path)
    BY <1>1, <2>2
  <2> QED
    BY <1>1, <2>2, <2>3 DEF BareAt, IsVarChar
<1>5. b \in Ends(path, i) /\ Ends(path, i) \subseteq Nat
  <2>1. b \in i..Len(path)
    BY <1>1
  <2> QED
    BY <1>3, <2>1 DEF Ends
<1>6. Max(Ends(path, i)) = b
  BY <1>4, <1>5, MaxIs
<1> QED
  BY <1>5, <1>6, TokenEndIs DEF b

LEMMA OtherIsNoToken ==
  ASSUME path \in Text, NEW i \in 1..Len(path), ~IsBraced(i), ~IsBare(i)
  PROVE  TokenEnd(path, i) = 0
<1>1. Len(path) \in Nat
  BY DEF Text
<1>2. ASSUME NEW j \in Ends(path, i) PROVE FALSE
  <2>1. j \in i..Len(path)
    BY DEF Ends
  <2>2. CASE BracedAt(path, i, j)
    <3>1. /\ path[i] = "$" /\ path[i + 1] = "{"
          /\ j >= i + 2 /\ path[j] = "}"
      BY <2>2 DEF BracedAt
    <3>2. j >= i + 2
      BY <3>1
    <3>3. i < Len(path) /\ j \in i + 2 .. Len(path)
      BY <1>1, <2>1, <3>2
    <3> QED
      BY <3>1, <3>3 DEF IsBraced, Closings
  <2>3. CASE BareAt(path, i, j)
    <3>1. /\ i < Len(path) /\ i + 1 <= Len(path) /\ path[i] = "$"
          /\ path[i + 1] \in Letters
      BY <1>1, <2>1, <2>3 DEF BareAt
    <3> QED
      BY <3>1 DEF IsBare, IsVarStart
  <2> QED
    BY <2>2, <2>3 DEF Ends
<1>3. Ends(path, i) = {}
  BY <1>2
<1> QED
  BY <1>3, TokenEndIs

-----------------------------------------------------------------------------
(* The recursive definitions of the reference, unrolled.                   *)

TokenFirst(p, tokens, t) ==
    TokenEnd(p, t) > 0 /\ \A j \in tokens : j < t => TokenEnd(p, j) < t

\* Tokens holds the positions where a token begins that no earlier member
\* reaches: the greedy choice, whichever way it is computed.
LEMMA TokensAre ==
  ASSUME NEW p \in Text
  PROVE  /\ Tokens(p) \subseteq 1..Len(p)
         /\ \A t \in 1..Len(p) : t \in Tokens(p) <=> TokenFirst(p, Tokens(p), t)
<1> DEFINE N == Len(p)
           Free(s, i) == TokenEnd(p, i) > 0 /\ \A j \in s : TokenEnd(p, j) < i
           V == SUBSET (1..N)
           step == [x \in V \X (0 + 1 .. N) |->
                      IF Free(x[1], x[2]) THEN x[1] \cup {x[2]} ELSE x[1]]
           Loop(f) == [i \in 0..N |->
                         IF i = 0 THEN {}
                         ELSE IF /\ TokenEnd(p, i) > 0
                                 /\ \A j \in f[i - 1] : TokenEnd(p, j) < i
                              THEN f[i - 1] \cup {i} ELSE f[i - 1]]
           among == CHOOSE f : f = Loop(f)
<1>1. N \in Nat /\ {} \in V
  BY DEF Text
<1>2. step \in [V \X (0 + 1 .. N) -> V]
  <2>1. ASSUME NEW s \in V, NEW i \in 0 + 1 .. N
        PROVE  (IF Free(s, i) THEN s \cup {i} ELSE s) \in V
    <3>1. i \in 1..N
      BY <1>1
    <3> HIDE DEF Free, N
    <3> QED
      BY <3>1
  <2> HIDE DEF Free, V, N
  <2> QED
    BY <2>1
<1>3. PICK f \in [0..N -> V] : Iterates(f, 0, N, {}, step)
  <2>1. 0 \in Nat /\ 0 <= N
    BY <1>1
  <2> HIDE DEF step, V, N
  <2> QED
    BY <1>1, <1>2, <2>1, FiniteRecursion
<1> HIDE DEF step, V, N
<1>3a. f[0] = {} /\ \A k \in 0 + 1 .. N : f[k] = step[f[k - 1], k]
  BY <1>3, Zenon DEF Iterates
<1> USE DEF step, V, N
<1>4. ASSUME NEW i \in 0..N, i # 0
      PROVE  f[i] = IF Free(f[i - 1], i) THEN f[i - 1] \cup {i} ELSE f[i - 1]
  <2>1. i - 1 \in 0..N /\ i \in 0 + 1 .. N
    BY <1>1, <1>4
  <2>2. f[i - 1] \in V
    <3> HIDE DEF V, N
    <3> QED
      BY <1>3, <2>1
  <2>3. <<f[i - 1], i>> \in V \X (0 + 1 .. N)
    <3> HIDE DEF V, N
    <3> QED
      BY <2>1, <2>2
  <2>4. f[i] = step[f[i - 1], i]
    <3> HIDE DEF V, N, step
    <3> QED
      BY <1>3a, <2>1
  <2> HIDE DEF Free, V, N
  <2> QED
    BY <2>3, <2>4
<1>5. f = Loop(f)
  <2>1. f = [i \in 0..N |-> f[i]]
    <3> HIDE DEF V, N, step
    <3> QED
      BY <1>3
  <2>2. f[0] = {}
    <3> HIDE DEF V, N, step
    <3> QED
      BY <1>3a
  <2> HIDE DEF V, N, step
  <2> QED
    BY <1>4, <2>1, <2>2
<1>6. among = Loop(among)
  BY <1>5
<1>7. Tokens(p) = among[N]
  BY DEF Tokens
<1> HIDE DEF among
<1>8. among[0] = {}
  BY <1>1, <1>6
<1>9. ASSUME NEW i \in 0 .. N - 1
      PROVE  among[i + 1] = IF Free(among[i], i + 1)
                            THEN among[i] \cup {i + 1} ELSE among[i]
  <2> DEFINE n == i + 1
  <2>1. n \in 0..N /\ n # 0 /\ n - 1 = i
    BY <1>1
  <2> HIDE DEF n
  <2>2. among[n] = IF /\ TokenEnd(p, n) > 0
                      /\ \A j \in among[n - 1] : TokenEnd(p, j) < n
                   THEN among[n - 1] \cup {n} ELSE among[n - 1]
    BY <1>6, <2>1
  <2> QED
    BY <2>1, <2>2 DEF n
<1> HIDE DEF N, Loop, V, step
<1> DEFINE Greedy(s, i) == /\ s \subseteq 1..i
                           /\ \A t \in 1..i : t \in s <=> TokenFirst(p, s, t)
           T == {i \in 0..N : Greedy(among[i], i)}
<1>10. 0 \in T
  <2>1. 0 \in 0..N /\ 1..0 = {}
    BY <1>1
  <2> QED
    BY <1>8, <2>1
<1>11. ASSUME NEW i \in 0 .. N - 1, i \in T PROVE i + 1 \in T
  <2>1. /\ i \in Nat /\ i + 1 \in 0..N
        /\ \A t \in 1 .. i + 1 : t = i + 1 \/ t \in 1..i
        /\ \A t \in 1..i : t < i + 1 /\ ~(i + 1 < t) /\ t # i + 1
        /\ i + 1 \in 1 .. i + 1 /\ ~(i + 1 < i + 1)
        /\ \A t \in 1..i : t \in 1 .. i + 1
    BY <1>1
  <2> DEFINE s == among[i]
             r == among[i + 1]
  <2>2. s \subseteq 1..i /\ \A t \in 1..i : t \in s <=> TokenFirst(p, s, t)
    BY <1>11
  <2>3. r = IF Free(s, i + 1) THEN s \cup {i + 1} ELSE s
    BY <1>9
  <2> HIDE DEF s, r
  <2>4. r \subseteq 1 .. i + 1
    BY <2>1, <2>2, <2>3, Zenon
  <2>5. ASSUME NEW t \in 1..i PROVE t \in r <=> TokenFirst(p, r, t)
    <3>1. t \in r <=> t \in s
      BY <2>1, <2>3, Zenon
    <3>2. TokenFirst(p, r, t) <=> TokenFirst(p, s, t)
      <4>1. \A j : j < t => (j \in r <=> j \in s)
        BY <2>1, <2>3, Zenon
      <4> QED
        BY <4>1, Zenon DEF TokenFirst
    <3> QED
      BY <2>2, <3>1, <3>2, Zenon
  <2>6. i + 1 \in r <=> TokenFirst(p, r, i + 1)
    <3>1. i + 1 \in r <=> Free(s, i + 1)
      BY <2>1, <2>2, <2>3, Zenon
    <3>2. \A j : j \in r /\ j < i + 1 <=> j \in s
      BY <2>1, <2>2, <2>3, Zenon
    <3> QED
      BY <3>1, <3>2, Zenon DEF TokenFirst
  <2>7. Greedy(r, i + 1)
    BY <2>1, <2>4, <2>5, <2>6, Zenon
  <2> QED
    BY <2>1, <2>7 DEF r
<1>12. N \in T
  <2> HIDE DEF T
  <2>1. 0..N \subseteq T
    BY <1>1, <1>10, <1>11, Upwards
  <2> QED
    BY <1>1, <2>1
<1>13. Greedy(among[N], N)
  <2> HIDE DEF Greedy
  <2> QED
    BY <1>12
<1> QED
  BY <1>7, <1>13 DEF N

\* w[k] is what the first k characters contribute.
IsWritten(w, p, e) ==
    /\ w \in [0..Len(p) -> Text]
    /\ w[0] = <<>>
    /\ \A k \in 1..Len(p) : w[k] = w[k - 1] \o Piece(p, e, k)

Written(p, e) == CHOOSE w : IsWritten(w, p, e)

LEMMA PieceIsText ==
  ASSUME NEW p \in Text, NEW e \in Envs, NEW i \in 1..Len(p)
  PROVE  Piece(p, e, i) \in Text
<1>1. Len(p) \in Nat
  BY DEF Text
<1>2. e.home \in Text /\ \A n \in DOMAIN e.value : e.value[n] \in Text
  BY EnvsAssumption
<1>3. <<>> \in Text /\ <<p[i]>> \in Text
  <2>1. p[i] \in Chars
    BY ElementOfSeq DEF Text
  <2> QED
    BY <2>1 DEF Text
<1>4. CASE i \in Tokens(p)
  <2>1. TokenFirst(p, Tokens(p), i)
    BY <1>4, TokensAre
  <2>2. TokenEnd(p, i) > 0
    BY <2>1 DEF TokenFirst
  <2>3. Ends(p, i) # {} /\ TokenEnd(p, i) = Max(Ends(p, i))
    BY <2>2, TokenEndIs
  <2>4. TokenEnd(p, i) \in i..Len(p)
    BY <1>1, <2>3, EndsHaveMax DEF Ends
  <2>5. SubSeq(p, i, TokenEnd(p, i)) \in Text
    <3>1. i \in 1 .. Len(p) + 1 /\ TokenEnd(p, i) \in 0..Len(p)
      BY <1>1, <2>4
    <3> QED
      BY <3>1, TokenIsText
  <2> QED
    BY <1>2, <1>4, <2>5, Zenon DEF Piece
<1>5. CASE i \notin Tokens(p)
  BY <1>2, <1>3, <1>5, Zenon DEF Piece
<1> QED
  BY <1>4, <1>5

\* The reference's expansion is what all characters contribute, in order.
LEMMA ExpansionIsWritten ==
  ASSUME NEW p \in Text, NEW e \in Envs
  PROVE  /\ IsWritten(Written(p, e), p, e)
         /\ Expansion(p, e) = Written(p, e)[Len(p)]
<1> DEFINE N == Len(p)
           step == [x \in Text \X (0 + 1 .. N) |-> x[1] \o Piece(p, e, x[2])]
           w == Written(p, e)
<1>1. N \in Nat /\ <<>> \in Text
  BY DEF Text
<1>2. step \in [Text \X (0 + 1 .. N) -> Text]
  <2>1. ASSUME NEW s \in Text, NEW i \in 0 + 1 .. N
        PROVE  s \o Piece(p, e, i) \in Text
    <3>1. i \in 1..N
      BY <1>1
    <3>2. Piece(p, e, i) \in Text
      BY <3>1, PieceIsText
    <3> QED
      BY <3>2, ConcatProperties DEF Text
  <2> HIDE DEF N
  <2> QED
    BY <2>1
<1>3. \E f : IsWritten(f, p, e)
  <2>1. 0 \in Nat /\ 0 <= N
    BY <1>1
  <2>2. PICK f \in [0..N -> Text] : Iterates(f, 0, N, <<>>, step)
    <3> HIDE DEF step, N
    <3> QED
      BY <1>1, <1>2, <2>1, FiniteRecursion
  <2> HIDE DEF step, N
  <2>2a. f[0] = <<>> /\ \A k \in 0 + 1 .. N : f[k] = step[f[k - 1], k]
    BY <2>2, Zenon DEF Iterates
  <2> USE DEF step, N
  <2>3. ASSUME NEW k \in 1..N PROVE f[k] = f[k - 1] \o Piece(p, e, k)
    <3>1. k - 1 \in 0..N /\ k \in 0 + 1 .. N
      BY <1>1
    <3>2. f[k] = step[f[k - 1], k]
      <4> HIDE DEF step, N
      <4> QED
        BY <2>2a, <3>1
    <3>3. <<f[k - 1], k>> \in Text \X (0 + 1 .. N)
      <4> HIDE DEF N
      <4> QED
        BY <3>1
    <3> HIDE DEF N
    <3> QED
      BY <3>2, <3>3
  <2>4. f[0] = <<>>
    <3> HIDE DEF step, N
    <3> QED
      BY <2>2a
  <2> QED
    BY <2>3, <2>4 DEF IsWritten
<1>4. IsWritten(w, p, e)
  BY <1>3 DEF Written
<1>5. /\ w \in [0..N -> Text] /\ w[0] = <<>>
      /\ \A k \in 1..N : w[k] = w[k - 1] \o Piece(p, e, k)
  BY <1>4 DEF IsWritten
<1> DEFINE pieces == [i \in 1..N |-> Piece(p, e, i)]
<1>6. pieces \in Seq(Text) /\ Len(pieces) = N
  BY <1>1, PieceIsText
<1>7. Expansion(p, e) = FlattenSeq(pieces)
  BY DEF Expansion
<1>8. \A i \in 1..N : pieces[i] = Piece(p, e, i)
  OBVIOUS
<1> HIDE DEF w, pieces, N, step
<1>9. CASE N = 0
  <2>1. pieces = <<>>
    BY <1>6, <1>9
  <2> QED
    BY <1>4, <1>5, <1>6, <1>7, <1>9, <2>1 DEF FlattenSeq, w, N
<1>10. CASE N # 0
  <2> DEFINE Loop(f) == [i \in 1..N |-> IF i = 1 THEN pieces[i]
                                        ELSE f[i - 1] \o pieces[i]]
             flatten == CHOOSE f : f = Loop(f)
             g == [i \in 1..N |-> w[i]]
  <2>1. FlattenSeq(pieces) = flatten[N]
    BY <1>6, <1>10 DEF FlattenSeq
  <2>2. ASSUME NEW i \in 1..N
        PROVE  w[i] = IF i = 1 THEN pieces[i] ELSE w[i - 1] \o pieces[i]
    <3>1. w[i] = w[i - 1] \o pieces[i]
      BY <1>5, <1>8
    <3>2. CASE i = 1
      <4>1. w[i - 1] = <<>> /\ pieces[i] \in Text
        BY <1>5, <1>6, <1>8, <3>2, PieceIsText DEF N
      <4> QED
        BY <3>1, <3>2, <4>1, ConcatEmptySeq DEF Text
    <3> QED
      BY <3>1, <3>2
  <2>3. g = Loop(g)
    <3>1. ASSUME NEW i \in 1..N, i # 1 PROVE g[i - 1] = w[i - 1]
      <4>1. i - 1 \in 1..N
        BY <1>1, <3>1
      <4> QED
        BY <4>1
    <3> QED
      BY <2>2, <3>1
  <2>4. flatten = Loop(flatten)
    BY <2>3
  <2> HIDE DEF flatten, g
  <2> DEFINE T == {i \in 1..N : flatten[i] = w[i]}
  <2>5. 1 \in T
    <3>1. 1 \in 1..N
      BY <1>1, <1>10
    <3> QED
      BY <2>2, <2>4, <3>1
  <2>6. ASSUME NEW i \in 1 .. N - 1, i \in T PROVE i + 1 \in T
    <3> DEFINE n == i + 1
    <3>1. n \in 1..N /\ n # 1 /\ n - 1 = i
      BY <1>1
    <3>2. flatten[i] = w[i]
      BY <2>6
    <3> HIDE DEF n
    <3>3. flatten[n] = flatten[n - 1] \o pieces[n]
      BY <2>4, <3>1
    <3>4. w[n] = w[n - 1] \o pieces[n]
      BY <2>2, <3>1
    <3>5. n \in T
      BY <3>1, <3>2, <3>3, <3>4
    <3> QED
      BY <3>5 DEF n
  <2>7. N \in T
    <3> HIDE DEF T
    <3>1. 1..N \subseteq T
      BY <1>1, <2>5, <2>6, Upwards
    <3> QED
      BY <1>1, <1>10, <3>1
  <2> QED
    BY <1>4, <1>7, <2>1, <2>7 DEF w, N
<1> QED
  BY <1>9, <1>10

\* Characters that contribute nothing may be passed over.
LEMMA NothingWritten ==
  ASSUME NEW p \in Text, NEW e \in Envs,
         NEW i \in 0..Len(p), NEW j \in i..Len(p),
         \A k \in i + 1 .. j : Piece(p, e, k) = <<>>
  PROVE  Written(p, e)[j] = Written(p, e)[i]
<1> DEFINE w == Written(p, e)
           T == {k \in i..j : w[k] = w[i]}
<1>1. /\ Len(p) \in Nat /\ i \in Nat /\ j \in Nat /\ i <= j /\ j <= Len(p)
      /\ w \in [0..Len(p) -> Text]
      /\ \A k \in 1..Len(p) : w[k] = w[k - 1] \o Piece(p, e, k)
  BY ExpansionIsWritten DEF IsWritten, Text
<1> HIDE DEF w
<1>2. i \in T
  BY <1>1
<1>3. ASSUME NEW k \in i .. j - 1, k \in T PROVE k + 1 \in T
  <2> DEFINE n == k + 1
  <2>1. /\ n \in i + 1 .. j /\ n \in i..j /\ n \in 1..Len(p)
        /\ n - 1 = k /\ k \in 0..Len(p)
    BY <1>1
  <2> HIDE DEF n
  <2>2. w[n] = w[n - 1] \o Piece(p, e, n) /\ Piece(p, e, n) = <<>>
    BY <1>1, <2>1
  <2>3. w[k] \in Text /\ w[k] = w[i]
    BY <1>1, <1>3, <2>1
  <2>4. w[n] = w[k]
    BY <2>1, <2>2, <2>3, ConcatEmptySeq DEF Text
  <2>5. n \in T
    BY <2>1, <2>3, <2>4
  <2> QED
    BY <2>5 DEF n
<1>4. j \in T
  <2> HIDE DEF T
  <2>1. i..j \subseteq T
    BY <1>1, <1>2, <1>3, Upwards
  <2> QED
    BY <1>1, <2>1
<1> QED
  BY <1>4 DEF w

-----------------------------------------------------------------------------
(* What the pieces are at the places the scan comes to.                    *)

\* No token reaches i from before.
Clear(p, i) == \A t \in Tokens(p) : t < i => TokenEnd(p, t) < i

\* A token that begins where no other reaches counts, and the characters
\* within it contribute nothing of their own.
LEMMA TokenCounts ==
  ASSUME NEW p \in Text, NEW e, NEW i \in 1..Len(p), Clear(p, i),
         NEW last \in i..Len(p), TokenEnd(p, i) = last
  PROVE  /\ i \in Tokens(p)
         /\ \A k \in i + 1 .. last : k \notin Tokens(p) /\ Piece(p, e, k) = <<>>
         /\ Clear(p, last + 1)
<1>1. Len(p) \in Nat /\ i \in Nat /\ last \in Nat /\ last > 0 /\ i <= last
  BY DEF Text
<1>2. i \in Tokens(p)
  <2>1. TokenFirst(p, Tokens(p), i)
    BY <1>1 DEF TokenFirst, Clear
  <2> QED
    BY <2>1, TokensAre
<1>3. ASSUME NEW k \in i + 1 .. last
      PROVE  k \notin Tokens(p) /\ Piece(p, e, k) = <<>>
  <2>1. k \in 1..Len(p) /\ i < k /\ k <= last /\ ~(last < k)
    BY <1>1
  <2>2. ~TokenFirst(p, Tokens(p), k)
    BY <1>2, <2>1, Zenon DEF TokenFirst
  <2>3. k \notin Tokens(p)
    BY <2>1, <2>2, TokensAre
  <2>4. \E t \in Tokens(p) : t < k /\ k <= TokenEnd(p, t)
    BY <1>2, <2>1
  <2> QED
    BY <2>3, <2>4, Zenon DEF Piece
<1>4. Clear(p, last + 1)
  <2> SUFFICES ASSUME NEW t \in Tokens(p), t < last + 1
               PROVE  TokenEnd(p, t) < last + 1
    BY DEF Clear
  <2>1. t \in 1..Len(p)
    BY TokensAre
  <2>2. CASE t < i
    <3>1. TokenEnd(p, t) < i
      BY <2>2 DEF Clear
    <3>2. TokenEnd(p, t) > 0
      <4>1. TokenFirst(p, Tokens(p), t)
        BY <2>1, TokensAre
      <4> QED
        BY <4>1 DEF TokenFirst
    <3>3. TokenEnd(p, t) = Max(Ends(p, t)) /\ Ends(p, t) # {}
      BY <2>1, <3>2, TokenEndIs
    <3>4. TokenEnd(p, t) \in t..Len(p)
      BY <2>1, <3>3, EndsHaveMax DEF Ends
    <3> QED
      BY <1>1, <3>1, <3>4
  <2>3. CASE t = i
    BY <1>1, <2>3
  <2>4. CASE i < t
    <3>1. t \in i + 1 .. last
      BY <1>1, <2>1, <2>4
    <3> QED
      BY <1>3, <3>1
  <2> QED
    BY <1>1, <2>1, <2>2, <2>3, <2>4
<1> QED
  BY <1>2, <1>3, <1>4

\* A character that begins no token is no part of one either.
LEMMA CharCounts ==
  ASSUME NEW p \in Text, NEW i \in 1..Len(p), Clear(p, i), TokenEnd(p, i) = 0
  PROVE  /\ i \notin Tokens(p)
         /\ ~\E t \in Tokens(p) : t < i /\ i <= TokenEnd(p, t)
         /\ Clear(p, i + 1)
<1>1. Len(p) \in Nat /\ i \in Nat
  BY DEF Text
<1>2. i \notin Tokens(p)
  <2>1. ~TokenFirst(p, Tokens(p), i)
    BY DEF TokenFirst
  <2> QED
    BY <2>1, TokensAre
<1>3. ASSUME NEW t \in Tokens(p)
      PROVE  t \in 1..Len(p) /\ TokenEnd(p, t) \in Nat
  <2>1. t \in 1..Len(p)
    BY TokensAre
  <2>2. CASE Ends(p, t) = {}
    BY <2>1, <2>2, TokenEndIs
  <2>3. CASE Ends(p, t) # {}
    <3>1. TokenEnd(p, t) \in t..Len(p)
      BY <2>1, <2>3, TokenEndIs, EndsHaveMax DEF Ends
    <3> QED
      BY <1>1, <2>1, <3>1
  <2> QED
    BY <2>1, <2>2, <2>3
<1>4. ASSUME NEW t \in Tokens(p), t < i PROVE ~(i <= TokenEnd(p, t))
  BY <1>1, <1>3, <1>4 DEF Clear
<1>5. ASSUME NEW t \in Tokens(p), t < i + 1 PROVE TokenEnd(p, t) < i + 1
  <2>1. t < i
    BY <1>1, <1>2, <1>3, <1>5
  <2>2. TokenEnd(p, t) < i
    BY <2>1 DEF Clear
  <2> QED
    BY <1>1, <1>3, <2>2
<1> QED
  BY <1>2, <1>4, <1>5 DEF Clear

\* What the reference puts for a token with this name.
Stands(e, name, token) ==
    IF name \in DOMAIN e.value /\ e.value[name] # <<>>
    THEN e.value[name] ELSE token

LEMMA SubstituteStands ==
  ASSUME NEW name, NEW token
  PROVE  Substitute(name, token) = Stands(env, name, token)
BY Zenon DEF Substitute, Stands, Value

LEMMA PartOfPart ==
  ASSUME NEW p \in Text, NEW i \in 1..Len(p), NEW j \in i..Len(p),
         NEW m \in 1 .. j - i + 1, NEW n \in m - 1 .. j - i + 1,
         NEW a, a = i + m - 1, NEW b, b = i + n - 1
  PROVE  SubSeq(SubSeq(p, i, j), m, n) = SubSeq(p, a, b)
<1> DEFINE part == SubSeq(p, i, j)
<1>1. /\ Len(p) \in Nat /\ i \in Nat /\ j \in Nat /\ m \in Int /\ n \in Int
      /\ a \in Int /\ b \in Int /\ m <= n + 1 /\ a <= b + 1
      /\ n - m + 1 = b - a + 1
  BY DEF Text
<1>2. \A k \in a..b : k \in 1..Len(p)
  BY <1>1
<1>3. \A k \in a..b : p[k] \in Chars
  BY <1>2, ElementOfSeq DEF Text
<1>4. \A k \in 1 .. j - i + 1 : part[k] = p[i + k - 1]
  BY TokenChars
<1>5. \A k \in m..n : part[k] \in Chars
  <2> SUFFICES ASSUME NEW k \in m..n PROVE part[k] \in Chars
    OBVIOUS
  <2>1. k \in 1 .. j - i + 1 /\ i + k - 1 \in a..b
    BY <1>1
  <2> QED
    BY <1>3, <1>4, <2>1
<1> HIDE DEF part
<1>6. /\ SubSeq(part, m, n) \in Seq(Chars)
      /\ Len(SubSeq(part, m, n)) = IF m <= n THEN n - m + 1 ELSE 0
      /\ \A k \in 1 .. n - m + 1 : SubSeq(part, m, n)[k] = part[m + k - 1]
  BY <1>1, <1>5, SubSeqProperties
<1>7. /\ SubSeq(p, a, b) \in Seq(Chars)
      /\ Len(SubSeq(p, a, b)) = IF a <= b THEN b - a + 1 ELSE 0
      /\ \A k \in 1 .. b - a + 1 : SubSeq(p, a, b)[k] = p[a + k - 1]
  BY <1>1, <1>3, SubSeqProperties
<1>8. Len(SubSeq(part, m, n)) = n - m + 1 /\ Len(SubSeq(p, a, b)) = n - m + 1
  BY <1>1, <1>6, <1>7
<1>9. ASSUME NEW k \in 1 .. n - m + 1
      PROVE  SubSeq(part, m, n)[k] = SubSeq(p, a, b)[k]
  <2>1. m + k - 1 \in 1 .. j - i + 1 /\ i + (m + k - 1) - 1 = a + k - 1
    BY <1>1
  <2>2. part[m + k - 1] = p[i + (m + k - 1) - 1]
    BY <1>4, <2>1
  <2>3. SubSeq(part, m, n)[k] = part[m + k - 1]
    BY <1>6
  <2>4. SubSeq(p, a, b)[k] = p[a + k - 1]
    BY <1>1, <1>7
  <2> QED
    BY <2>1, <2>2, <2>3, <2>4
<1>10. \A k \in 1..Len(SubSeq(part, m, n)) :
          SubSeq(part, m, n)[k] = SubSeq(p, a, b)[k]
  BY <1>8, <1>9
<1>11. SubSeq(part, m, n) \in Seq(Chars) /\ SubSeq(p, a, b) \in Seq(Chars)
  BY <1>6, <1>7
<1>12. Len(SubSeq(part, m, n)) = Len(SubSeq(p, a, b))
  BY <1>8
<1>13. SubSeq(part, m, n) = SubSeq(p, a, b)
  BY <1>10, <1>11, <1>12, SeqEqual, Zenon
<1> QED
  BY <1>13 DEF part

LEMMA BracedPiece ==
  ASSUME path \in Text, NEW i \in 1..Len(path), IsBraced(i), i \in Tokens(path),
         NEW last, last = BracedEnd(i)
  PROVE  Piece(path, env, i) = Substitute(SubSeq(path, i + 2, last - 1),
                                          SubSeq(path, i, last))
<1> DEFINE token == SubSeq(path, i, last)
<1>1. Len(path) \in Nat /\ last \in i + 2 .. Len(path)
  BY BracedEndExists DEF Text
<1>2. TokenEnd(path, i) = last
  BY BracedIsToken
<1>3. Len(token) = last - i + 1 /\ token[2] = path[i + 1]
  <2>1. last \in i..Len(path) /\ 2 \in 1 .. last - i + 1 /\ i + 2 - 1 = i + 1
    BY <1>1
  <2>2. token[2] = path[i + 2 - 1] /\ Len(token) = last - i + 1
    BY <2>1, TokenChars
  <2> QED
    BY <2>1, <2>2
<1>4. token[2] = "{"
  BY <1>3 DEF IsBraced
<1>5. SubSeq(token, 3, Len(token) - 1) = SubSeq(path, i + 2, last - 1)
  <2> DEFINE m == 3
             n == Len(token) - 1
             a == i + 2
             b == last - 1
  <2>1. /\ last \in i..Len(path) /\ m \in 1 .. last - i + 1
        /\ n \in m - 1 .. last - i + 1
        /\ a = i + m - 1 /\ b = i + n - 1
    BY <1>1, <1>3
  <2> HIDE DEF m, n, a, b
  <2>2. SubSeq(SubSeq(path, i, last), m, n) = SubSeq(path, a, b)
    BY <2>1, PartOfPart
  <2> QED
    BY <2>2 DEF m, n, a, b
<1>6. Piece(path, env, i) = Stands(env, SubSeq(token, 3, Len(token) - 1), token)
  BY <1>2, <1>4, Zenon DEF Piece, Stands
<1> QED
  BY <1>5, <1>6, SubstituteStands

LEMMA BarePiece ==
  ASSUME path \in Text, NEW i \in 1..Len(path), IsBare(i), i \in Tokens(path),
         NEW last, last = BareEnd(i)
  PROVE  Piece(path, env, i) = Substitute(SubSeq(path, i + 1, last),
                                          SubSeq(path, i, last))
<1> DEFINE token == SubSeq(path, i, last)
<1>1. Len(path) \in Nat /\ last \in i + 1 .. Len(path)
  BY BareEndExists DEF Text
<1>2. TokenEnd(path, i) = last
  BY BareIsToken
<1>3. last \in i..Len(path)
  BY <1>1
<1>4. token[2] = path[i + 1]
  <2>1. 2 \in 1 .. last - i + 1 /\ i + 2 - 1 = i + 1
    BY <1>1
  <2>2. token[2] = path[i + 2 - 1]
    BY <1>3, <2>1, TokenChars
  <2> QED
    BY <2>1, <2>2
<1>5. token[2] # "{"
  <2>1. path[i + 1] \in Letters
    BY DEF IsBare, IsVarStart
  <2> QED
    BY <1>4, <2>1, NamesAssumption DEF Signs
<1>6. Tail(token) = SubSeq(path, i + 1, last)
  BY <1>3, HeadTailOfSubSeq DEF Text
<1>7. Piece(path, env, i) = Stands(env, Tail(token), token)
  BY <1>2, <1>5, Zenon DEF Piece, Stands
<1> QED
  BY <1>6, <1>7, SubstituteStands

\* The reference sees the home where the code does.
LEMMA HomeIsSeen ==
  ASSUME path \in Text, Len(path) >= 1,
         path[1] = "~", Len(path) = 1 \/ path[2] = "/", env.home # <<>>
  PROVE  HasHome
<1>1. Len(path) \in Nat
  BY DEF Text
<1>2. CASE Len(path) = 1
  <2>1. path = <<"~">>
    BY <1>2 DEF Text
  <2> QED
    BY <2>1 DEF HasHome
<1>3. CASE Len(path) # 1
  <2> DEFINE q == <<"~", "/">>
  <2>1. q \in Seq({"~", "/"}) /\ Len(q) = 2 /\ q[1] = "~" /\ q[2] = "/"
    OBVIOUS
  <2> HIDE DEF q
  <2>2. 2 <= Len(path) /\ path[2] = "/"
    BY <1>1, <1>3
  <2>3. /\ Len(SubSeq(path, 1, 2)) = 2
        /\ SubSeq(path, 1, 2)[1] = path[1] /\ SubSeq(path, 1, 2)[2] = path[2]
        /\ SubSeq(path, 1, 2) \in Text
    BY <1>1, <2>2 DEF Text
  <2>4. SubSeq(path, 1, 2) = q
    <3>1. q \in Seq(Chars)
      <4>1. {"~", "/"} \subseteq Chars
        BY DEF Chars, Signs
      <4> QED
        BY <2>1, <4>1
    <3>2. \A k \in 1..2 : SubSeq(path, 1, 2)[k] = q[k]
      <4>1. \A k \in 1..2 : k = 1 \/ k = 2
        OBVIOUS
      <4> QED
        BY <2>1, <2>2, <2>3, <4>1
    <3> QED
      BY <2>1, <2>3, <3>1, <3>2, SeqEqual DEF Text
  <2>5. SubSeq(q, 1, Len(q)) = q
    BY <2>1, SubSeqFull
  <2>6. IsPrefix(q, path)
    BY <2>1, <2>2, <2>4, <2>5 DEF IsPrefix
  <2> QED
    BY <2>6 DEF HasHome, q
<1> QED
  BY <1>2, <1>3

LEMMA CharPiece ==
  ASSUME path \in Text, NEW i \in 1..Len(path), Clear(path, i),
         TokenEnd(path, i) = 0, i = 1 => ~HasHome
  PROVE  Piece(path, env, i) = <<path[i]>>
<1>1. ~(/\ i = 1 /\ path[1] = "~" /\ (Len(path) = 1 \/ path[2] = "/")
        /\ env.home # <<>>)
  <2>1. Len(path) >= 1
    BY DEF Text
  <2> QED
    BY <2>1, HomeIsSeen
<1>2. i \notin Tokens(path)
      /\ ~\E t \in Tokens(path) : t < i /\ i <= TokenEnd(path, t)
  BY CharCounts
<1> QED
  BY <1>1, <1>2, Zenon DEF Piece

LEMMA HomePiece ==
  ASSUME path \in Text, HasHome, Clear(path, 1)
  PROVE  /\ 1 \in 1..Len(path) /\ TokenEnd(path, 1) = 0
         /\ Piece(path, env, 1) = env.home
<1>1. Len(path) \in Nat /\ 1 \in 1..Len(path)
  BY HomeIsWritten DEF Text
<1>2. path[1] = "~" /\ (Len(path) = 1 \/ path[2] = "/") /\ env.home # <<>>
  BY HomeIsWritten DEF HasHome
<1>3. ~IsBraced(1) /\ ~IsBare(1)
  <2>1. path[1] # "$"
    BY <1>2
  <2> QED
    BY <2>1 DEF IsBraced, IsBare
<1>4. TokenEnd(path, 1) = 0
  BY <1>1, <1>3, OtherIsNoToken
<1>5. 1 \notin Tokens(path)
      /\ ~\E t \in Tokens(path) : t < 1 /\ 1 <= TokenEnd(path, t)
  BY <1>1, <1>4, CharCounts
<1>6. Piece(path, env, 1) = env.home
  BY <1>2, <1>5, Zenon DEF Piece
<1> QED
  BY <1>1, <1>4, <1>6

-----------------------------------------------------------------------------
(* The scan.                                                               *)

ScanSoFar ==
    /\ expanded = Written(path, env)[at - 1]
    /\ Clear(path, at)
    /\ capacity = 0 => at = 1

ExpandInv ==
    /\ BufferInv
    /\ scan \in {"tilde", "loop"} => ScanSoFar
    /\ scan = "tilde" => at = 1
    /\ scan = "loop" /\ at = 1 => ~HasHome
    /\ ExpansionIsRight

LEMMA ExpandInitially == PathInit => ExpandInv
<1> SUFFICES ASSUME PathInit PROVE ExpandInv
  OBVIOUS
<1>1. BufferInv /\ path \in Text /\ env \in Envs
  BY BufferInitially DEF BufferInv, PathTypeOK
<1>2. /\ at = 1 /\ expanded = <<>> /\ scan = "tilde" /\ at - 1 = 0
  BY DEF PathInit
<1>3. Written(path, env)[0] = <<>>
  BY <1>1, ExpansionIsWritten DEF IsWritten
<1>4. Clear(path, 1)
  <2>1. ASSUME NEW t \in Tokens(path) PROVE ~(t < 1)
    <3>1. t \in 1..Len(path)
      BY <1>1, TokensAre
    <3> QED
      BY <3>1
  <2> QED
    BY <2>1 DEF Clear
<1> QED
  BY <1>1, <1>2, <1>3, <1>4 DEF ExpandInv, ScanSoFar, ExpansionIsRight

\* A turn that passes the token at hand, or one character, and writes its
\* piece.
LEMMA TurnExpands ==
  ASSUME ExpandInv, scan = "loop", at <= Len(path),
         NEW last \in at..Len(path), NEW bytes \in Text, Turn(last, bytes),
         bytes = Piece(path, env, at),
         TokenEnd(path, at) = last \/ (TokenEnd(path, at) = 0 /\ last = at)
  PROVE  ExpandInv'
<1>1. /\ BufferInv /\ path \in Text /\ env \in Envs /\ Len(path) \in Nat
      /\ at \in 1..Len(path) /\ expanded \in Text /\ capacity \in Nat
  BY DEF ExpandInv, BufferInv, PathTypeOK, Text
<1>2. /\ at' = last + 1 /\ path' = path /\ env' = env /\ scan' = "loop"
      /\ Appended(bytes) /\ expanded' = expanded \o bytes
  BY DEF Turn, Appended
<1>3. BufferInv'
  BY <1>1, TurnFits
<1>4. capacity' # 0
  <2>1. capacity' \in Nat /\ expanded' \in Text /\ Len(expanded') < capacity'
    BY <1>1, <1>2, AppendedFits
  <2>2. Len(expanded') \in Nat
    BY <2>1 DEF Text
  <2> QED
    BY <2>1, <2>2
<1>5. expanded = Written(path, env)[at - 1] /\ Clear(path, at)
  BY DEF ExpandInv, ScanSoFar
<1>6. Written(path, env)[at] = expanded \o bytes
  BY <1>1, <1>5, ExpansionIsWritten DEF IsWritten
<1>7. Written(path, env)[last] = Written(path, env)[at] /\ Clear(path, last + 1)
  <2>1. CASE TokenEnd(path, at) = last
    <3>1. /\ \A k \in at + 1 .. last :
                k \notin Tokens(path) /\ Piece(path, env, k) = <<>>
          /\ Clear(path, last + 1)
      BY <1>1, <1>5, <2>1, TokenCounts, Zenon
    <3>2. at \in 0..Len(path)
      BY <1>1
    <3> QED
      BY <1>1, <3>1, <3>2, NothingWritten
  <2>2. CASE TokenEnd(path, at) = 0 /\ last = at
    BY <1>1, <1>5, <2>2, CharCounts
  <2> QED
    BY <2>1, <2>2
<1>8. at' - 1 = last /\ at' # 1
  BY <1>1, <1>2
<1>9. ScanSoFar'
  BY <1>2, <1>4, <1>6, <1>7, <1>8 DEF ScanSoFar
<1> QED
  BY <1>2, <1>3, <1>8, <1>9 DEF ExpandInv, ExpansionIsRight

LEMMA ExpandStep == ExpandInv /\ [PathNext]_scanner => ExpandInv'
<1> SUFFICES ASSUME ExpandInv, [PathNext]_scanner PROVE ExpandInv'
  OBVIOUS
<1>0. /\ BufferInv /\ BufferInv'
      /\ path \in Text /\ env \in Envs /\ Len(path) \in Nat
      /\ at \in 1..Len(path) + 1 /\ expanded \in Text /\ capacity \in Nat
  BY BufferStep DEF ExpandInv, BufferInv, PathTypeOK, Text
<1>1. CASE Tilde
  <2>1. /\ path' = path /\ env' = env /\ scan' = "loop" /\ scan = "tilde"
        /\ at = 1
    BY <1>1 DEF Tilde, ExpandInv
  <2>2. expanded = Written(path, env)[0] /\ Clear(path, 1) /\ at - 1 = 0
    BY <2>1 DEF ExpandInv, ScanSoFar
  <2>3. CASE HasHome
    <3>1. Appended(env.home) /\ at' = 2 /\ expanded' = expanded \o env.home
      BY <1>1, <2>3 DEF Tilde, Appended
    <3>2. /\ 1 \in 1..Len(path) /\ TokenEnd(path, 1) = 0
          /\ Piece(path, env, 1) = env.home
      BY <1>0, <2>2, <2>3, HomePiece
    <3>3. Clear(path, 1 + 1)
      BY <1>0, <2>2, <3>2, CharCounts
    <3>4. Written(path, env)[1] = expanded'
      <4>1. Written(path, env)[1] = Written(path, env)[1 - 1] \o Piece(path, env, 1)
        BY <1>0, <3>2, ExpansionIsWritten DEF IsWritten
      <4>2. 1 - 1 = 0
        OBVIOUS
      <4> QED
        BY <2>2, <3>1, <3>2, <4>1, <4>2
    <3>5. capacity' # 0
      <4>1. env.home \in Text
        BY <1>0, EnvsAssumption
      <4>2. /\ capacity' \in Nat /\ expanded' \in Text
            /\ Len(expanded') < capacity'
        BY <1>0, <3>1, <4>1, AppendedFits
      <4>3. Len(expanded') \in Nat
        BY <4>2 DEF Text
      <4> QED
        BY <4>2, <4>3
    <3>6. at' - 1 = 1 /\ at' = 1 + 1 /\ at' # 1
      BY <3>1
    <3>7. ScanSoFar'
      BY <2>1, <3>3, <3>4, <3>5, <3>6 DEF ScanSoFar
    <3> QED
      BY <1>0, <2>1, <3>6, <3>7 DEF ExpandInv, ExpansionIsRight
  <2>4. CASE ~HasHome
    <3>1. UNCHANGED <<expanded, capacity, at>>
      BY <1>1, <2>4 DEF Tilde
    <3>2. ~HasHome'
      BY <2>1, <2>4 DEF HasHome
    <3>3. ScanSoFar'
      BY <2>1, <2>2, <3>1 DEF ScanSoFar
    <3> QED
      BY <1>0, <2>1, <3>2, <3>3 DEF ExpandInv, ExpansionIsRight
  <2> QED
    BY <2>3, <2>4
<1>2. CASE Braced
  <2>1. scan = "loop" /\ IsBraced(at)
    BY <1>2 DEF Braced
  <2>2. at < Len(path)
    BY <2>1 DEF IsBraced
  <2>3. at \in 1..Len(path) /\ at <= Len(path)
    BY <1>0, <2>2
  <2>4. BracedEnd(at) \in at + 2 .. Len(path)
    BY <1>0, <2>1, <2>3, BracedEndExists
  <2> DEFINE last == BracedEnd(at)
             token == SubSeq(path, at, last)
             bytes == Substitute(SubSeq(path, at + 2, last - 1), token)
  <2>5. Turn(last, bytes)
    BY <1>2 DEF Braced
  <2>6. TokenEnd(path, at) = last
    BY <1>0, <2>1, <2>3, BracedIsToken
  <2>7. last \in at..Len(path) /\ last \in 0..Len(path)
    BY <1>0, <2>4
  <2>8. Clear(path, at)
    BY <2>1 DEF ExpandInv, ScanSoFar
  <2>9. at \in Tokens(path)
    BY <1>0, <2>3, <2>6, <2>7, <2>8, TokenCounts
  <2>10. bytes = Piece(path, env, at)
    BY <1>0, <2>1, <2>3, <2>9, BracedPiece
  <2>11. bytes \in Text
    BY <1>0, <2>3, <2>10, PieceIsText
  <2> HIDE DEF last, bytes
  <2> QED
    BY <2>1, <2>3, <2>5, <2>6, <2>7, <2>10, <2>11, TurnExpands
<1>3. CASE Bare
  <2>1. scan = "loop" /\ IsBare(at)
    BY <1>3 DEF Bare
  <2>2. at < Len(path)
    BY <2>1 DEF IsBare
  <2>3. at \in 1..Len(path) /\ at <= Len(path)
    BY <1>0, <2>2
  <2>4. BareEnd(at) \in at + 1 .. Len(path)
    BY <1>0, <2>1, <2>3, BareEndExists
  <2> DEFINE last == BareEnd(at)
             token == SubSeq(path, at, last)
             bytes == Substitute(SubSeq(path, at + 1, last), token)
  <2>5. Turn(last, bytes)
    BY <1>3 DEF Bare
  <2>6. TokenEnd(path, at) = last
    BY <1>0, <2>1, <2>3, BareIsToken
  <2>7. last \in at..Len(path)
    BY <1>0, <2>4
  <2>8. Clear(path, at)
    BY <2>1 DEF ExpandInv, ScanSoFar
  <2>9. at \in Tokens(path)
    BY <1>0, <2>3, <2>6, <2>7, <2>8, TokenCounts
  <2>10. bytes = Piece(path, env, at)
    BY <1>0, <2>1, <2>3, <2>9, BarePiece
  <2>11. bytes \in Text
    BY <1>0, <2>3, <2>10, PieceIsText
  <2> HIDE DEF last, bytes
  <2> QED
    BY <2>1, <2>3, <2>5, <2>6, <2>7, <2>10, <2>11, TurnExpands
<1>4. CASE Copy
  <2>1. scan = "loop" /\ at <= Len(path) /\ ~IsBraced(at) /\ ~IsBare(at)
        /\ Turn(at, SubSeq(path, at, at))
    BY <1>4 DEF Copy
  <2>2. at \in 1..Len(path) /\ at \in at..Len(path)
    BY <1>0, <2>1
  <2>3. TokenEnd(path, at) = 0
    BY <1>0, <2>1, <2>2, OtherIsNoToken
  <2>4. Clear(path, at) /\ (at = 1 => ~HasHome)
    BY <2>1 DEF ExpandInv, ScanSoFar
  <2>5. Piece(path, env, at) = <<path[at]>>
    BY <1>0, <2>2, <2>3, <2>4, CharPiece
  <2>6. SubSeq(path, at, at) = <<path[at]>>
    BY <1>0, <2>2, OneChar
  <2>7. SubSeq(path, at, at) \in Text
    BY <1>0, <2>2, <2>5, <2>6, PieceIsText
  <2> QED
    BY <2>1, <2>2, <2>3, <2>5, <2>6, <2>7, TurnExpands
<1>5. CASE Finish
  <2>1. /\ path' = path /\ env' = env /\ scan' = "done"
        /\ scan = "loop" /\ at > Len(path)
        /\ expanded' = IF capacity = 0 THEN path ELSE expanded
    BY <1>5 DEF Finish
  <2>2. at - 1 = Len(path) /\ (capacity = 0 => Len(path) = 0)
    BY <1>0, <2>1 DEF ExpandInv, ScanSoFar
  <2>3. expanded = Expansion(path, env)
    BY <1>0, <2>1, <2>2, ExpansionIsWritten DEF ExpandInv, ScanSoFar
  <2>4. CASE capacity # 0
    BY <1>0, <2>1, <2>3, <2>4 DEF ExpandInv, ExpansionIsRight
  <2>5. CASE capacity = 0
    <3>1. path = <<>>
      BY <1>0, <2>2, <2>5 DEF Text
    <3>2. Expansion(path, env) = <<>>
      BY <1>0, <2>2, <2>5, ExpansionIsWritten DEF IsWritten
    <3> QED
      BY <1>0, <2>1, <2>5, <3>1, <3>2 DEF ExpandInv, ExpansionIsRight
  <2> QED
    BY <2>4, <2>5
<1>6. CASE OutOfMemory
  <2>1. scan' = "null"
    BY <1>6 DEF OutOfMemory
  <2> QED
    BY <1>0, <2>1 DEF ExpandInv, ExpansionIsRight
<1>7. CASE UNCHANGED scanner
  <2>1. UNCHANGED <<path, env, at, expanded, capacity, scan>>
    BY <1>7 DEF scanner
  <2>2. HasHome' => HasHome
    BY <2>1 DEF HasHome
  <2>3. ScanSoFar => ScanSoFar'
    BY <2>1 DEF ScanSoFar
  <2> QED
    BY <1>0, <2>1, <2>2, <2>3 DEF ExpandInv, ExpansionIsRight
<1> QED
  BY <1>1, <1>2, <1>3, <1>4, <1>5, <1>6, <1>7 DEF PathNext, Turns

\* A path that is returned is the reference's expansion, for every alphabet
\* and environment and for paths of every length: every token replaced once,
\* every other character kept, in order (path_expand.c:57).
THEOREM ExpansionIsAlwaysRight == PathSpec => []ExpansionIsRight
<1>1. ExpandInv => ExpansionIsRight
  BY DEF ExpandInv
<1> QED
  BY <1>1, ExpandInitially, ExpandStep, PTL DEF PathSpec

=============================================================================
