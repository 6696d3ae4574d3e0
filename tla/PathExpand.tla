----------------------------- MODULE PathExpand -----------------------------
(***************************************************************************)
(* typio_rime_expand_path (path_expand.c): one scan over a path from the   *)
(* configuration that replaces a leading ~, ${NAME} and $NAME by what the  *)
(* environment holds and copies everything else.  One action per way       *)
(* through the loop; each appends to a buffer that doubles when it must,   *)
(* and each may run out of memory.                                         *)
(***************************************************************************)
EXTENDS Naturals, SequencesExt

CONSTANTS
    Letters,   \* the characters a variable's name may begin with
    Digits,    \* the characters it may only go on with
    MaxPath,   \* bound on the length of a path
    Envs,      \* environments: [home, value]; value maps names to values
    FirstSize  \* the first capacity of the buffer, 64

Signs == {"~", "/", "$", "{", "}"}
Chars == Letters \cup Digits \cup Signs
Text == Seq(Chars)

ASSUME NamesAssumption == Signs \cap (Letters \cup Digits) = {}

ASSUME EnvsAssumption ==
    \A e \in Envs : /\ e.home \in Text /\ <<>> \notin DOMAIN e.value
                   /\ \A n \in DOMAIN e.value : e.value[n] \in Text
ASSUME SizeAssumption == FirstSize \in Nat \ {0} /\ MaxPath \in Nat

VARIABLES
    path,      \* the argument
    env,       \* what getenv answers
    at,        \* i, counted from 1
    expanded,  \* the buffer's text
    capacity,  \* its size; 0 for no buffer
    scan       \* "tilde", "loop", "done", or "null": no memory

scanner == <<path, env, at, expanded, capacity, scan>>

PathTypeOK ==
    /\ path \in Text /\ env \in Envs
    /\ at \in 1..Len(path) + 1
    /\ expanded \in Text /\ capacity \in Nat
    /\ scan \in {"tilde", "loop", "done", "null"}

PathInit ==
    /\ path \in BoundedSeq(Chars, MaxPath)
    /\ env \in Envs
    /\ at = 1 /\ expanded = <<>> /\ capacity = 0
    /\ scan = "tilde"

-----------------------------------------------------------------------------
(* The buffer.                                                             *)

\* The text and its terminating NUL.
NulForgotten(bytes) == Len(expanded) + Len(bytes)
Required(bytes) == Len(expanded) + Len(bytes) + 1

\* The buffer's size, 64 at first, is doubled while it is not enough.
Grown(required) ==
    LET size[k \in 0..required] ==
            IF k = 0 THEN IF capacity = 0 THEN FirstSize ELSE capacity
            ELSE IF size[k - 1] < required THEN 2 * size[k - 1]
            ELSE size[k - 1]
    IN  size[required]

Appended(bytes) ==
    /\ expanded' = expanded \o bytes
    /\ capacity' = IF Required(bytes) > capacity
                   THEN Grown(Required(bytes)) ELSE capacity

-----------------------------------------------------------------------------
(* The scan.                                                               *)

IsVarStart(i) == i <= Len(path) /\ path[i] \in Letters
IsVarChar(i) == i <= Len(path) /\ path[i] \in Letters \cup Digits

\* Where the ${NAME} that begins at i may be closed.
ClosedByEnd(i) == {j \in i + 2 .. Len(path) + 1 : j > Len(path) \/ path[j] = "}"}
Closings(i) == {j \in i + 2 .. Len(path) : path[j] = "}"}

IsBraced(i) ==
    i < Len(path) /\ path[i] = "$" /\ path[i + 1] = "{" /\ Closings(i) # {}
IsBare(i) == i < Len(path) /\ path[i] = "$" /\ IsVarStart(i + 1)

\* The last character of the token at i.
BracedEnd(i) == CHOOSE j \in Closings(i) : \A k \in Closings(i) : j <= k
NameMissed(i) == i - 1
BareEnd(i) ==
    CHOOSE j \in i + 1 .. Len(path) :
        ~IsVarChar(j + 1) /\ \A k \in i + 1 .. j : IsVarChar(k)

\* What stands for a variable: its value, or the token itself when the
\* variable is unset or empty.
Value(name) == IF name \in DOMAIN env.value THEN env.value[name] ELSE <<>>
UnsetVanishes(name, token) == Value(name)
Substitute(name, token) == IF Value(name) # <<>> THEN Value(name) ELSE token

HasHome ==
    /\ path = <<"~">> \/ IsPrefix(<<"~", "/">>, path)
    /\ env.home # <<>>

Tilde ==
    /\ scan = "tilde"
    /\ scan' = "loop"
    /\ IF HasHome THEN Appended(env.home) /\ at' = 2
                  ELSE UNCHANGED <<expanded, capacity, at>>
    /\ UNCHANGED <<path, env>>

\* One turn of the loop that consumes the characters up to last.
OneTooFar(last, bytes) ==
    /\ Appended(bytes)
    /\ at' = last + 2
    /\ UNCHANGED <<path, env, scan>>

Turn(last, bytes) ==
    /\ Appended(bytes)
    /\ at' = last + 1
    /\ UNCHANGED <<path, env, scan>>

Braced ==
    /\ scan = "loop" /\ IsBraced(at)
    /\ LET last == BracedEnd(at)
       IN  Turn(last, Substitute(SubSeq(path, at + 2, last - 1),
                                 SubSeq(path, at, last)))

Bare ==
    /\ scan = "loop" /\ IsBare(at)
    /\ LET last == BareEnd(at)
       IN  Turn(last, Substitute(SubSeq(path, at + 1, last),
                                 SubSeq(path, at, last)))

\* Any other character, and a $ that begins no token.
Copy ==
    /\ scan = "loop" /\ at <= Len(path) /\ ~IsBraced(at) /\ ~IsBare(at)
    /\ Turn(at, SubSeq(path, at, at))

\* No buffer means that nothing was appended: a copy of the path.
Finish ==
    /\ scan = "loop" /\ at > Len(path)
    /\ scan' = "done"
    /\ expanded' = IF capacity = 0 THEN path ELSE expanded
    /\ UNCHANGED <<path, env, at, capacity>>

\* realloc, typio_strndup or typio_strdup fails: the buffer is freed.
OutOfMemory ==
    /\ \/ scan = "tilde" /\ HasHome
       \/ scan = "loop"
    /\ scan' = "null"
    /\ expanded' = <<>> /\ capacity' = 0
    /\ UNCHANGED <<path, env, at>>

Turns == Tilde \/ Braced \/ Bare \/ Copy \/ Finish
PathNext == Turns \/ OutOfMemory
PathSpec == PathInit /\ [][PathNext]_scanner

-----------------------------------------------------------------------------
(* Properties.                                                             *)

\* Reference definition, by a grammar: s is ${NAME} with no } in NAME, or
\* $NAME with a name.
IsBracedToken(s) ==
    /\ Len(s) >= 3 /\ s[1] = "$" /\ s[2] = "{"
    /\ {k \in 3..Len(s) : s[k] = "}"} = {Len(s)}
IsBareToken(s) ==
    /\ Len(s) >= 2 /\ s[1] = "$" /\ s[2] \in Letters
    /\ \A k \in 3..Len(s) : s[k] \in Letters \cup Digits

\* Where the longest token of p that begins at i ends; 0 for none.
TokenEnd(p, i) ==
    LET ends == {j \in i..Len(p) : \/ IsBracedToken(SubSeq(p, i, j))
                                   \/ IsBareToken(SubSeq(p, i, j))}
    IN  IF ends = {} THEN 0 ELSE Max(ends)

\* Where those tokens of p begin that are not within an earlier one.
Tokens(p) ==
    LET among[i \in 0..Len(p)] ==
            IF i = 0 THEN {}
            ELSE IF TokenEnd(p, i) > 0
                    /\ \A j \in among[i - 1] : TokenEnd(p, j) < i
                 THEN among[i - 1] \cup {i} ELSE among[i - 1]
    IN  among[Len(p)]

\* What the i-th character of p contributes in the environment e.
Piece(p, e, i) ==
    IF i \in Tokens(p)
    THEN LET token == SubSeq(p, i, TokenEnd(p, i))
             name == IF token[2] = "{" THEN SubSeq(token, 3, Len(token) - 1)
                                       ELSE Tail(token)
         IN  IF name \in DOMAIN e.value /\ e.value[name] # <<>>
             THEN e.value[name] ELSE token
    ELSE IF \E t \in Tokens(p) : t < i /\ i <= TokenEnd(p, t) THEN <<>>
    ELSE IF /\ i = 1 /\ p[1] = "~" /\ (Len(p) = 1 \/ p[2] = "/")
            /\ e.home # <<>>
         THEN e.home
    ELSE <<p[i]>>

Expansion(p, e) == FlattenSeq([i \in 1..Len(p) |-> Piece(p, e, i)])

\* A path that is returned is the reference's, with no part of it lost,
\* doubled or expanded again, however tokens, braces and lone dollars meet
\* (path_expand.c:57).
ExpansionIsRight == scan = "done" => expanded = Expansion(path, env)

\* The buffer always has room for the NUL that append_bytes writes
\* (path_expand.c:22).
NulFits == capacity > 0 => Len(expanded) < capacity

\* With nothing set that the path could refer to, the path comes back as it
\* went in, whatever it looks like (path_expand.c:114, 140).
NothingSet == env.home = <<>> /\ \A n \in DOMAIN env.value : env.value[n] = <<>>
KeptVerbatim == NothingSet /\ scan = "done" => expanded = path

\* Every turn of the loop consumes a character, so the scan ends
\* (path_expand.c:78), whether or not memory runs out.
ScanEnds == <>(scan \in {"done", "null"})

=============================================================================
