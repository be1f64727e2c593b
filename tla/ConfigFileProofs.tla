-------------------------- MODULE ConfigFileProofs --------------------------
(***************************************************************************)
(* What loadConfigFile() reads is what the file says, for files of any     *)
(* length and any size of the line buffer.                                 *)
(*                                                                         *)
(* The loop's invariant: what has been read ends where a line ends, and    *)
(* the settings are those of the lines that begin in what has been read.   *)
(***************************************************************************)
EXTENDS ConfigFile, ProofFacts, SequenceTheorems, TLAPS

-----------------------------------------------------------------------------
(* The lines of a file f.                                                  *)

\* Where the line ends that begins at i, its newline left out.
LineEnd(f, i) == Min({k - 1 : k \in At(f, "\n", i)} \cup {Len(f)})

LineIn(f, i) == SubSeq(f, i, LineEnd(f, i))

StartsIn(f) == {i \in 1..Len(f) : i = 1 \/ f[i - 1] = "\n"}

\* The line L gives the key k a value.
Sets(L, k) == Len(L) >= 2 /\ L[1] = k /\ L[2] = "="

\* The lines that begin in the first p characters and give k a value.
Setters(f, p, k) == {i \in StartsIn(f) : i <= p /\ Sets(LineIn(f, i), k)}

\* The value that the lines beginning in the first p characters give k.
SaidBy(f, p, k) ==
    IF Setters(f, p, k) = {} THEN <<>>
    ELSE LET L == LineIn(f, Max(Setters(f, p, k))) IN SubSeq(L, 3, Len(L))

\* string::find() finds the first occurrence.
LEMMA MinFacts ==
    ASSUME NEW S, S \subseteq Nat, S # {}
    PROVE  Min(S) \in S /\ \A y \in S : Min(S) <= y
BY SmallestExists DEF Min

\* A line that is read later overrides the ones before it.
LEMMA MaxIs ==
    ASSUME NEW S, S \subseteq Nat, NEW x \in S, \A y \in S : y <= x
    PROVE  Max(S) = x
<1>1. PICK m : m = Max(S)
  OBVIOUS
<1>2. m \in S /\ \A y \in S : m >= y
  BY <1>1 DEF Max
<1>3. m \in Nat /\ x \in Nat /\ m <= x /\ m >= x
  BY <1>2
<1> QED BY <1>1, <1>3

\* A line ends before the first newline, or with the file.
LEMMA LineEndFacts ==
    ASSUME NEW f \in Seq(Alphabet), NEW i \in 1..Len(f)
    PROVE  /\ LineEnd(f, i) \in (i - 1)..Len(f)
           /\ \A k \in i..LineEnd(f, i) : f[k] # "\n"
           /\ LineEnd(f, i) < Len(f) => f[LineEnd(f, i) + 1] = "\n"
<1>1. PICK n : n = Len(f)
  OBVIOUS
<1>2. n \in Nat /\ i \in 1..n
  BY <1>1
<1>3. PICK S : S = {k - 1 : k \in At(f, "\n", i)} \cup {n}
  OBVIOUS
<1>4. \A x \in S : x \in (i - 1)..n /\ (x = n \/ (x + 1 \in i..n /\ f[x + 1] = "\n"))
  BY <1>1, <1>2, <1>3 DEF At
<1>5. \A k \in i..n : f[k] = "\n" => k - 1 \in S
  BY <1>1, <1>3 DEF At
<1>6. S \subseteq Nat /\ S # {} /\ n \in S
  BY <1>2, <1>3, <1>4
<1>7. PICK e : e = Min(S)
  OBVIOUS
<1>8. e \in S /\ \A y \in S : e <= y
  BY <1>6, <1>7, MinFacts
<1>9. LineEnd(f, i) = e
  BY <1>1, <1>3, <1>7 DEF LineEnd
<1>10. ASSUME NEW k \in i..e
       PROVE  f[k] # "\n"
  <2>1. e \in (i - 1)..n /\ k \in i..n
    BY <1>2, <1>4, <1>8
  <2>2. ~(e <= k - 1)
    BY <1>2, <2>1
  <2> QED BY <1>5, <1>8, <2>1, <2>2
<1>11. e \in (i - 1)..n /\ (e < n => f[e + 1] = "\n")
  BY <1>2, <1>4, <1>8
<1> QED BY <1>1, <1>9, <1>10, <1>11

\* The characters of a line.
LEMMA LineFacts ==
    ASSUME NEW f \in Seq(Alphabet), NEW i \in 1..Len(f)
    PROVE  /\ LineIn(f, i) \in Seq(Alphabet)
           /\ Len(LineIn(f, i)) = LineEnd(f, i) - i + 1
           /\ \A j \in 1..Len(LineIn(f, i)) :
                 LineIn(f, i)[j] = f[i + j - 1] /\ LineIn(f, i)[j] # "\n"
<1>1. PICK e : e = LineEnd(f, i)
  OBVIOUS
<1>2. e \in (i - 1)..Len(f) /\ (\A k \in i..e : f[k] # "\n") /\ Len(f) \in Nat
  BY <1>1, LineEndFacts
<1>3. \A k \in i..e : f[k] \in Alphabet
  <2>1. \A k \in i..e : k \in 1..Len(f)
    BY <1>2
  <2> QED BY <2>1, ElementOfSeq
<1>4. PICK L : L = SubSeq(f, i, e)
  OBVIOUS
<1>5. /\ L \in Seq(Alphabet) /\ Len(L) = e - i + 1
      /\ \A j \in 1..(e - i + 1) : L[j] = f[i + j - 1]
  <2>1. i \in Int /\ e \in Int
    BY <1>2
  <2>2. /\ L \in Seq(Alphabet)
        /\ Len(L) = IF i <= e THEN e - i + 1 ELSE 0
        /\ \A j \in 1..(e - i + 1) : L[j] = f[i + j - 1]
    BY <1>3, <1>4, <2>1, SubSeqProperties
  <2> QED BY <1>2, <2>1, <2>2
<1>6. ASSUME NEW j \in 1..Len(L)
      PROVE  L[j] = f[i + j - 1] /\ L[j] # "\n"
  <2>1. i + j - 1 \in i..e /\ j \in 1..(e - i + 1)
    BY <1>2, <1>5
  <2> QED BY <1>2, <1>5, <2>1
<1> QED BY <1>1, <1>4, <1>5, <1>6 DEF LineIn


-----------------------------------------------------------------------------
(* fgets().                                                                *)

\* At the end of the file fgets() reads nothing and meets the end.
LEMMA FgetsAtEnd ==
    ASSUME file \in Seq(Alphabet), pos = Len(file)
    PROVE  FgetsEnd = Len(file) /\ FgetsEof
<1>1. (pos + 1)..Len(file) = {}
  <2>1. Len(file) \in Nat
    OBVIOUS
  <2> QED BY <2>1
<1> QED BY <1>1 DEF FgetsEnd, FgetsEof

\* A line that fits the buffer is read with its newline, or to the end of the file,
\* which fgets() has then met.
LEMMA FgetsLine ==
    ASSUME file \in Seq(Alphabet), pos \in 0..(Len(file) - 1),
           NEW e, e = LineEnd(file, pos + 1), e - pos < LineSize - 1
    PROVE  \/ e = Len(file) /\ FgetsEnd = e /\ FgetsEof
           \/ e < Len(file) /\ FgetsEnd = e + 1 /\ ~FgetsEof
<1>1. PICK n : n = Len(file)
  OBVIOUS
<1>2. n \in Nat /\ pos \in 0..(n - 1) /\ pos + 1 \in 1..n /\ LineSize \in Nat
  BY <1>1, ConfigFileAssumption
<1>3. /\ e \in pos..n /\ (\A k \in (pos + 1)..e : file[k] # "\n")
      /\ e < n => file[e + 1] = "\n"
  BY <1>1, <1>2, LineEndFacts
<1>4. PICK S : S = {k \in (pos + 1)..n : file[k] = "\n" \/ k = pos + LineSize - 1}
  OBVIOUS
<1>5. FgetsEnd = (IF S = {} THEN n ELSE Min(S)) /\ (FgetsEof <=> S = {})
  BY <1>1, <1>4 DEF FgetsEnd, FgetsEof
<1>6. \A k \in S : k \in (pos + 1)..n /\ k > e
  BY <1>2, <1>3, <1>4
<1>7. CASE e = n
  <2>1. S = {}
    BY <1>2, <1>6, <1>7
  <2> QED BY <1>1, <1>5, <1>7, <2>1
<1>8. CASE e < n
  <2>1. e + 1 \in S
    BY <1>2, <1>3, <1>4, <1>8
  <2>2. PICK m : m = Min(S)
    OBVIOUS
  <2>3. S \subseteq Nat /\ S # {}
    BY <1>2, <1>6, <2>1
  <2>4. m \in S /\ \A y \in S : m <= y
    BY <2>2, <2>3, MinFacts
  <2>5. m \in Int /\ m > e /\ m <= e + 1
    BY <1>6, <2>1, <2>4
  <2>6. m = e + 1
    BY <1>3, <2>5
  <2> QED BY <1>1, <1>5, <1>8, <2>2, <2>3, <2>6
<1> QED BY <1>2, <1>3, <1>7, <1>8

-----------------------------------------------------------------------------
(* Cutting a line into a key and a value.                                  *)

\* The key before the first '=' is the character k exactly when '=' is the second
\* character and k the first.
LEMMA KeyFacts ==
    ASSUME NEW str \in Seq(Alphabet), NEW idx \in 1..Len(str), NEW k
    PROVE  SubSeq(str, 1, idx - 1) = <<k>> <=> idx = 2 /\ str[1] = k
<1>1. PICK key : key = SubSeq(str, 1, idx - 1)
  OBVIOUS
<1>2. Len(str) \in Nat /\ idx \in Int /\ idx - 1 \in Int /\ 1 \in Int
  OBVIOUS
<1>3. \A i \in 1..(idx - 1) : str[i] \in Alphabet
  <2>1. \A i \in 1..(idx - 1) : i \in 1..Len(str)
    BY <1>2
  <2> QED BY <2>1, ElementOfSeq
<1>4. /\ key \in Seq(Alphabet) /\ Len(key) = idx - 1
      /\ \A i \in 1..(idx - 1) : key[i] = str[i]
  <2>1. /\ key \in Seq(Alphabet)
        /\ Len(key) = IF 1 <= idx - 1 THEN (idx - 1) - 1 + 1 ELSE 0
        /\ \A i \in 1..((idx - 1) - 1 + 1) : key[i] = str[1 + i - 1]
    BY <1>1, <1>2, <1>3, SubSeqProperties
  <2> QED BY <1>2, <2>1
<1>5. ASSUME key = <<k>>
      PROVE  idx = 2 /\ str[1] = k
  <2>1. Len(key) = 1 /\ key[1] = k
    BY <1>5
  <2>2. idx = 2
    <3>1. Len(key) = idx - 1
      BY <1>4
    <3>2. idx - 1 = 1
      BY <2>1, <3>1
    <3> QED BY <1>2, <3>2
  <2>3. 1 \in 1..(idx - 1)
    BY <2>2
  <2>4. key[1] = str[1]
    BY <1>4, <2>3
  <2> QED BY <2>1, <2>2, <2>4
<1>6. ASSUME idx = 2, str[1] = k
      PROVE  key = <<k>>
  <2>1. Len(key) = 1 /\ key[1] = k /\ k \in Alphabet
    BY <1>3, <1>4, <1>6
  <2>2. <<k>> \in Seq(Alphabet) /\ Len(<<k>>) = 1 /\ <<k>>[1] = k
    BY <2>1
  <2>3. \A i \in 1..Len(key) : key[i] = <<k>>[i]
    BY <2>1, <2>2
  <2> QED BY <1>4, <2>1, <2>2, <2>3, SeqEqual
<1> QED BY <1>1, <1>5, <1>6


\* The value of a line is what follows its '=', with the newline left out when the
\* line has one.
LEMMA ValueFacts ==
    ASSUME NEW L \in Seq(Alphabet), NEW str \in Seq(Alphabet),
           \A j \in 1..Len(L) : str[j] = L[j] /\ L[j] # "\n",
           \/ Len(str) = Len(L)
           \/ Len(str) = Len(L) + 1 /\ str[Len(L) + 1] = "\n",
           Len(L) >= 2
    PROVE  ValueOf(str, 2) = SubSeq(L, 3, Len(L))
<1>1. PICK n : n = Len(L)
  OBVIOUS
<1>2. n \in Nat /\ n >= 2 /\ 3 \in Int /\ n \in Int /\ Len(str) \in Nat
  BY <1>1
<1>3. ValueOf(str, 2) = SubSeq(str, 3, n)
  <2>1. CASE Len(str) = n
    <3>1. At(str, "\n", 2) = {}
      BY <1>1, <1>2, <2>1 DEF At
    <3> QED BY <2>1, <3>1 DEF ValueOf
  <2>2. CASE Len(str) = n + 1 /\ str[n + 1] = "\n"
    <3>1. PICK S : S = At(str, "\n", 2)
      OBVIOUS
    <3>2. S = {n + 1}
      BY <1>1, <1>2, <2>2, <3>1 DEF At
    <3>3. Min(S) = n + 1
      <4>1. S \subseteq Nat /\ S # {}
        BY <1>2, <3>2
      <4>2. Min(S) \in S
        BY <4>1, MinFacts
      <4> QED BY <3>2, <4>2
    <3>4. ValueOf(str, 2) = SubSeq(str, 3, (n + 1) - 1)
      <4>1. S # {}
        BY <3>2
      <4>2. ValueOf(str, 2) = SubSeq(str, 2 + 1, Min(S) - 1)
        BY <3>1, <4>1 DEF ValueOf
      <4> QED BY <3>3, <4>2
    <3>5. (n + 1) - 1 = n
      BY <1>2
    <3> QED BY <3>4, <3>5
  <2> QED BY <1>1, <2>1, <2>2
<1>4. \A i \in 3..n : i \in 1..n /\ str[i] = L[i] /\ L[i] \in Alphabet
  <2>1. \A i \in 3..n : i \in 1..n
    BY <1>2
  <2>2. \A i \in 1..n : L[i] \in Alphabet
    BY <1>1, ElementOfSeq
  <2> QED BY <1>1, <2>1, <2>2
<1>5. PICK v : v = SubSeq(str, 3, n)
  OBVIOUS
<1>6. PICK w : w = SubSeq(L, 3, n)
  OBVIOUS
<1>7. /\ v \in Seq(Alphabet) /\ Len(v) = IF 3 <= n THEN n - 3 + 1 ELSE 0
      /\ \A i \in 1..(n - 3 + 1) : v[i] = str[3 + i - 1]
  <2>1. \A i \in 3..n : str[i] \in Alphabet
    BY <1>4
  <2> QED BY <1>2, <1>5, <2>1, SubSeqProperties
<1>8. /\ w \in Seq(Alphabet) /\ Len(w) = IF 3 <= n THEN n - 3 + 1 ELSE 0
      /\ \A i \in 1..(n - 3 + 1) : w[i] = L[3 + i - 1]
  BY <1>2, <1>4, <1>6, SubSeqProperties
<1>9. ASSUME NEW i \in 1..Len(v)
      PROVE  v[i] = w[i]
  <2>1. i \in 1..(n - 3 + 1) /\ 3 + i - 1 \in 3..n
    BY <1>2, <1>7
  <2> QED BY <1>4, <1>7, <1>8, <2>1
<1>10. v = w
  BY <1>7, <1>8, <1>9, SeqEqual
<1> QED BY <1>1, <1>3, <1>5, <1>6, <1>10

\* A line sets the string, sets the number, or is passed over.
LEMMA AssignedFacts ==
    ASSUME NEW L \in Seq(Alphabet), NEW str \in Seq(Alphabet),
           \A j \in 1..Len(L) : str[j] = L[j] /\ L[j] # "\n",
           \/ Len(str) = Len(L)
           \/ Len(str) = Len(L) + 1 /\ str[Len(L) + 1] = "\n"
    PROVE  /\ Sets(L, "s") => Assigned(str) = [conf EXCEPT !.s = SubSeq(L, 3, Len(L))]
           /\ Sets(L, "n") => Assigned(str) = [conf EXCEPT !.n = Atoi(SubSeq(L, 3, Len(L)))]
           /\ ~Sets(L, "s") /\ ~Sets(L, "n") => Assigned(str) = conf
<1>1. PICK E : E = At(str, "=", 1)
  OBVIOUS
<1>2. Len(str) \in Nat /\ Len(L) \in Nat /\ \A j \in E : j \in 1..Len(str) /\ str[j] = "="
  BY <1>1 DEF At
<1>3. CASE E = {}
  <2>1. ~(Len(L) >= 2 /\ L[2] = "=")
    <3> SUFFICES ASSUME Len(L) >= 2, L[2] = "="
                 PROVE  FALSE
      OBVIOUS
    <3>1. 2 \in 1..Len(L) /\ 2 \in 1..Len(str)
      BY <1>2
    <3>2. str[2] = "="
      BY <3>1
    <3> QED BY <1>1, <1>3, <3>1, <3>2 DEF At
  <2> QED BY <1>1, <1>3, <2>1 DEF Assigned, Sets
<1>4. CASE E # {}
  <2>1. PICK idx : idx = Min(E)
    OBVIOUS
  <2>2. idx \in E /\ \A y \in E : idx <= y
    <3>1. E \subseteq Nat
      BY <1>2
    <3> QED BY <1>4, <2>1, <3>1, MinFacts
  <2>3. idx \in 1..Len(str) /\ str[idx] = "="
    BY <1>2, <2>2
  <2>4. PICK key : key = SubSeq(str, 1, idx - 1)
    OBVIOUS
  <2>5. Assigned(str) = CASE key = <<"s">> -> [conf EXCEPT !.s = ValueOf(str, idx)]
                          [] key = <<"n">> -> [conf EXCEPT !.n = Atoi(ValueOf(str, idx))]
                          [] OTHER -> conf
    BY <1>1, <1>4, <2>1, <2>4 DEF Assigned
  <2>6. ASSUME NEW k \in {"s", "n"}
        PROVE  key = <<k>> <=> Sets(L, k)
    <3>1. key = <<k>> <=> idx = 2 /\ str[1] = k
      BY <2>3, <2>4, KeyFacts
    <3>2. ASSUME idx = 2, str[1] = k
          PROVE  Sets(L, k)
      <4>1. Len(str) >= 2 /\ str[2] = "="
        BY <1>2, <2>3, <3>2
      <4>2. Len(L) >= 2
        BY <1>2, <4>1
      <4>3. 1 \in 1..Len(L) /\ 2 \in 1..Len(L)
        BY <1>2, <4>2
      <4>4. L[1] = str[1] /\ L[2] = str[2]
        BY <4>3
      <4> QED BY <3>2, <4>1, <4>2, <4>4 DEF Sets
    <3>3. ASSUME Sets(L, k)
          PROVE  idx = 2 /\ str[1] = k
      <4>1. Len(L) >= 2 /\ L[1] = k /\ L[2] = "="
        BY <3>3 DEF Sets
      <4>2. 1 \in 1..Len(L) /\ 2 \in 1..Len(L) /\ 2 \in 1..Len(str)
        BY <1>2, <4>1
      <4>3. str[1] = k /\ str[2] = "="
        BY <4>1, <4>2
      <4>4. 2 \in E /\ 1 \notin E
        BY <1>1, <1>2, <4>2, <4>3 DEF At
      <4>5. idx <= 2 /\ idx # 1 /\ idx \in Nat /\ idx >= 1
        BY <1>2, <2>2, <4>4
      <4> QED BY <4>3, <4>5
    <3> QED BY <3>1, <3>2, <3>3
  <2>7. ASSUME NEW k \in {"s", "n"}, Sets(L, k)
        PROVE  ValueOf(str, idx) = SubSeq(L, 3, Len(L))
    <3>1. idx = 2
      BY <2>3, <2>4, <2>6, <2>7, KeyFacts
    <3>2. Len(L) >= 2
      BY <2>7 DEF Sets
    <3>3. ValueOf(str, 2) = SubSeq(L, 3, Len(L))
      BY <3>2, ValueFacts
    <3> QED BY <3>1, <3>3
  <2>8. ~(Sets(L, "s") /\ Sets(L, "n"))
    BY DEF Sets
  <2>9. CASE Sets(L, "s")
    BY <2>5, <2>6, <2>7, <2>8, <2>9
  <2>10. CASE Sets(L, "n")
    BY <2>5, <2>6, <2>7, <2>8, <2>10
  <2>11. CASE ~Sets(L, "s") /\ ~Sets(L, "n")
    BY <2>5, <2>6, <2>11
  <2> QED BY <2>8, <2>9, <2>10, <2>11
<1> QED BY <1>3, <1>4


-----------------------------------------------------------------------------
(* What has been said so far.                                              *)

\* Reading one more line, the one that begins behind the first p characters.
LEMMA SaidMore ==
    ASSUME NEW f \in Seq(Alphabet), NEW p \in 0..(Len(f) - 1), p + 1 \in StartsIn(f),
           NEW q \in (p + 1)..Len(f), \A i \in StartsIn(f) : i > p + 1 => i > q,
           NEW k, NEW L, L = LineIn(f, p + 1)
    PROVE  SaidBy(f, q, k) = IF Sets(L, k) THEN SubSeq(L, 3, Len(L)) ELSE SaidBy(f, p, k)
<1>1. Len(f) \in Nat /\ p \in Nat /\ q \in Nat
  OBVIOUS
<1>2. \A i \in StartsIn(f) : i \in Nat /\ (i <= q <=> i <= p \/ i = p + 1)
  BY <1>1 DEF StartsIn
<1>3. CASE ~Sets(L, k)
  <2>1. Setters(f, q, k) = Setters(f, p, k)
    BY <1>2, <1>3 DEF Setters
  <2> QED BY <1>3, <2>1 DEF SaidBy
<1>4. CASE Sets(L, k)
  <2>1. PICK S : S = Setters(f, q, k)
    OBVIOUS
  <2>2. p + 1 \in S
    BY <1>1, <1>2, <1>4, <2>1 DEF Setters
  <2>3. S \subseteq Nat /\ \A y \in S : y <= p + 1
    BY <1>1, <1>2, <2>1 DEF Setters
  <2>4. Max(S) = p + 1
    BY <2>2, <2>3, MaxIs
  <2>5. S # {}
    BY <2>2
  <2> QED BY <1>4, <2>1, <2>4, <2>5 DEF SaidBy
<1> QED BY <1>3, <1>4

\* Nothing has been said before the first line is read.
LEMMA SaidNothing ==
    ASSUME NEW f \in Seq(Alphabet), NEW k
    PROVE  SaidBy(f, 0, k) = <<>> /\ Atoi(<<>>) = 0
<1>1. SaidBy(f, 0, k) = <<>>
  BY DEF SaidBy, Setters, StartsIn
<1>2. PICK S : S = {n \in 0..Len(<<>>) : \A i \in 1..n : <<>>[i] = "1"}
  OBVIOUS
<1>3. S = {0}
  BY <1>2
<1>4. Max(S) = 0
  <2>1. S \subseteq Nat /\ 0 \in S /\ \A y \in S : y <= 0
    BY <1>3
  <2> QED BY <2>1, MaxIs
<1> QED BY <1>1, <1>2, <1>4 DEF Atoi

\* At the end of the file everything has been said.
LEMMA SaidAll ==
    ASSUME file \in Seq(Alphabet), NEW k
    PROVE  SaidBy(file, Len(file), k) = Says(k, <<>>)
<1>1. \A i : LineAt(i) = LineIn(file, i)
  BY DEF LineAt, LineIn, LineEnd
<1>2. StartsIn(file) = Starts /\ \A i \in Starts : i <= Len(file)
  BY DEF StartsIn, Starts
<1>3. PICK S : S = Setters(file, Len(file), k)
  OBVIOUS
<1>4. S = {i \in Starts : Len(LineAt(i)) >= 2 /\ LineAt(i)[1] = k /\ LineAt(i)[2] = "="}
  BY <1>1, <1>2, <1>3 DEF Setters, Sets
<1>5. SaidBy(file, Len(file), k) =
        IF S = {} THEN <<>> ELSE SubSeq(LineAt(Max(S)), 3, Len(LineAt(Max(S))))
  BY <1>1, <1>3 DEF SaidBy
<1> QED BY <1>4, <1>5 DEF Says

-----------------------------------------------------------------------------
(* The loop's invariant.                                                   *)

\* If the lines of the file fit the buffer, fgets() stops only where a line ends,
\* and the settings are what the lines read so far say.
ReadSoFar ==
    /\ pos \in 0..Len(file)
    /\ pos = 0 \/ file[pos] = "\n" \/ eof
    /\ eof => pos = Len(file)
    /\ conf = [s |-> SaidBy(file, pos, "s"), n |-> Atoi(SaidBy(file, pos, "n"))]

LoopInv ==
    /\ file \in Seq(Alphabet)
    /\ eof \in BOOLEAN
    /\ phase = "done" => eof
    /\ LinesFit => ReadSoFar

\* One pass through the loop.
LEMMA ReadLineOK ==
    ASSUME LoopInv, LinesFit, ReadLine
    PROVE  ReadSoFar'
<1>1. /\ file \in Seq(Alphabet) /\ Len(file) \in Nat /\ ~eof /\ ReadSoFar
      /\ file' = file /\ pos' = FgetsEnd /\ eof' = FgetsEof
      /\ conf' = Assigned(SubSeq(file, pos + 1, FgetsEnd))
  BY DEF LoopInv, ReadLine, LoopEnds
<1>2. PICK cs, cn : conf = [s |-> cs, n |-> cn] /\ cs = SaidBy(file, pos, "s")
                    /\ cn = Atoi(SaidBy(file, pos, "n"))
  BY <1>1 DEF ReadSoFar
<1>3. CASE pos = Len(file)
  <2>1. pos' = Len(file) /\ eof' = TRUE /\ FgetsEnd = Len(file)
    BY <1>1, <1>3, FgetsAtEnd
  <2>2. SubSeq(file, pos + 1, FgetsEnd) = <<>>
    BY <1>1, <1>3, <2>1, SubSeqEmpty
  <2>3. Assigned(<<>>) = conf
    <3>1. PICK L : L = <<>>
      OBVIOUS
    <3>2. L \in Seq(Alphabet) /\ Len(L) = 0 /\ \A j \in 1..Len(L) : FALSE
      BY <3>1
    <3>3. ~Sets(L, "s") /\ ~Sets(L, "n")
      BY <3>2 DEF Sets
    <3>4. Assigned(L) = conf
      BY <3>2, <3>3, AssignedFacts
    <3> QED BY <3>1, <3>4
  <2>4. conf' = conf /\ pos' = pos
    BY <1>1, <1>3, <2>1, <2>2, <2>3
  <2> QED BY <1>1, <1>3, <2>1, <2>4 DEF ReadSoFar
<1>4. CASE pos # Len(file)
  <2>1. pos \in 0..(Len(file) - 1) /\ pos + 1 \in 1..Len(file) /\ pos \in Nat
    BY <1>1, <1>4 DEF ReadSoFar
  <2>2. pos + 1 \in StartsIn(file)
    <3>1. pos = 0 \/ file[pos] = "\n"
      BY <1>1 DEF ReadSoFar
    <3>2. (pos + 1) - 1 = pos
      BY <2>1
    <3> QED BY <2>1, <3>1, <3>2 DEF StartsIn
  <2>3. PICK L : L = LineIn(file, pos + 1)
    OBVIOUS
  <2>4. PICK e : e = LineEnd(file, pos + 1)
    OBVIOUS
  <2>5. /\ e \in pos..Len(file)
        /\ \A k \in (pos + 1)..e : file[k] # "\n"
        /\ e < Len(file) => file[e + 1] = "\n"
    BY <1>1, <2>1, <2>4, LineEndFacts
  <2>6. /\ L \in Seq(Alphabet) /\ Len(L) = e - pos
        /\ \A j \in 1..Len(L) : L[j] = file[pos + j] /\ L[j] # "\n"
    <3>1. /\ L \in Seq(Alphabet) /\ Len(L) = e - (pos + 1) + 1
          /\ \A j \in 1..Len(L) : L[j] = file[(pos + 1) + j - 1] /\ L[j] # "\n"
      BY <1>1, <2>1, <2>3, <2>4, LineFacts
    <3>2. e - (pos + 1) + 1 = e - pos
      BY <2>1, <2>5
    <3>3. ASSUME NEW j \in 1..Len(L)
          PROVE  L[j] = file[pos + j] /\ L[j] # "\n"
      <4>1. (pos + 1) + j - 1 = pos + j
        BY <2>1
      <4> QED BY <3>1, <4>1
    <3> QED BY <3>1, <3>2, <3>3
  <2>7. e - pos < LineSize - 1
    <3>1. LineAt(pos + 1) = L /\ pos + 1 \in Starts
      BY <2>2, <2>3 DEF LineAt, LineIn, LineEnd, StartsIn, Starts
    <3> QED BY <2>6, <3>1 DEF LinesFit
  <2>8. PICK q : q = FgetsEnd
    OBVIOUS
  <2>9. \/ e = Len(file) /\ q = e /\ FgetsEof
        \/ e < Len(file) /\ q = e + 1 /\ ~FgetsEof
    BY <1>1, <2>1, <2>4, <2>7, <2>8, FgetsLine
  <2>10. q \in (pos + 1)..Len(file) /\ q \in Int /\ pos + 1 \in Int
    BY <1>1, <2>1, <2>5, <2>9
  <2>11. PICK str : str = SubSeq(file, pos + 1, q)
    OBVIOUS
  <2>12. /\ str \in Seq(Alphabet) /\ Len(str) = q - pos
         /\ \A j \in 1..Len(str) : str[j] = file[pos + j]
    <3>1. \A i \in (pos + 1)..q : file[i] \in Alphabet
      <4>1. \A i \in (pos + 1)..q : i \in 1..Len(file)
        BY <2>1, <2>10
      <4> QED BY <1>1, <4>1, ElementOfSeq
    <3>2. /\ str \in Seq(Alphabet) /\ Len(str) = IF pos + 1 <= q THEN q - (pos + 1) + 1 ELSE 0
          /\ \A j \in 1..(q - (pos + 1) + 1) : str[j] = file[(pos + 1) + j - 1]
      BY <2>10, <2>11, <3>1, SubSeqProperties
    <3>3. pos + 1 <= q /\ q - (pos + 1) + 1 = q - pos
      BY <2>1, <2>10
    <3>4. Len(str) = q - pos
      BY <3>2, <3>3
    <3>5. ASSUME NEW j \in 1..Len(str)
          PROVE  str[j] = file[pos + j]
      <4>1. (pos + 1) + j - 1 = pos + j /\ j \in 1..(q - (pos + 1) + 1)
        BY <2>1, <3>3, <3>4
      <4> QED BY <3>2, <4>1
    <3> QED BY <3>2, <3>4, <3>5
  <2>13. /\ \A j \in 1..Len(L) : str[j] = L[j] /\ L[j] # "\n"
         /\ \/ Len(str) = Len(L)
            \/ Len(str) = Len(L) + 1 /\ str[Len(L) + 1] = "\n"
    <3>1. \A j \in 1..Len(L) : j \in 1..Len(str)
      BY <2>1, <2>5, <2>6, <2>9, <2>12
    <3>2. CASE q = e
      BY <2>6, <2>12, <3>1, <3>2
    <3>3. CASE e < Len(file) /\ q = e + 1
      <4>1. Len(str) = Len(L) + 1 /\ Len(L) + 1 \in 1..Len(str) /\ pos + (Len(L) + 1) = e + 1
        BY <2>1, <2>5, <2>6, <2>12, <3>3
      <4>2. str[Len(L) + 1] = "\n"
        BY <2>5, <2>12, <3>3, <4>1
      <4> QED BY <2>6, <2>12, <3>1, <4>1, <4>2
    <3> QED BY <2>9, <3>2, <3>3
  <2>14. /\ Sets(L, "s") => conf' = [conf EXCEPT !.s = SubSeq(L, 3, Len(L))]
         /\ Sets(L, "n") => conf' = [conf EXCEPT !.n = Atoi(SubSeq(L, 3, Len(L)))]
         /\ ~Sets(L, "s") /\ ~Sets(L, "n") => conf' = conf
    <3>1. conf' = Assigned(str)
      BY <1>1, <2>8, <2>11
    <3>2. /\ Sets(L, "s") => Assigned(str) = [conf EXCEPT !.s = SubSeq(L, 3, Len(L))]
          /\ Sets(L, "n") => Assigned(str) = [conf EXCEPT !.n = Atoi(SubSeq(L, 3, Len(L)))]
          /\ ~Sets(L, "s") /\ ~Sets(L, "n") => Assigned(str) = conf
      BY <2>6, <2>12, <2>13, AssignedFacts
    <3> QED BY <3>1, <3>2
  <2>15. ASSUME NEW k
         PROVE  SaidBy(file, q, k) = IF Sets(L, k) THEN SubSeq(L, 3, Len(L)) ELSE SaidBy(file, pos, k)
    <3>1. ASSUME NEW i \in StartsIn(file), i > pos + 1
          PROVE  i > q
      <4>1. i \in 1..Len(file) /\ file[i - 1] = "\n"
        BY <2>1, <3>1 DEF StartsIn
      <4>2. ~(i - 1 \in (pos + 1)..e)
        BY <2>5, <4>1
      <4>3. i - 1 > e
        BY <2>1, <2>5, <3>1, <4>1, <4>2
      <4> QED BY <2>5, <2>9, <4>1, <4>3
    <3> QED BY <1>1, <2>1, <2>2, <2>3, <2>10, <3>1, SaidMore
  <2>16. ~(Sets(L, "s") /\ Sets(L, "n"))
    BY DEF Sets
  <2>17. conf' = [s |-> SaidBy(file, q, "s"), n |-> Atoi(SaidBy(file, q, "n"))]
    <3>1. PICK v : v = SubSeq(L, 3, Len(L))
      OBVIOUS
    <3>2. CASE Sets(L, "s")
      <4>1. conf' = [s |-> v, n |-> cn]
        BY <1>2, <2>14, <3>1, <3>2
      <4>2. SaidBy(file, q, "s") = v /\ SaidBy(file, q, "n") = SaidBy(file, pos, "n")
        BY <2>15, <2>16, <3>1, <3>2
      <4> QED BY <1>2, <4>1, <4>2
    <3>3. CASE Sets(L, "n")
      <4>1. conf' = [s |-> cs, n |-> Atoi(v)]
        BY <1>2, <2>14, <3>1, <3>3
      <4>2. SaidBy(file, q, "n") = v /\ SaidBy(file, q, "s") = SaidBy(file, pos, "s")
        BY <2>15, <2>16, <3>1, <3>3
      <4> QED BY <1>2, <4>1, <4>2
    <3>4. CASE ~Sets(L, "s") /\ ~Sets(L, "n")
      <4>1. SaidBy(file, q, "n") = SaidBy(file, pos, "n") /\ SaidBy(file, q, "s") = SaidBy(file, pos, "s")
        BY <2>15, <3>4
      <4> QED BY <1>2, <2>14, <3>4, <4>1
    <3> QED BY <3>2, <3>3, <3>4
  <2>18. /\ q \in 0..Len(file)
         /\ q = 0 \/ file[q] = "\n" \/ eof'
         /\ eof' => q = Len(file)
    <3>1. q \in 0..Len(file)
      BY <2>1, <2>10
    <3> QED BY <1>1, <2>5, <2>9, <3>1
  <2> QED BY <1>1, <2>8, <2>17, <2>18 DEF ReadSoFar
<1> QED BY <1>3, <1>4


-----------------------------------------------------------------------------
(* The theorems.                                                           *)

\* Every pass of the loop of loadConfigFile() ends where a line of the file ends,
\* with the settings of the lines read so far.
THEOREM Invariance == Spec => []LoopInv
<1>1. Init => LoopInv
  <2> SUFFICES ASSUME Init
               PROVE  LoopInv
    OBVIOUS
  <2>1. file \in Seq(Alphabet) /\ Len(file) \in Nat
    BY ConfigFileAssumption DEF Init, Files
  <2>2. conf = [s |-> SaidBy(file, 0, "s"), n |-> Atoi(SaidBy(file, 0, "n"))]
    BY <2>1, SaidNothing DEF Init, NoConf
  <2>3. pos = 0 /\ eof = FALSE /\ phase # "done"
    BY DEF Init
  <2>4. pos \in 0..Len(file)
    BY <2>1, <2>3
  <2> QED BY <2>1, <2>2, <2>3, <2>4 DEF LoopInv, ReadSoFar
<1>2. LoopInv /\ [Next]_vars => LoopInv'
  <2> SUFFICES ASSUME LoopInv, [Next]_vars
               PROVE  LoopInv'
    OBVIOUS
  <2>1. file' = file
    BY DEF Next, vars, Fopen, ReadLine, ReadFails, LoadReturns
  <2>2. LinesFit' = LinesFit
    BY <2>1 DEF LinesFit, Starts, LineAt
  <2>3. CASE ReadLine
    <3>1. LinesFit => ReadSoFar'
      BY <2>3, ReadLineOK
    <3>2. eof' \in BOOLEAN
      BY <2>3 DEF ReadLine, FgetsEof
    <3>3. phase' # "done"
      BY <2>3 DEF ReadLine
    <3> QED BY <2>1, <2>2, <3>1, <3>2, <3>3 DEF LoopInv
  <2>4. CASE Fopen \/ ReadFails \/ LoadReturns \/ UNCHANGED vars
    <3>1. UNCHANGED <<file, pos, eof, conf>> /\ (phase' = "done" => phase = "done" \/ eof)
      BY <2>4 DEF Fopen, ReadFails, LoadReturns, vars, LoopEnds
    <3>2. ReadSoFar' = ReadSoFar
      BY <3>1 DEF ReadSoFar
    <3> QED BY <2>1, <2>2, <3>1, <3>2 DEF LoopInv
  <2> QED BY <2>3, <2>4 DEF Next
<1> QED BY <1>1, <1>2, PTL DEF Spec

\* For files of any length whose lines fit the line buffer, loadConfigFile()
\* returns with the settings the file states: of several lines with the same key
\* the last one, be it ended by a newline or by the end of the file.
THEOREM ReadsTheFile == Spec => []ReadsWhatTheFileSays
<1>1. LoopInv => ReadsWhatTheFileSays
  <2> SUFFICES ASSUME LoopInv, phase = "done", LinesFit
               PROVE  conf = [s |-> Says("s", <<>>), n |-> Atoi(Says("n", <<>>))]
    BY DEF ReadsWhatTheFileSays
  <2>1. /\ file \in Seq(Alphabet) /\ pos = Len(file)
        /\ conf = [s |-> SaidBy(file, pos, "s"), n |-> Atoi(SaidBy(file, pos, "n"))]
    BY DEF LoopInv, ReadSoFar
  <2>2. \A k : SaidBy(file, pos, k) = Says(k, <<>>)
    BY <2>1, SaidAll
  <2> QED BY <2>1, <2>2
<1> QED BY <1>1, Invariance, PTL
=============================================================================
