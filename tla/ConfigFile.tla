----------------------------- MODULE ConfigFile -----------------------------
(***************************************************************************)
(* loadConfigFile() of CommonConnectionPool.cpp: the loop that reads       *)
(* ../mysql.cnf with fgets() and cuts each line into a key and a value.    *)
(*                                                                         *)
(* A file is a sequence over a small alphabet in which "s" is the name of  *)
(* a string setting (for _ip, _username, _passwd and _dbname), "n" that of *)
(* a number (for _port, _initSize, _maxSize, _maxIdleTime and              *)
(* _connectionTimeout), "1" a digit and "\n" the newline.                  *)
(***************************************************************************)
EXTENDS Integers, Sequences, FiniteSetsExt

CONSTANTS
    MaxLength,  \* bound: the length of a file
    LineSize    \* the size of the line buffer, 1024 in the code

ASSUME ConfigFileAssumption == MaxLength \in Nat /\ LineSize \in Nat /\ LineSize > 1

Alphabet == {"s", "n", "=", "1", "\n"}

Files == UNION {[1..n -> Alphabet] : n \in 0..MaxLength}

VARIABLES
    file,    \* the contents of ../mysql.cnf
    phase,   \* "start", "reading", "failed" (false returned), "done" (true returned)
    pos,     \* how many characters have been read
    eof,     \* feof(pf)
    broken,  \* reads fail, and feof(pf) stays false: a disk error, or a directory
    conf     \* the fields of the pool

vars == <<file, phase, pos, eof, broken, conf>>

\* The fields start as the zeros and empty strings of a static object.
NoConf == [s |-> <<>>, n |-> 0]

-----------------------------------------------------------------------------
\* The positions of the character c in str from position i on.
At(str, c, i) == {k \in i..Len(str) : str[k] = c}

\* atoi(): a number is told by its leading digits, and none of them makes it zero.
Atoi(value) == Max({n \in 0..Len(value) : \A i \in 1..n : value[i] = "1"})

\* fgets(line, 1024, pf): up to LineSize - 1 characters, and not past a newline.
FgetsEnd ==
    LET stops == {k \in (pos + 1)..Len(file) : file[k] = "\n" \/ k = pos + LineSize - 1}
    IN  IF stops = {} THEN Len(file) ELSE Min(stops)

\* It has met the end of the file if neither a newline nor the buffer ended it.
FgetsEof ==
    ~ \E k \in (pos + 1)..Len(file) : file[k] = "\n" \/ k = pos + LineSize - 1

\* Seeded fault: without a newline the value ends before the last character.
ValueCutShort(str, idx) ==
    LET ends == At(str, "\n", idx)
    IN  SubSeq(str, idx + 1, (IF ends = {} THEN Len(str) ELSE Min(ends)) - 1)

\* substr(idx+1, endidx-idx-1): without a newline endidx is -1, and the length
\* becomes larger than any string.
ValueOf(str, idx) ==
    LET ends == At(str, "\n", idx)
    IN  SubSeq(str, idx + 1, IF ends = {} THEN Len(str) ELSE Min(ends) - 1)

\* The settings after the line str: a line without '=' and an unknown key are
\* passed over.
Assigned(str) ==
    IF At(str, "=", 1) = {}
    THEN conf
    ELSE LET idx == Min(At(str, "=", 1))
             key == SubSeq(str, 1, idx - 1)
         IN  CASE key = <<"s">> -> [conf EXCEPT !.s = ValueOf(str, idx)]
               [] key = <<"n">> -> [conf EXCEPT !.n = Atoi(ValueOf(str, idx))]
               [] OTHER -> conf

-----------------------------------------------------------------------------
Init ==
    /\ file \in Files
    /\ phase = "start"
    /\ pos = 0
    /\ eof = FALSE /\ broken = FALSE
    /\ conf = NoConf

Fopen ==
    /\ phase = "start"
    /\ phase' \in {"reading", "failed"}
    /\ UNCHANGED <<file, pos, eof, broken, conf>>

\* Seeded fault: the loop ends on an error instead of the end of the file.
LoopEndsOnError == broken

\* while (!feof(pf))
LoopEnds == eof

ReadLine ==
    /\ phase = "reading" /\ ~LoopEnds /\ ~broken
    /\ pos' = FgetsEnd
    /\ eof' = FgetsEof
    /\ conf' = Assigned(SubSeq(file, pos + 1, FgetsEnd))
    /\ UNCHANGED <<file, phase, broken>>

\* The result of fgets() is not looked at: the line stays empty, and the loop goes
\* round again.
ReadFails ==
    /\ phase = "reading" /\ ~LoopEnds
    /\ broken' = TRUE
    /\ UNCHANGED <<file, phase, pos, eof, conf>>

LoadReturns ==
    /\ phase = "reading" /\ LoopEnds
    /\ phase' = "done"
    /\ UNCHANGED <<file, pos, eof, broken, conf>>

Next == Fopen \/ ReadLine \/ ReadFails \/ LoadReturns

\* The constructor runs on; nothing makes a read fail.
Spec == Init /\ [][Next]_vars /\ WF_vars(Fopen \/ ReadLine \/ LoadReturns)

-----------------------------------------------------------------------------
(* What a file says, without a buffer or a loop.                           *)

\* The line of the file that starts at i, without its newline.
LineAt(i) ==
    SubSeq(file, i, Min({k - 1 : k \in At(file, "\n", i)} \cup {Len(file)}))

Starts == {i \in 1..Len(file) : i = 1 \/ file[i - 1] = "\n"}

\* The value the file gives the key k: that of the last line `k=value`.
Says(k, default) ==
    LET lines == {i \in Starts : Len(LineAt(i)) >= 2 /\ LineAt(i)[1] = k /\ LineAt(i)[2] = "="}
    IN  IF lines = {} THEN default ELSE SubSeq(LineAt(Max(lines)), 3, Len(LineAt(Max(lines))))

LinesFit == \A i \in Starts : Len(LineAt(i)) < LineSize - 1

\* If every line fits the buffer, loadConfigFile() returns with the settings of the
\* file: the last line of a key counts, whether or not it ends in a newline, and a
\* key without a line keeps its zero.
ReadsWhatTheFileSays ==
    phase = "done" /\ LinesFit =>
        conf = [s |-> Says("s", <<>>), n |-> Atoi(Says("n", <<>>))]

\* loadConfigFile() returns, on every file that can be read to its end: the last
\* pass through the loop is the one that meets the end of the file, empty or not.
LoadReturnsEventually == <>(phase \in {"done", "failed"} \/ broken)
=============================================================================
