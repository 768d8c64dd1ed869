--------------------------------- MODULE Analysis ------------------------------
(***************************************************************************)
(* class Analysis (class_lib/analysis.cpp): a file of records, one a line, *)
(* made of members like name=value.  Line numbers are those of             *)
(* analysis.cpp.                                                           *)
(***************************************************************************)
EXTENDS Naturals, Sequences, SequencesExt, FiniteSetsExt

CR == "\r"
LF == "\n"

\* Lines 74-81 and the like: the characters from head to tail, unless there are none.
Piece(s, head, tail) == IF tail > head THEN <<SubSeq(s, head + 1, tail)>> ELSE <<>>

\* Variant of analysis: line 101 is "tail - 1", as in line 114.
analysisKeepsCR(text) ==
    LET n == Len(text)
        from[tail \in 0 .. n + 1, head \in 0 .. n + 1] ==
          IF tail >= n THEN Piece(text, head, tail)
          ELSE IF text[tail + 1] = CR THEN
            IF tail + 1 >= n THEN Piece(text, head, tail + 1)
            ELSE IF text[tail + 2] = LF
                 THEN Piece(text, head, tail + 1) \o from[tail + 2, tail + 2]
                 ELSE from[tail + 2, head]
          ELSE IF text[tail + 1] = LF
               THEN Piece(text, head, tail) \o from[tail + 1, tail + 1]
               ELSE from[tail + 1, head]
    IN  from[0, 0]

\* Lines 24-127, with `tail' and `head' as in the code; a carriage return takes the
\* next character with it.
analysis(text) ==
    LET n == Len(text)
        from[tail \in 0 .. n + 1, head \in 0 .. n + 1] ==
          IF tail >= n THEN Piece(text, head, tail)
          ELSE IF text[tail + 1] = CR THEN
            IF tail + 1 >= n THEN Piece(text, head, tail + 1)
            ELSE IF text[tail + 2] = LF
                 THEN Piece(text, head, tail) \o from[tail + 2, tail + 2]
                 ELSE from[tail + 2, head]
          ELSE IF text[tail + 1] = LF
               THEN Piece(text, head, tail) \o from[tail + 1, tail + 1]
               ELSE from[tail + 1, head]
    IN  from[0, 0]

\* Lines 152-185.
toMemberList(record, chrSep) ==
    LET n == Len(record)
        from[tail \in 0 .. n, head \in 0 .. n] ==
          IF tail >= n THEN Piece(record, head, tail)
          ELSE IF record[tail + 1] = chrSep
               THEN Piece(record, head, tail) \o from[tail + 1, tail + 1]
               ELSE from[tail + 1, head]
    IN  from[0, 0]

\* Lines 198-208: strchr(), the member's name and its data.
Equals(member) == {i \in DOMAIN member : member[i] = "="}
HasName(member, name) ==
    Equals(member) # {} /\ SubSeq(member, 1, Min(Equals(member)) - 1) = name
DataOf(member) == SubSeq(member, Min(Equals(member)) + 1, Len(member))

\* Lines 187-231: the data of the first member with each name, or nothing when one is
\* missing.
getDataFromMemberList(members, sepList) ==
    LET found(name) == {i \in DOMAIN members : HasName(members[i], name)}
        here == SelectSeq(sepList, LAMBDA name : found(name) # {})
        data == [i \in DOMAIN here |-> DataOf(members[Min(found(here[i]))])]
    IN  IF Len(sepList) <= Len(members) /\ Len(data) = Len(sepList)
        THEN <<data>> ELSE <<>>

\* Lines 142-150.
getData(text, chrSep, sepList) ==
    LET records == analysis(text) IN
    FlattenSeq([i \in DOMAIN records |->
                  getDataFromMemberList(toMemberList(records[i], chrSep), sepList)])
===============================================================================
