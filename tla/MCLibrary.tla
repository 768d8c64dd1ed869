-------------------------------- MODULE MCLibrary ------------------------------
(***************************************************************************)
(* The parts of class_lib without threads, each on its own: in a behaviour *)
(* either a list is used, or a file is sent in datagrams, or a text grows  *)
(* that is encrypted, or one that is read as a file of records.            *)
(***************************************************************************)
EXTENDS LinkedList, UdpTransfer, Crypto, Analysis

CONSTANTS
    PlainBytes, MaxPlain,   \* BOUND: the texts that are encrypted
    MaxFile                 \* BOUND: the length of the files of records, after the first

VARIABLES
    part,   \* what this behaviour uses
    text

vars == <<part, text, listVars, udpVars>>

Chars == {"a", "b", "=", ",", CR, LF}

\* A record that has a member of either name.
Both == <<"a", "=", ",", "b", "=">>

Init ==
    /\ part \in {"list", "datagrams", "plain", "records"}
    /\ text = <<>>
    /\ ListInit /\ UdpInit

UseList ==
    /\ part = "list" /\ ListNext
    /\ UNCHANGED <<part, text, udpVars>>

SendFile ==
    /\ part = "datagrams" /\ UdpNext
    /\ UNCHANGED <<part, text, listVars>>

GrowText ==
    /\ \/ part = "plain" /\ Len(text) < MaxPlain /\ \E b \in PlainBytes : text' = Append(text, b)
       \/ /\ part = "records"
          /\ Len(text) < IF IsPrefix(Both, text) THEN Len(Both) + MaxFile ELSE MaxFile
          /\ \E c \in Chars : text' = Append(text, c)
    /\ UNCHANGED <<part, listVars, udpVars>>

Next == UseList \/ SendFile \/ GrowText

Spec == Init /\ [][Next]_vars

-------------------------------------------------------------------------------
\* TDecrypt() gives back the text that TEncrypt() was given, for every length modulo the
\* block and whatever _rand() returns; in particular the position of the ciphertext
\* block that is xored is right in each of the three loops (crypto.cpp:133-186).
RoundTrip ==
    part = "plain" => \A r \in {0, 7} :
        TDecrypt(TEncrypt(text, r)) = [rc |-> 0, out |-> text]

\* What analysis() and getData() are to return, without indices: the longest pieces that
\* contain no position of B, in order.
Runs(s, B) ==
    LET Starts == {i \in DOMAIN s \ B : i = 1 \/ i - 1 \in B}
        end(i) == CHOOSE j \in i .. Len(s) :
                    i .. j \cap B = {} /\ (j = Len(s) \/ j + 1 \in B)
        starts == SetToSortSeq(Starts, <)
    IN  [n \in DOMAIN starts |-> SubSeq(s, starts[n], end(starts[n]))]

LineBreaks(s) ==
    {i \in DOMAIN s : \/ s[i] = LF
                      \/ s[i] = CR /\ i < Len(s) /\ s[i + 1] = LF}

Members(line) == Runs(line, {i \in DOMAIN line : line[i] = ","})
WithName(line, nm) == {i \in DOMAIN Members(line) : HasName(Members(line)[i], nm)}

\* What a line gives for a list of names: nothing, unless it has a member of each.
Answer(line, names) ==
    IF \A n \in DOMAIN names : WithName(line, names[n]) # {}
    THEN << [n \in DOMAIN names |-> DataOf(Members(line)[Min(WithName(line, names[n]))])] >>
    ELSE <<>>

\* A file is split into its lines and a line into its members, none lost, empty or cut
\* short, and a line gives its data when it has a member of each name.  Two carriage returns in
\* a row are left out: the code takes the second one for a character of the line even
\* before a line feed (analysis.cpp:85-111).
AnalysisSplits ==
    part = "records"
    /\ ~(\E i \in 1 .. Len(text) - 1 : text[i] = CR /\ text[i + 1] = CR) =>
        LET lines == Runs(text, LineBreaks(text)) IN
        /\ analysis(text) = lines
        /\ \A l \in Range(lines) : toMemberList(l, ",") = Members(l)
        /\ \A names \in {<< <<"a">> >>, << <<"a">>, <<"b">> >>} :
             getData(text, ",", names) =
               FlattenSeq([i \in DOMAIN lines |-> Answer(lines[i], names)])
===============================================================================
