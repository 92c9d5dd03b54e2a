----------------------------- MODULE RespParser -----------------------------
(***************************************************************************)
(* RespParser::parse of src/v1/RESP_parser.hpp, as an operator on the      *)
(* buffer.  A buffer is a sequence of bytes; a byte is a symbol, and a     *)
(* word that commands hold is a symbol of its own, as if one byte long.    *)
(* Lengths have no sign: the clients send none.                            *)
(***************************************************************************)
EXTENDS Integers, Sequences, SequencesExt

CONSTANT Upper    \* the words toupper changes, and into what

CRLF == <<"CR", "LF">>
Digits == <<"0", "1", "2", "3", "4", "5", "6", "7", "8", "9">>
IsDigit(s) == s \in {"0", "1", "2", "3", "4", "5", "6", "7", "8", "9"}

\* buffer.find("\r\n", pos).
LineEnds(buffer, pos) ==
    {i \in pos .. Len(buffer) - 1 : buffer[i] = "CR" /\ buffer[i + 1] = "LF"}

\* std::stoi of the line from pos: its first digits, or an exception without any.
Line(buffer, pos) == SubSeq(buffer, pos, Min(LineEnds(buffer, pos)) - 1)
IsNumber(line) == line # <<>> /\ IsDigit(line[1])
stoi(line) ==
    LET n == Max({i \in 1 .. Len(line) : \A j \in 1 .. i : IsDigit(line[j])})
        Digit(d) == CHOOSE v \in 0 .. 9 : Digits[v + 1] = d
        value[i \in 0 .. n] == IF i = 0 THEN 0 ELSE 10 * value[i - 1] + Digit(line[i])
    IN  value[n]

At(status, pos, tokens) == [status |-> status, pos |-> pos, tokens |-> tokens]

\* One round of the loop: a length, and as many bytes with the line's end after them.
\* Mutant: the end of the line may be missing.
ElementUnended(buffer, st) ==
    LET pos == Min(LineEnds(buffer, st.pos)) + 2
        len == stoi(Line(buffer, st.pos + 1))
    IN  IF st.status # "SUCCESS" THEN st
        ELSE IF st.pos > Len(buffer) THEN At("INCOMPLETE", st.pos, <<>>)
        ELSE IF buffer[st.pos] # "$" THEN At("ERROR", st.pos, <<>>)
        ELSE IF LineEnds(buffer, st.pos) = {} THEN At("INCOMPLETE", st.pos, <<>>)
        ELSE IF ~IsNumber(Line(buffer, st.pos + 1)) THEN At("ERROR", st.pos, <<>>)
        ELSE IF pos + len > Len(buffer) + 1 THEN At("INCOMPLETE", st.pos, <<>>)
        ELSE At("SUCCESS", pos + len + 2, Append(st.tokens, SubSeq(buffer, pos, pos + len - 1)))
Element(buffer, st) ==
    LET pos == Min(LineEnds(buffer, st.pos)) + 2
        len == stoi(Line(buffer, st.pos + 1))
    IN  IF st.status # "SUCCESS" THEN st
        ELSE IF st.pos > Len(buffer) THEN At("INCOMPLETE", st.pos, <<>>)
        ELSE IF buffer[st.pos] # "$" THEN At("ERROR", st.pos, <<>>)
        ELSE IF LineEnds(buffer, st.pos) = {} THEN At("INCOMPLETE", st.pos, <<>>)
        ELSE IF ~IsNumber(Line(buffer, st.pos + 1)) THEN At("ERROR", st.pos, <<>>)
        ELSE IF pos + len + 1 > Len(buffer) THEN At("INCOMPLETE", st.pos, <<>>)
        ELSE At("SUCCESS", pos + len + 2, Append(st.tokens, SubSeq(buffer, pos, pos + len - 1)))

\* All rounds.  (The set has one element: TLC then evaluates the round before once.)
Elements(buffer) ==
    LET after[i \in 0 .. stoi(Line(buffer, 2))] ==
            IF i = 0 THEN At("SUCCESS", Min(LineEnds(buffer, 1)) + 2, <<>>)
            ELSE CHOOSE st \in {Element(buffer, before) : before \in {after[i - 1]}} : TRUE
    IN  after[stoi(Line(buffer, 2))]

Failed(status) == [status |-> status]
toupper(s) == [i \in DOMAIN s |-> IF s[i] \in DOMAIN Upper THEN Upper[s[i]] ELSE s[i]]
Outcome(all) ==
    IF all.status # "SUCCESS" THEN Failed(all.status)
    ELSE IF all.tokens = <<>> THEN Failed("ERROR")
    ELSE [status |-> "SUCCESS", bytes_read |-> all.pos - 1,
          cmd |-> [name |-> toupper(Head(all.tokens)), args |-> Tail(all.tokens)]]

\* The command is in cmd; bytes_read counts what it took of the buffer.
parse(buffer) ==
    IF buffer = <<>> THEN Failed("INCOMPLETE")
    ELSE IF buffer[1] # "*" THEN Failed("ERROR")
    ELSE IF LineEnds(buffer, 1) = {} THEN Failed("INCOMPLETE")
    ELSE IF ~IsNumber(Line(buffer, 2)) THEN Failed("ERROR")
    ELSE CHOOSE r \in {Outcome(all) : all \in {Elements(buffer)}} : TRUE
=============================================================================
