----------------------------- MODULE Text -------------------------------
(***************************************************************************)
(* The operations of std::string that Input.cpp and Relay.cpp take texts   *)
(* apart with.  A text is a sequence of characters; positions count from   *)
(* 0, find answers Npos, and arithmetic on size_t wraps around.            *)
(***************************************************************************)
EXTENDS Integers, SequencesExt

(* size_t, with fewer bits. *)
SizeMax == 65535
Npos == SizeMax
SizeT(n) == n % (SizeMax + 1)

Find(text, c) ==
    IF Contains(text, c) THEN SelectInSeq(text, LAMBDA x : x = c) - 1 ELSE Npos

(* count characters from position pos on, or as many as there are. *)
Substr(text, pos, count) == SubSeq(text, pos + 1, Min({pos + count, Len(text)}))
Erase(text, count) == SubSeq(text, Min({count, Len(text)}) + 1, Len(text))

(* What text[0] is; behind the end of a text there is no character. *)
NoChar == ""
First(text) == IF text = <<>> THEN NoChar ELSE Head(text)

(* isdigit, and the code of a digit as the integer a char is. *)
Digits == <<"0", "1", "2", "3", "4", "5", "6", "7", "8", "9">>
IsDigit(c) == Contains(Digits, c)
ValueOf(c) == SelectInSeq(Digits, LAMBDA x : x = c) - 1
CodeOf(c) == 48 + ValueOf(c)
=========================================================================
