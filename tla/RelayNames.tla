--------------------------- MODULE RelayNames ---------------------------
(***************************************************************************)
(* Relay::convertPin and Relay::convertEnum: the pin of the device under   *)
(* test and the enumeration of a relay, both made of the text of its name. *)
(* A pin is its number; the "DUT_PIN_" in front of it is left out.         *)
(***************************************************************************)
EXTENDS Text

Underscore == "_"
CIB == <<"C", "I", "B">>
SYSGND == <<"S", "Y", "S", "G", "N", "D">>

EndsInDigit(name) == name # <<>> /\ IsDigit(Last(name))

(* The number at the end of the name, of two digits at most. *)
ConvertPin(name) ==
    IF EndsInDigit(name)
    THEN LET tens == name[Len(name) - 1]
         IN ValueOf(Last(name)) + (IF IsDigit(tens) THEN 10 * ValueOf(tens) ELSE 0)
    ELSE 1

Occurrences(name, word) ==
    {pos \in 0..Len(name) - Len(word) : Substr(name, pos, Len(word)) = word}
NameBreaks(name) == Occurrences(name, <<Underscore>>)

(* convertEnum reads an element of nameBreaks, which has none if there is  *)
(* no underscore; only the ground names get along without.                 *)
Splittable(name) ==
    \/ NameBreaks(name) # {}
    \/ ~ EndsInDigit(name) /\ Occurrences(name, SYSGND) # {}

(* What is between the first and the last underscore becomes CIB; how much *)
(* follows is counted with the code of the last character where the length *)
(* of the name is meant.                                                   *)
EnumOneShorter(name) ==
    LET first == Min(NameBreaks(name))
        last == Max(NameBreaks(name))
    IN Substr(name, 0, first + 1) \o CIB
          \o Substr(name, last, SizeT(CodeOf(Last(name)) - last))
EnumOfNumbered(name) ==
    LET first == Min(NameBreaks(name))
        last == Max(NameBreaks(name))
    IN Substr(name, 0, first + 1) \o CIB
          \o Substr(name, last, SizeT(CodeOf(Last(name)) - last + 1))

(* What is behind the last underscore, or behind SYSGND, is lost. *)
EnumOfUnnumbered(name) ==
    IF Occurrences(name, SYSGND) # {}
    THEN Substr(name, 0, Min(Occurrences(name, SYSGND))) \o SYSGND
    ELSE Substr(name, 0, Max(NameBreaks(name)) + 1) \o CIB

ConvertEnum(name) ==
    IF EndsInDigit(name) THEN EnumOfNumbered(name) ELSE EnumOfUnnumbered(name)
=========================================================================
