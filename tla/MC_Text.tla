------------------------------ MODULE MC_Text ------------------------------
(***************************************************************************)
(* Every text of a few items from alphabets that hold both sides of each   *)
(* boundary in the code; for the numbers also texts of six digits, so that *)
(* 65535 and 65536 are among them.                                         *)
(***************************************************************************)
EXTENDS Scanners

CONSTANTS Bytes, Units, Digits, MaxBytes, MaxUnits, MaxDigits

Texts(alphabet, longest) == UNION {[1..n -> alphabet] : n \in 0..longest}

MC_ByteTexts == Texts(Bytes, MaxBytes)
MC_UnitTexts == Texts(Units, MaxUnits)
MC_NumberTexts == Texts(Digits \cup {-1}, MaxDigits)

=============================================================================
