------------------------------- MODULE MCScan -------------------------------
(* All files of up to MaxFile characters over a small alphabet.             *)
EXTENDS Scan

CONSTANTS MaxFile  \* bound: the length of a file

\* One keyword that is also the start of longer identifiers; its second
\* character cannot start one.
MCKeywords == {<<"o", "1">>}
MCLetters == {"o"}
MCDigits == {"1"}
MCDigitValue(d) == 1
MCNewline == "\n"
MCSlash == "/"
MCBlanks == {" ", "\n"}

MCChars == MCLetters \cup MCDigits \cup MCBlanks \cup {MCSlash}
MCFiles == UNION {[1 .. n -> MCChars] : n \in 0 .. MaxFile}
=============================================================================
