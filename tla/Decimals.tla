------------------------------ MODULE Decimals ------------------------------
(***************************************************************************)
(* services/price-updater: prices as decimal texts, and the arithmetic on  *)
(* them.  A text is a sequence of characters; an integer v at scale s is   *)
(* the number v * 10^-s.  A raw price [m, e] is m * 10^-e, what a feed     *)
(* means; its text is what the plugin makes of it.                         *)
(***************************************************************************)
EXTENDS Integers, Sequences, FiniteSets, FiniteSetsExt, SequencesExt

Digit == <<"0", "1", "2", "3", "4", "5", "6", "7", "8", "9">>
IsDigit(c) == c \in ToSet(Digit)
Zeros(n) == [k \in 1..n |-> "0"]

\* 10^n
Power[n \in Nat] == IF n = 0 THEN 1 ELSE 10 * Power[n - 1]

\* BigInt(text) and n.toString(), for digits only
DigitValue(c) == CHOOSE d \in 0..9 : Digit[d + 1] = c

NumberOf(text) ==
  LET number[k \in 0..Len(text)] ==
        IF k = 0 THEN 0 ELSE 10 * number[k - 1] + DigitValue(text[k]) IN
  number[Len(text)]

DigitsOf[n \in Nat] ==
  IF n < 10 THEN <<Digit[n + 1]>> ELSE Append(DigitsOf[n \div 10], Digit[(n % 10) + 1])

-----------------------------------------------------------------------------
(* Reading a text: parseDecimalToBigInt *)

Negative(text) == text # <<>> /\ text[1] = "-"
Unsigned(text) == IF Negative(text) THEN Tail(text) ELSE text
Points(text) == {k \in 1..Len(text) : text[k] = "."}

\* split('.'): what comes before the first point, and between it and the next
Whole(text) == IF Points(text) = {} THEN text ELSE SubSeq(text, 1, Min(Points(text)) - 1)

Fraction(text) ==
  IF Points(text) = {} THEN <<>>
  ELSE LET rest == SubSeq(text, Min(Points(text)) + 1, Len(text)) IN Whole(rest)

\* replace(/\D/g, '')
OnlyDigits(text) ==
  LET kept[k \in 0..Len(text)] ==
        IF k = 0 THEN <<>>
        ELSE IF IsDigit(text[k]) THEN Append(kept[k - 1], text[k]) ELSE kept[k - 1] IN
  kept[Len(text)]

\* Only the whole part is checked: what is no digit in the fraction has been removed.
Readable(text) == \A c \in ToSet(Whole(Unsigned(text))) : IsDigit(c)

Parse(text, scale) ==
  LET fraction == OnlyDigits(Fraction(Unsigned(text))) \o Zeros(scale)
      value == NumberOf(Whole(Unsigned(text)) \o SubSeq(fraction, 1, scale))
  IN  IF Negative(text) THEN -value ELSE value

-----------------------------------------------------------------------------
(* Writing one: formatBigIntToDecimal, trimTrailingZeros *)

Format(value, scale) ==
  LET raw == DigitsOf[IF value < 0 THEN -value ELSE value]
      padded == Zeros(scale + 1 - Len(raw)) \o raw
      point == Len(padded) - scale
  IN  (IF value < 0 THEN <<"-">> ELSE <<>>)
        \o (IF scale = 0 THEN raw
            ELSE SubSeq(padded, 1, point) \o <<".">> \o SubSeq(padded, point + 1, Len(padded)))

TrimTrailingZeros(text) ==
  LET kept == Max({0} \cup {k \in 1..Len(text) : text[k] # "0"})
      end == IF text[kept] = "." THEN kept - 1 ELSE kept
  IN  IF Points(text) = {} THEN text
      ELSE IF end = 0 THEN <<"0">> ELSE SubSeq(text, 1, end)

\* Division of BigInt is towards zero.
Quotient(a, b) ==
  LET q == (IF a < 0 THEN -a ELSE a) \div (IF b < 0 THEN -b ELSE b)
  IN  IF (a < 0) = (b < 0) THEN q ELSE -q

\* Mutant: the numerator is not scaled up before the division
NormalizeUnscaled(usd, xrd, scale) ==
  TrimTrailingZeros(Format(Quotient(Parse(usd, scale), Parse(xrd, scale)), scale))

NormalizeUsdToXrd(usd, xrd, scale) ==
  TrimTrailingZeros(
    Format(Quotient(Parse(usd, scale) * Power[scale], Parse(xrd, scale)), scale))

-----------------------------------------------------------------------------
(* What the plugins make of a raw price *)

\* formatScaledValue, as Pyth's price and exponent are written
FormatScaledValue(raw) ==
  LET digits == DigitsOf[raw.m]
      split == Len(digits) - raw.e
  IN  IF raw.e <= 0 THEN digits \o Zeros(-raw.e)
      ELSE IF split > 0
           THEN SubSeq(digits, 1, split) \o <<".">> \o SubSeq(digits, split + 1, Len(digits))
           ELSE <<"0", ".">> \o Zeros(-split) \o digits

\* Number.prototype.toString, of a number of few digits: from 10^-6 down it is
\* written with an exponent. m has no trailing zeros.
NumberText(raw) ==
  LET digits == DigitsOf[raw.m]
      exponent == Len(digits) - 1 - raw.e
  IN  IF raw.m = 0 THEN <<"0">>
      ELSE IF exponent > -7 THEN FormatScaledValue(raw)
      ELSE (IF Len(digits) = 1 THEN digits ELSE <<digits[1], ".">> \o Tail(digits))
             \o <<"e", "-">> \o DigitsOf[-exponent]

\* What a raw price is worth at a scale, digits beyond it cut off
Worth(raw, scale) ==
  IF raw.e <= scale THEN raw.m * Power[scale - raw.e] ELSE raw.m \div Power[raw.e - scale]
=============================================================================
