----------------------------- MODULE CliParsers -----------------------------
(***************************************************************************)
(* bc_seek_cli_parsers.c: the values of --type, --size, --mtime, --perm    *)
(* and --threads.  A text is a sequence of characters; a word that is      *)
(* only compared as a whole ("mono", "file") is one element.  A parser     *)
(* answers Invalid for false.  The word sizes, the units and the mode bits *)
(* are parameters, so that a small instance still meets every boundary.    *)
(***************************************************************************)
EXTENDS Integers, SequencesExt

CONSTANTS
  UINT64_MAX,
  INT64_MAX,
  UINT_MAX,
  MODE_MAX,     \* 07777
  Multiplier,   \* Multiplier[u]: the bytes of the unit letter u
  Invalid       \* the parser returned false

Numerals == <<"0", "1", "2", "3", "4", "5", "6", "7", "8", "9">>
Digits == Range(Numerals)
DigitOf == [c \in Digits |-> (CHOOSE i \in DOMAIN Numerals : Numerals[i] = c) - 1]

ASSUME CliParsersAssumption ==
  /\ UINT64_MAX \in Nat /\ UINT64_MAX >= 9
  /\ INT64_MAX \in 0..UINT64_MAX
  /\ UINT_MAX \in Nat /\ UINT_MAX >= MODE_MAX
  /\ UINT_MAX % 8 = 7
  /\ MODE_MAX \in Nat
  /\ "b" \in DOMAIN Multiplier
  /\ \A u \in DOMAIN Multiplier : Multiplier[u] \in 1..UINT64_MAX /\ u \notin Digits
  /\ Invalid \notin Int

-----------------------------------------------------------------------------
(* Mutant: the guard forgets the digit, so the last few values wrap. *)
add_digit_wraps(accumulator, c) ==
  IF accumulator = Invalid \/ c \notin Digits \/ accumulator > UINT64_MAX \div 10
  THEN Invalid
  ELSE (accumulator * 10 + DigitOf[c]) % (UINT64_MAX + 1)

(* One turn of the loop of parse_unsigned, in 64-bit arithmetic. *)
add_digit(accumulator, c) ==
  IF \/ accumulator = Invalid
     \/ c \notin Digits
     \/ accumulator > (UINT64_MAX - DigitOf[c]) \div 10
  THEN Invalid
  ELSE (accumulator * 10 + DigitOf[c]) % (UINT64_MAX + 1)

parse_unsigned(text) ==
  IF text = <<>> THEN Invalid ELSE FoldLeft(add_digit, 0, text)

(* The leading sign of --size and --mtime, and what follows it. *)
Comparison(text) ==
  CASE Head(text) = "+" -> "greater"
    [] Head(text) = "-" -> "less"
    [] OTHER            -> "equal"

AfterSign(text) == IF Head(text) \in {"+", "-"} THEN Tail(text) ELSE text

parse_type_filter(text) ==
  CASE text \in {<<"f">>, <<"file">>} -> "file"
    [] text \in {<<"d">>, <<"dir">>} -> "directory"
    [] text \in {<<"l">>, <<"link">>, <<"symlink">>} -> "symlink"
    [] OTHER -> Invalid

(* The number in bytes, in 64-bit arithmetic. *)
threshold_bytes(number, multiplier) ==
  IF number = Invalid \/ number > UINT64_MAX \div multiplier THEN Invalid
  ELSE (number * multiplier) % (UINT64_MAX + 1)

(* A last character that is neither a unit nor a digit is refused by       *)
(* parse_unsigned as well.  Without a unit the number counts blocks.       *)
parse_size_filter(text) ==
  IF text = <<>> \/ AfterSign(text) = <<>> THEN Invalid
  ELSE LET cursor == AfterSign(text)
           has_unit == Last(cursor) \in DOMAIN Multiplier
           threshold ==
             threshold_bytes(parse_unsigned(IF has_unit THEN Front(cursor) ELSE cursor),
                             Multiplier[IF has_unit THEN Last(cursor) ELSE "b"])
       IN IF threshold = Invalid THEN Invalid
          ELSE [op |-> Comparison(text), threshold |-> threshold]

(* Days, not yet seconds. *)
parse_mtime_filter(text) ==
  IF text = <<>> \/ AfterSign(text) = <<>> THEN Invalid
  ELSE LET number == parse_unsigned(AfterSign(text))
       IN IF number = Invalid \/ number > INT64_MAX THEN Invalid
          ELSE [op |-> Comparison(text), days |-> number]

(* One turn of the loop of parse_perm_filter, in unsigned int arithmetic. *)
add_octal(mask, c) ==
  IF \/ mask = Invalid
     \/ c \notin Digits \ {"8", "9"}
     \/ mask > UINT_MAX \div 8
  THEN Invalid
  ELSE (mask * 8 + DigitOf[c]) % (UINT_MAX + 1)

parse_perm_filter(text) ==
  LET mask == FoldLeft(add_octal, 0, text)
  IN IF text = <<>> \/ mask = Invalid \/ mask > MODE_MAX THEN Invalid ELSE mask

(* External: bc_core_parse_unsigned_integer_64_decimal reads the digits    *)
(* the text starts with, and fails if there are none or they overflow.     *)
core_parse_unsigned(text) ==
  LET leading == SelectInSeq(text, LAMBDA c : c \notin Digits)
      consumed == IF leading = 0 THEN Len(text) ELSE leading - 1
      value == parse_unsigned(SubSeq(text, 1, consumed))
  IN [ok |-> value # Invalid, value |-> value, consumed |-> consumed]

parse_threads(text) ==
  LET number == core_parse_unsigned(text)
  IN CASE text = <<"mono">> -> [mode |-> "mono", workers |-> 0]
       [] text = <<"auto">> -> [mode |-> "auto", workers |-> 0]
       [] text = <<"io">>   -> [mode |-> "io", workers |-> 0]
       [] OTHER ->
            IF ~number.ok \/ number.consumed # Len(text) THEN Invalid
            ELSE IF number.value = 0 THEN [mode |-> "mono", workers |-> 0]
            ELSE [mode |-> "explicit", workers |-> number.value]

-----------------------------------------------------------------------------
(***************************************************************************)
(* What the texts mean, on unbounded integers.                             *)
(***************************************************************************)
IsNumber(text, base) ==
  text # <<>> /\ \A i \in DOMAIN text : text[i] \in Digits /\ DigitOf[text[i]] < base

(* The powers of a base, up to the n-th. *)
PowersOf(base, n) ==
  LET power[k \in 0..n] == IF k = 0 THEN 1 ELSE base * power[k - 1] IN power

(* The sum of the digits, each times the power of its place. *)
Value(text, base) ==
  LET place(i) == PowersOf(base, Len(text))[Len(text) - i]
  IN FoldLeftDomain(LAMBDA sum, i : sum + DigitOf[text[i]] * place(i), 0, text)

Signs == {<<"+">>, <<"-">>, <<>>}
Units == {<<u>> : u \in DOMAIN Multiplier} \cup {<<>>}

(* A text cut after the sign p[1] and before the unit p[2]. *)
ReadAs(text, p) ==
  [sign |-> p[1], unit |-> p[2], number |-> SubSeq(text, Len(p[1]) + 1, Len(text) - Len(p[2]))]

(* The numbers, with their sign, that a text can be read as: a sign, a     *)
(* number and a unit, one after the other.                                 *)
SizesOf(text) ==
  {r \in {ReadAs(text, p) : p \in Signs \X Units} :
     r.sign \o r.number \o r.unit = text /\ IsNumber(r.number, 10)}

Bytes(size) == Value(size.number, 10) * Multiplier[IF size.unit = <<>> THEN "b" ELSE size.unit[1]]

OpOfSign(sign) ==
  CASE sign = <<"+">> -> "greater" [] sign = <<"-">> -> "less" [] OTHER -> "equal"
=============================================================================
