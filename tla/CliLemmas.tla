----------------------------- MODULE CliLemmas -----------------------------
(***************************************************************************)
(* What the parsers of the command line and the checks of the options      *)
(* compute, for every text and every line.  The parsers are loops over the *)
(* characters, folds in the model: a fold is first shown to go through its *)
(* operands one after the other (FoldPrefixes), and induction over the     *)
(* characters read so far, as a set of numbers, does the rest.  The proofs *)
(* of CliCheck and of Application rest on these.                           *)
(***************************************************************************)
EXTENDS CliOptions, FilterLemmas, SequenceTheorems

-----------------------------------------------------------------------------
(* Folds.  The provers know a fold as a table over the subsets of the      *)
(* indices that is chosen to meet its recursive equation; the lemma says   *)
(* that there is such a table.                                             *)

(* A set of natural numbers that is not empty has a least element. *)
LEMMA LeastElement ==
  ASSUME NEW S, S \subseteq Nat, S # {}
  PROVE  Min(S) \in S /\ \A y \in S : Min(S) <= y
BY LeastNumber DEF Min

(* One that is bounded has a greatest. *)
LEMMA GreatestElement ==
  ASSUME NEW n \in Nat, NEW s \in SUBSET (1..n), s # {}
  PROVE  Max(s) \in s
<1> DEFINE S == {k \in 0..n : n - k \in s}
<1>1. S \subseteq Nat /\ S # {}
  <2>1. PICK y \in s : TRUE
    OBVIOUS
  <2>2. n - y \in 0..n /\ n - (n - y) = y
    BY <2>1
  <2>3. n - y \in S
    BY <2>1, <2>2
  <2>4. S \subseteq Nat
    OBVIOUS
  <2> QED BY <2>3, <2>4
<1>2. PICK k \in S : \A j \in S : k <= j
  BY <1>1, LeastNumber
<1>3. \A y \in s : n - k >= y
  <2> SUFFICES ASSUME NEW y \in s PROVE n - k >= y
    OBVIOUS
  <2>1. n - y \in 0..n /\ n - (n - y) = y
    OBVIOUS
  <2>2. n - y \in S
    BY <2>1
  <2> QED BY <1>2, <2>1, <2>2
<1>4. n - k \in s
  OBVIOUS
<1> QED BY <1>3, <1>4 DEF Max

(* The greatest number of a set that ends with n. *)
LEMMA MaxIs ==
  ASSUME NEW n \in Nat, NEW s \in SUBSET (1..n), n \in s
  PROVE  Max(s) = n
<1>1. \A y \in s : n >= y
  OBVIOUS
<1>2. \A x \in s : (\A y \in s : x >= y) => x = n
  OBVIOUS
<1> QED BY <1>1, <1>2 DEF Max

(* One operand of a fold after the other, by a function step. *)
IsFoldTable(h, n, base, step) ==
  \A s \in SUBSET (1..n) :
    h[s] = IF s = {} THEN base ELSE step[<<h[s \ {Max(s)}], Max(s)>>]

(* Every step function has a table. *)
LEMMA FoldTableExists ==
  ASSUME NEW N \in Nat, NEW V, NEW base \in V, NEW step \in [V \X (1..N) -> V]
  PROVE  \E h \in [SUBSET (1..N) -> V] : IsFoldTable(h, N, base, step)
<1> DEFINE Has(n) == \E h \in [SUBSET (1..n) -> V] : IsFoldTable(h, n, base, step)
           S == {n \in Nat : n <= N => Has(n)}
<1> HIDE DEF Has
<1>1. 0 \in S
  <2> DEFINE h == [s \in SUBSET (1..0) |-> base]
  <2>1. h \in [SUBSET (1..0) -> V]
    OBVIOUS
  <2>2. \A s \in SUBSET (1..0) : s = {}
    OBVIOUS
  <2>3. IsFoldTable(h, 0, base, step)
    BY <2>2 DEF IsFoldTable
  <2> QED BY <2>1, <2>3 DEF Has
<1>2. \A n \in Nat : n \in S => n + 1 \in S
  <2> SUFFICES ASSUME NEW n \in Nat, n \in S, n + 1 <= N
               PROVE  Has(n + 1)
    OBVIOUS
  <2>0. Has(n)
    OBVIOUS
  <2>1. PICK h \in [SUBSET (1..n) -> V] : IsFoldTable(h, n, base, step)
    BY <2>0 DEF Has
  <2> DEFINE m == n + 1
             g == [s \in SUBSET (1..m) |->
                     IF m \in s THEN step[<<h[s \ {m}], m>>] ELSE h[s]]
  <2>2. \A s \in SUBSET (1..m) : m \notin s => s \in SUBSET (1..n)
    OBVIOUS
  <2>3. \A s \in SUBSET (1..m) : s \ {m} \in SUBSET (1..n) /\ s \ {m} \in SUBSET (1..m)
    OBVIOUS
  <2>4. g \in [SUBSET (1..m) -> V]
    BY <2>2, <2>3
  <2>5. ASSUME NEW s \in SUBSET (1..m), m \in s
        PROVE  g[s] = step[<<g[s \ {Max(s)}], Max(s)>>]
    <3>1. Max(s) = m
      BY <2>5, MaxIs
    <3>2. g[s \ {m}] = h[s \ {m}]
      BY <2>3
    <3> QED BY <2>5, <3>1, <3>2
  <2>6. ASSUME NEW s \in SUBSET (1..m), m \notin s
        PROVE  g[s] = IF s = {} THEN base ELSE step[<<g[s \ {Max(s)}], Max(s)>>]
    <3>1. g[s] = h[s] /\ s \in SUBSET (1..n)
      BY <2>2, <2>6
    <3>2. s \ {Max(s)} \in SUBSET (1..m) /\ m \notin s \ {Max(s)} /\ s \ {Max(s)} \in SUBSET (1..n)
      BY <2>2, <2>6
    <3>3. g[s \ {Max(s)}] = h[s \ {Max(s)}]
      BY <3>2
    <3>4. h[s] = IF s = {} THEN base ELSE step[<<h[s \ {Max(s)}], Max(s)>>]
      BY <2>1, <3>1 DEF IsFoldTable
    <3> QED BY <3>1, <3>3, <3>4
  <2>7. IsFoldTable(g, m, base, step)
    <3> SUFFICES ASSUME NEW s \in SUBSET (1..m)
                 PROVE  g[s] = IF s = {} THEN base ELSE step[<<g[s \ {Max(s)}], Max(s)>>]
      BY DEF IsFoldTable
    <3>1. CASE m \in s
      BY <3>1, <2>5
    <3>2. CASE m \notin s
      BY <3>2, <2>6
    <3> QED BY <3>1, <3>2
  <2> HIDE DEF g
  <2> QED BY <2>4, <2>7 DEF Has
<1>3. N \in S
  <2> HIDE DEF S
  <2> QED BY <1>1, <1>2, InductionBySet
<1>4. Has(N)
  BY <1>3
<1> QED BY <1>4 DEF Has

(* A table that goes by step as long as it stays in V. *)
GoesBy(f, n, V, base, step) ==
  /\ f[{}] = base
  /\ \A s \in SUBSET (1..n) : s # {} /\ f[s \ {Max(s)}] \in V =>
       f[s] = step[<<f[s \ {Max(s)}], Max(s)>>]

(* What it says of the prefixes of the indices: one step after the other. *)
StepByStep(f, n, V, base, step) ==
  /\ \A k \in 0..n : f[1..k] \in V
  /\ f[1..0] = base
  /\ \A k \in 1..n : f[1..k] = step[<<f[1..(k - 1)], k>>]

(* A table goes through the operands in their order. *)
LEMMA FoldPrefixes ==
  ASSUME NEW n \in Nat, NEW V, NEW base \in V, NEW step \in [V \X (1..n) -> V],
         NEW f, GoesBy(f, n, V, base, step)
  PROVE  StepByStep(f, n, V, base, step)
<1>1. \A k \in 1..n : f[1..(k - 1)] \in V => f[1..k] = step[<<f[1..(k - 1)], k>>]
  <2> SUFFICES ASSUME NEW k \in 1..n, f[1..(k - 1)] \in V
               PROVE  f[1..k] = step[<<f[1..(k - 1)], k>>]
    OBVIOUS
  <2>1. (1..k) \in SUBSET (1..n) /\ k \in 1..k
    OBVIOUS
  <2>3. \A j : j \in (1..k) \ {k} <=> j \in 1..(k - 1)
    OBVIOUS
  <2>4. (1..k) \ {k} = 1..(k - 1)
    BY <2>3, Zenon
  <2>2. Max(1..k) = k
    BY MaxIs
  <2> QED BY <2>1, <2>2, <2>4 DEF GoesBy
<1>2. 1..0 = {}
  OBVIOUS
<1> DEFINE S == {k \in 0..n : f[1..k] \in V}
<1>3. 0 \in S
  BY <1>2 DEF GoesBy
<1>4. ASSUME NEW k \in 0..(n - 1), k \in S PROVE k + 1 \in S
  <2>1. k + 1 \in 1..n /\ (k + 1) - 1 = k /\ f[1..k] \in V
    BY <1>4
  <2>2. f[1..(k + 1)] = step[<<f[1..k], k + 1>>]
    BY <1>1, <2>1
  <2> QED BY <2>1, <2>2
<1>5. \A k \in 0..n : k \in S
  <2> HIDE DEF S
  <2> QED BY <1>3, <1>4, InductionUpTo
<1>6. \A k \in 0..n : f[1..k] \in V
  BY <1>5
<1>7. \A k \in 1..n : k - 1 \in 0..n
  OBVIOUS
<1> QED BY <1>1, <1>2, <1>6, <1>7 DEF GoesBy, StepByStep

-----------------------------------------------------------------------------
(* The arithmetic of the parsers. *)

(* The guard of parse_unsigned against the sum it protects. *)
LEMMA DigitGuard ==
  ASSUME NEW M \in Nat, M >= 9, NEW a \in 0..M, NEW d \in 0..9
  PROVE  a > (M - d) \div 10 <=> a * 10 + d > M
BY Z3

(* A bounded value is its own remainder. *)
LEMMA NoWrap ==
  ASSUME NEW M \in Nat, NEW n \in 0..M
  PROVE  n % (M + 1) = n
BY Z3

(* A guard by division against the product it protects. *)
LEMMA ProductGuard ==
  ASSUME NEW M \in Nat, NEW m \in Nat \ {0}, NEW n \in Nat
  PROVE  n > M \div m <=> n * m > M
<1> DEFINE q == M \div m
<1>1. q \in Nat /\ M = m * q + (M % m) /\ M % m \in 0..(m - 1)
  BY Z3
<1>2. CASE n <= q
  <2>1. m * n <= m * q
    BY <1>1, <1>2, Z3
  <2> QED BY <1>1, <1>2, <2>1, Z3
<1>3. CASE n >= q + 1
  <2>1. m * n >= m * (q + 1)
    BY <1>1, <1>3, Z3
  <2>2. m * (q + 1) = m * q + m
    BY <1>1, Z3
  <2> QED BY <1>1, <1>3, <2>1, <2>2, Z3
<1> QED BY <1>1, <1>2, <1>3, Z3

(* The value of a numeral. *)
LEMMA DigitRange ==
  ASSUME NEW c \in Digits
  PROVE  DigitOf[c] \in 0..9
<1>1. DOMAIN Numerals = 1..10
  BY DEF Numerals
<1>2. \E i \in DOMAIN Numerals : Numerals[i] = c
  BY DEF Digits, Range
<1>3. DigitOf[c] = (CHOOSE i \in DOMAIN Numerals : Numerals[i] = c) - 1
  BY DEF DigitOf
<1> QED BY <1>1, <1>2, <1>3, Z3

(* An octal digit is below eight. *)
LEMMA OctalRange ==
  ASSUME NEW c \in Digits \ {"8", "9"}
  PROVE  DigitOf[c] \in 0..7
<1>1. DOMAIN Numerals = 1..10 /\ Numerals[9] = "8" /\ Numerals[10] = "9"
  BY DEF Numerals
<1>2. \E i \in DOMAIN Numerals : Numerals[i] = c
  BY DEF Digits, Range
<1>3. DigitOf[c] = (CHOOSE i \in DOMAIN Numerals : Numerals[i] = c) - 1
  BY DEF DigitOf
<1> DEFINE i == CHOOSE i \in DOMAIN Numerals : Numerals[i] = c
<1>4. i \in 1..10 /\ Numerals[i] = c
  BY <1>1, <1>2
<1>5. i # 9 /\ i # 10
  BY <1>1, <1>4
<1> QED BY <1>3, <1>4, <1>5, Z3

(* The two digits that are not octal. *)
LEMMA EightAndNine == DigitOf["8"] = 8 /\ DigitOf["9"] = 9
<1>1. DOMAIN Numerals = 1..10 /\ Numerals[9] = "8" /\ Numerals[10] = "9"
  BY DEF Numerals
<1>2. "8" \in Digits /\ "9" \in Digits
  BY <1>1 DEF Digits, Range
<1>3. \A i \in 1..10 : (Numerals[i] = "8" => i = 9) /\ (Numerals[i] = "9" => i = 10)
  BY DEF Numerals
<1>4. (CHOOSE i \in DOMAIN Numerals : Numerals[i] = "8") = 9
  BY <1>1, <1>3
<1>5. (CHOOSE i \in DOMAIN Numerals : Numerals[i] = "9") = 10
  BY <1>1, <1>3
<1> QED BY <1>2, <1>4, <1>5 DEF DigitOf

(* One digit more is taken exactly if the number still fits, and then the  *)
(* sum has not wrapped: the loop of parse_unsigned                         *)
(* (bc_seek_cli_parsers.c:20-30), for every UINT64_MAX.                    *)
THEOREM AddDigitIsExact ==
  ASSUME NEW a \in 0..UINT64_MAX, NEW c \in Digits
  PROVE  add_digit(a, c) = IF a * 10 + DigitOf[c] <= UINT64_MAX
                           THEN a * 10 + DigitOf[c] ELSE Invalid
<1> DEFINE d == DigitOf[c]
<1>1. d \in 0..9
  BY DigitRange
<1>2. UINT64_MAX \in Nat /\ UINT64_MAX >= 9 /\ Invalid \notin Int
  BY CliParsersAssumption
<1>3. a # Invalid
  BY <1>2, Z3
<1>4. a > (UINT64_MAX - d) \div 10 <=> a * 10 + d > UINT64_MAX
  BY <1>1, <1>2, DigitGuard
<1>5. CASE a * 10 + d <= UINT64_MAX
  <2>1. a * 10 + d \in 0..UINT64_MAX
    BY <1>1, <1>2, <1>5, Z3
  <2>2. (a * 10 + d) % (UINT64_MAX + 1) = a * 10 + d
    BY <1>2, <2>1, NoWrap
  <2>3. ~(a > (UINT64_MAX - d) \div 10)
    BY <1>1, <1>2, <1>4, <1>5, Z3
  <2> QED BY <1>3, <1>5, <2>2, <2>3, Zenon DEF add_digit
<1>6. CASE ~(a * 10 + d <= UINT64_MAX)
  <2>1. a > (UINT64_MAX - d) \div 10
    BY <1>1, <1>2, <1>4, <1>6, Z3
  <2> QED BY <1>6, <2>1, Zenon DEF add_digit
<1> QED BY <1>5, <1>6

(* The same for the octal digits of --perm, shifted into an unsigned int   *)
(* (bc_seek_cli_parsers.c:163-172), for every UINT_MAX of the form 8k + 7. *)
THEOREM AddOctalIsExact ==
  ASSUME NEW mask \in 0..UINT_MAX, NEW c \in Digits \ {"8", "9"}
  PROVE  add_octal(mask, c) = IF mask * 8 + DigitOf[c] <= UINT_MAX
                              THEN mask * 8 + DigitOf[c] ELSE Invalid
<1> DEFINE d == DigitOf[c]
<1>1. UINT_MAX \in Nat /\ UINT_MAX % 8 = 7 /\ Invalid \notin Int
  BY CliParsersAssumption
<1>2. mask # Invalid /\ d \in 0..7
  BY <1>1, OctalRange
<1>3. mask > UINT_MAX \div 8 <=> mask * 8 + d > UINT_MAX
  BY <1>1, <1>2, Z3
<1>4. CASE mask * 8 + d <= UINT_MAX
  <2>1. mask * 8 + d \in 0..UINT_MAX
    BY <1>1, <1>2, <1>4, Z3
  <2>2. (mask * 8 + d) % (UINT_MAX + 1) = mask * 8 + d
    BY <1>1, <2>1, NoWrap
  <2>3. ~(mask > UINT_MAX \div 8)
    BY <1>1, <1>2, <1>3, <1>4, Z3
  <2> QED BY <1>2, <1>4, <2>2, <2>3, Zenon DEF add_octal
<1>5. CASE ~(mask * 8 + d <= UINT_MAX)
  <2>1. mask > UINT_MAX \div 8
    BY <1>1, <1>2, <1>3, <1>5, Z3
  <2> QED BY <1>5, <2>1, Zenon DEF add_octal
<1> QED BY <1>4, <1>5

(* A size is taken exactly if it fits in bytes, and then the product has   *)
(* not wrapped (bc_seek_cli_parsers.c:118-122), for every unit.            *)
THEOREM ThresholdIsExact ==
  ASSUME NEW n \in 0..UINT64_MAX, NEW m \in Nat \ {0}
  PROVE  threshold_bytes(n, m) = IF n * m <= UINT64_MAX THEN n * m ELSE Invalid
<1>1. UINT64_MAX \in Nat /\ Invalid \notin Int /\ n \in Nat
  BY CliParsersAssumption
<1>2. n # Invalid
  BY <1>1
<1>3. n > UINT64_MAX \div m <=> n * m > UINT64_MAX
  BY <1>1, ProductGuard
<1>4. n * m \in Nat
  BY <1>1, Z3
<1>5. CASE n * m <= UINT64_MAX
  <2>1. (n * m) % (UINT64_MAX + 1) = n * m
    BY <1>1, <1>4, <1>5, NoWrap
  <2>2. ~(n > UINT64_MAX \div m)
    BY <1>1, <1>3, <1>4, <1>5
  <2> QED BY <1>2, <1>5, <2>1, <2>2, Zenon DEF threshold_bytes
<1>6. CASE ~(n * m <= UINT64_MAX)
  <2>1. n > UINT64_MAX \div m
    BY <1>1, <1>3, <1>4, <1>6
  <2> QED BY <1>6, <2>1, Zenon DEF threshold_bytes
<1> QED BY <1>5, <1>6

(* An age is refused exactly if its seconds do not fit, and otherwise they *)
(* have not wrapped (bc_seek_cli_spec.c:341-345), for every INT64_MAX.     *)
THEOREM AgeIsExact ==
  ASSUME NEW mtime, has(mtime), mtime.days \in Nat
  PROVE  /\ days_out_of_range(mtime) <=> mtime.days * DaySeconds > INT64_MAX
         /\ ~days_out_of_range(mtime) => mtime_threshold(mtime) = mtime.days * DaySeconds
<1>1. INT64_MAX \in Nat /\ DaySeconds \in Nat \ {0}
  BY CliParsersAssumption, CliOptionsAssumption
<1>2. mtime.days > INT64_MAX \div DaySeconds <=> mtime.days * DaySeconds > INT64_MAX
  BY <1>1, ProductGuard
<1>3. days_out_of_range(mtime) <=> mtime.days * DaySeconds > INT64_MAX
  BY <1>2 DEF days_out_of_range
<1>4. mtime.days * DaySeconds \in Nat
  BY <1>1, Z3
<1>5. ASSUME ~days_out_of_range(mtime)
      PROVE  mtime_threshold(mtime) = mtime.days * DaySeconds
  <2>1. mtime.days * DaySeconds \in 0..INT64_MAX
    BY <1>1, <1>3, <1>4, <1>5
  <2> QED BY <1>1, <2>1, NoWrap DEF mtime_threshold
<1> QED BY <1>3, <1>5

-----------------------------------------------------------------------------
(* The folds of the parsers, digit by digit. *)

(* An accumulator stays in its word or is Invalid. *)
LEMMA AddDigitType ==
  ASSUME NEW a \in 0..UINT64_MAX \cup {Invalid}, NEW c
  PROVE  add_digit(a, c) \in 0..UINT64_MAX \cup {Invalid}
<1>1. CASE a = Invalid \/ c \notin Digits
  BY <1>1 DEF add_digit
<1>2. CASE a # Invalid /\ c \in Digits
  <2>1. a \in 0..UINT64_MAX
    BY <1>2
  <2>2. DigitOf[c] \in 0..9
    BY <1>2, DigitRange
  <2>3. a * 10 + DigitOf[c] \in Nat
    BY <2>1, <2>2, CliParsersAssumption
  <2> QED BY <1>2, <2>1, <2>3, AddDigitIsExact
<1> QED BY <1>1, <1>2

(* What parse_unsigned has accumulated after each character. *)
LEMMA DigitSteps ==
  ASSUME NEW T, NEW text \in Seq(T)
  PROVE  \E F \in [0..Len(text) -> 0..UINT64_MAX \cup {Invalid}] :
           /\ F[0] = 0
           /\ \A k \in 1..Len(text) : F[k] = add_digit(F[k - 1], text[k])
           /\ FoldLeft(add_digit, 0, text) = F[Len(text)]
<1> DEFINE n == Len(text)
           V == 0..UINT64_MAX \cup {Invalid}
           Table(f) == f = [s \in SUBSET DOMAIN text |->
             IF s = {} THEN 0 ELSE add_digit(f[s \ {Max(s)}], text[Max(s)])]
           f == CHOOSE f : Table(f)
           step == [p \in V \X (1..n) |-> add_digit(p[1], text[p[2]])]
<1>1. n \in Nat /\ DOMAIN text = 1..n /\ 0 \in V
  BY CliParsersAssumption
<1>2. step \in [V \X (1..n) -> V]
  BY AddDigitType
<1>3. \A a \in V, i \in 1..n : step[<<a, i>>] = add_digit(a, text[i])
  OBVIOUS
<1>4. FoldLeft(add_digit, 0, text) = f[1..n]
  BY <1>1 DEF FoldLeft, MapThenFoldSet
<1> HIDE DEF V, step
<1>5. \E h : Table(h)
  <2>1. PICK h \in [SUBSET (1..n) -> V] : IsFoldTable(h, n, 0, step)
    BY <1>1, <1>2, FoldTableExists
  <2>2. ASSUME NEW s \in SUBSET (1..n), s # {}
        PROVE  h[s] = add_digit(h[s \ {Max(s)}], text[Max(s)])
    <3>1. Max(s) \in 1..n /\ s \ {Max(s)} \in SUBSET (1..n)
      BY <1>1, <2>2, GreatestElement
    <3> QED BY <1>3, <2>1, <2>2, <3>1 DEF IsFoldTable
  <2>3. h[{}] = 0
    BY <2>1 DEF IsFoldTable
  <2>4. \A s \in SUBSET (1..n) :
          h[s] = IF s = {} THEN 0 ELSE add_digit(h[s \ {Max(s)}], text[Max(s)])
    BY <2>2, <2>3
  <2>5. Table(h)
    BY <1>1, <2>4
  <2> QED BY <2>5
<1>6. Table(f)
  <2> HIDE DEF Table
  <2> QED BY <1>5
<1> HIDE DEF f
<1>7. f[{}] = 0
  BY <1>6
<1>8. GoesBy(f, n, V, 0, step)
  <2> SUFFICES ASSUME NEW s \in SUBSET (1..n), s # {}, f[s \ {Max(s)}] \in V
               PROVE  f[s] = step[<<f[s \ {Max(s)}], Max(s)>>]
    BY <1>7 DEF GoesBy
  <2>1. Max(s) \in 1..n
    BY <1>1, GreatestElement
  <2>2. f[s] = add_digit(f[s \ {Max(s)}], text[Max(s)])
    BY <1>1, <1>6
  <2> QED BY <1>3, <2>1, <2>2
<1>9. StepByStep(f, n, V, 0, step)
  BY <1>1, <1>2, <1>8, FoldPrefixes, Zenon
<1> DEFINE F == [k \in 0..n |-> f[1..k]]
<1>10. F \in [0..n -> V] /\ F[0] = 0 /\ F[n] = f[1..n]
  BY <1>1, <1>9 DEF StepByStep
<1>11. \A k \in 1..n : F[k] = add_digit(F[k - 1], text[k])
  <2> SUFFICES ASSUME NEW k \in 1..n PROVE F[k] = add_digit(F[k - 1], text[k])
    OBVIOUS
  <2>1. k \in 0..n /\ k - 1 \in 0..n
    BY <1>1
  <2> QED BY <1>3, <1>9, <2>1 DEF StepByStep
<1> HIDE DEF F
<1> QED BY <1>4, <1>10, <1>11 DEF V

(* The mask of parse_perm stays in its word or is Invalid. *)
LEMMA AddOctalType ==
  ASSUME NEW mask \in 0..UINT_MAX \cup {Invalid}, NEW c
  PROVE  add_octal(mask, c) \in 0..UINT_MAX \cup {Invalid}
<1>1. CASE mask = Invalid \/ c \notin Digits \ {"8", "9"}
  BY <1>1 DEF add_octal
<1>2. CASE mask # Invalid /\ c \in Digits \ {"8", "9"}
  <2>1. mask \in 0..UINT_MAX
    BY <1>2
  <2>2. DigitOf[c] \in 0..7
    BY <1>2, OctalRange
  <2>3. mask * 8 + DigitOf[c] \in Nat
    BY <2>1, <2>2, CliParsersAssumption
  <2> QED BY <1>2, <2>1, <2>3, AddOctalIsExact
<1> QED BY <1>1, <1>2

(* The same for parse_perm_filter. *)
LEMMA OctalSteps ==
  ASSUME NEW T, NEW text \in Seq(T)
  PROVE  \E F \in [0..Len(text) -> 0..UINT_MAX \cup {Invalid}] :
           /\ F[0] = 0
           /\ \A k \in 1..Len(text) : F[k] = add_octal(F[k - 1], text[k])
           /\ FoldLeft(add_octal, 0, text) = F[Len(text)]
<1> DEFINE n == Len(text)
           V == 0..UINT_MAX \cup {Invalid}
           Table(f) == f = [s \in SUBSET DOMAIN text |->
             IF s = {} THEN 0 ELSE add_octal(f[s \ {Max(s)}], text[Max(s)])]
           f == CHOOSE f : Table(f)
           step == [p \in V \X (1..n) |-> add_octal(p[1], text[p[2]])]
<1>1. n \in Nat /\ DOMAIN text = 1..n /\ 0 \in V
  BY CliParsersAssumption
<1>2. step \in [V \X (1..n) -> V]
  BY AddOctalType
<1>3. \A a \in V, i \in 1..n : step[<<a, i>>] = add_octal(a, text[i])
  OBVIOUS
<1>4. FoldLeft(add_octal, 0, text) = f[1..n]
  BY <1>1 DEF FoldLeft, MapThenFoldSet
<1> HIDE DEF V, step
<1>5. \E h : Table(h)
  <2>1. PICK h \in [SUBSET (1..n) -> V] : IsFoldTable(h, n, 0, step)
    BY <1>1, <1>2, FoldTableExists
  <2>2. ASSUME NEW s \in SUBSET (1..n), s # {}
        PROVE  h[s] = add_octal(h[s \ {Max(s)}], text[Max(s)])
    <3>1. Max(s) \in 1..n /\ s \ {Max(s)} \in SUBSET (1..n)
      BY <1>1, <2>2, GreatestElement
    <3> QED BY <1>3, <2>1, <2>2, <3>1 DEF IsFoldTable
  <2>3. h[{}] = 0
    BY <2>1 DEF IsFoldTable
  <2>4. \A s \in SUBSET (1..n) :
          h[s] = IF s = {} THEN 0 ELSE add_octal(h[s \ {Max(s)}], text[Max(s)])
    BY <2>2, <2>3
  <2>5. Table(h)
    BY <1>1, <2>4
  <2> QED BY <2>5
<1>6. Table(f)
  <2> HIDE DEF Table
  <2> QED BY <1>5
<1> HIDE DEF f
<1>7. f[{}] = 0
  BY <1>6
<1>8. GoesBy(f, n, V, 0, step)
  <2> SUFFICES ASSUME NEW s \in SUBSET (1..n), s # {}, f[s \ {Max(s)}] \in V
               PROVE  f[s] = step[<<f[s \ {Max(s)}], Max(s)>>]
    BY <1>7 DEF GoesBy
  <2>1. Max(s) \in 1..n
    BY <1>1, GreatestElement
  <2>2. f[s] = add_octal(f[s \ {Max(s)}], text[Max(s)])
    BY <1>1, <1>6
  <2> QED BY <1>3, <2>1, <2>2
<1>9. StepByStep(f, n, V, 0, step)
  BY <1>1, <1>2, <1>8, FoldPrefixes, Zenon
<1> DEFINE F == [k \in 0..n |-> f[1..k]]
<1>10. F \in [0..n -> V] /\ F[0] = 0 /\ F[n] = f[1..n]
  BY <1>1, <1>9 DEF StepByStep
<1>11. \A k \in 1..n : F[k] = add_octal(F[k - 1], text[k])
  <2> SUFFICES ASSUME NEW k \in 1..n PROVE F[k] = add_octal(F[k - 1], text[k])
    OBVIOUS
  <2>1. k \in 0..n /\ k - 1 \in 0..n
    BY <1>1
  <2> QED BY <1>3, <1>9, <2>1 DEF StepByStep
<1> HIDE DEF F
<1> QED BY <1>4, <1>10, <1>11 DEF V

-----------------------------------------------------------------------------
(* The value of a text. *)

IsPowers(p, base, n) ==
  /\ p \in [0..n -> Nat]
  /\ p[0] = 1
  /\ \A k \in 1..n : p[k] = base * p[k - 1]

(* PowersOf computes the powers of its base. *)
LEMMA PowersFacts ==
  ASSUME NEW base \in Nat, NEW N \in Nat
  PROVE  IsPowers(PowersOf(base, N), base, N)
<1> DEFINE S == {n \in Nat : \E p : IsPowers(p, base, n)}
<1>1. 0 \in S
  <2> DEFINE p == [k \in 0..0 |-> 1]
  <2>1. IsPowers(p, base, 0)
    BY DEF IsPowers
  <2> QED BY <2>1
<1>2. ASSUME NEW n \in Nat, n \in S PROVE n + 1 \in S
  <2>1. PICK p : IsPowers(p, base, n)
    BY <1>2
  <2> DEFINE q == [k \in 0..(n + 1) |-> IF k = n + 1 THEN base * p[n] ELSE p[k]]
  <2>2. p \in [0..n -> Nat] /\ p[0] = 1 /\ p[n] \in Nat /\ base * p[n] \in Nat
    BY <2>1 DEF IsPowers
  <2>3. q \in [0..(n + 1) -> Nat] /\ q[0] = 1
    BY <2>2
  <2>4. ASSUME NEW k \in 1..(n + 1) PROVE q[k] = base * q[k - 1]
    <3>1. CASE k = n + 1
      BY <3>1
    <3>2. CASE k # n + 1
      <4>1. k \in 1..n /\ k \in 0..n /\ k - 1 \in 0..n /\ k - 1 # n + 1
        BY <3>2
      <4>2. p[k] = base * p[k - 1]
        BY <2>1, <4>1 DEF IsPowers
      <4> QED BY <4>1, <4>2
    <3> QED BY <3>1, <3>2
  <2> HIDE DEF q
  <2>5. IsPowers(q, base, n + 1)
    BY <2>3, <2>4 DEF IsPowers
  <2> QED BY <2>5
<1>3. N \in S
  <2> HIDE DEF S
  <2> QED BY <1>1, <1>2, InductionBySet
<1>4. PICK p : IsPowers(p, base, N)
  BY <1>3
<1> DEFINE Table(f) == f = [k \in 0..N |-> IF k = 0 THEN 1 ELSE base * f[k - 1]]
<1>5. Table(p)
  BY <1>4 DEF IsPowers
<1>6. PowersOf(base, N) = CHOOSE f : Table(f)
  BY DEF PowersOf
<1>7. Table(PowersOf(base, N))
  <2> HIDE DEF Table
  <2> QED BY <1>5, <1>6
<1> DEFINE w == PowersOf(base, N)
<1> HIDE DEF w
<1>8. DOMAIN w = 0..N /\ w[0] = 1 /\ \A k \in 1..N : w[k] = base * w[k - 1]
  BY <1>7 DEF w
<1> DEFINE R == {k \in 0..N : w[k] \in Nat}
<1>9. 0 \in R
  BY <1>8
<1>10. ASSUME NEW k \in 0..(N - 1), k \in R PROVE k + 1 \in R
  <2>1. k + 1 \in 1..N /\ (k + 1) - 1 = k /\ w[k] \in Nat
    BY <1>10
  <2>2. w[k + 1] = base * w[k]
    BY <1>8, <2>1
  <2> QED BY <2>1, <2>2
<1>11. \A k \in 0..N : k \in R
  <2> HIDE DEF R
  <2> QED BY <1>9, <1>10, InductionUpTo
<1>12. w = [k \in 0..N |-> w[k]]
  BY <1>7 DEF w
<1> QED BY <1>8, <1>11, <1>12 DEF IsPowers, w

(* The sum of the digits and their powers, place by place. *)
LEMMA ValueSteps ==
  ASSUME NEW text \in Seq(Digits), NEW base \in Nat
  PROVE  \E F \in [0..Len(text) -> Nat] :
           /\ F[0] = 0
           /\ \A k \in 1..Len(text) : F[k] = F[k - 1] + DigitOf[text[k]] * PowersOf(base, Len(text))[Len(text) - k]
           /\ Value(text, base) = F[Len(text)]
<1> DEFINE n == Len(text)
           term(i) == DigitOf[text[i]] * PowersOf(base, n)[n - i]
           index == [i \in DOMAIN text |-> i]
           V == Nat
           Table(f) == f = [s \in SUBSET DOMAIN index |->
             IF s = {} THEN 0 ELSE f[s \ {Max(s)}] + term(index[Max(s)])]
           f == CHOOSE f : Table(f)
           step == [p \in V \X (1..n) |-> p[1] + term(p[2])]
<1>0. \A i \in 1..n : term(i) \in Nat
  <2> SUFFICES ASSUME NEW i \in 1..n PROVE term(i) \in Nat
    OBVIOUS
  <2>1. n - i \in 0..n /\ text[i] \in Digits
    OBVIOUS
  <2>2. PowersOf(base, n)[n - i] \in Nat
    BY <2>1, PowersFacts DEF IsPowers
  <2>3. DigitOf[text[i]] \in Nat
    BY <2>1, DigitRange
  <2> HIDE DEF n
  <2> QED BY <2>2, <2>3
<1>1. n \in Nat /\ DOMAIN text = 1..n /\ 0 \in V
  OBVIOUS
<1>2. step \in [V \X (1..n) -> V]
  BY <1>0
<1>3. \A a \in V, i \in 1..n : step[<<a, i>>] = a + term(i)
  OBVIOUS
<1>4. Value(text, base) = f[1..n]
  BY <1>1 DEF Value, FoldLeftDomain, FoldLeft, MapThenFoldSet
<1>13. DOMAIN index = 1..n /\ \A i \in 1..n : index[i] = i
  BY <1>1
<1>14. \A s \in SUBSET (1..n) : s # {} => index[Max(s)] = Max(s)
  BY <1>1, <1>13, GreatestElement
<1> HIDE DEF V, step, index, term
<1>5. \E h : Table(h)
  <2>1. PICK h \in [SUBSET (1..n) -> V] : IsFoldTable(h, n, 0, step)
    BY <1>1, <1>2, FoldTableExists
  <2>2. ASSUME NEW s \in SUBSET (1..n), s # {}
        PROVE  h[s] = h[s \ {Max(s)}] + term(Max(s))
    <3>1. Max(s) \in 1..n /\ s \ {Max(s)} \in SUBSET (1..n)
      BY <1>1, <2>2, GreatestElement
    <3> QED BY <1>3, <2>1, <2>2, <3>1 DEF IsFoldTable
  <2>3. h[{}] = 0
    BY <2>1 DEF IsFoldTable
  <2>4. \A s \in SUBSET (1..n) :
          h[s] = IF s = {} THEN 0 ELSE h[s \ {Max(s)}] + term(Max(s))
    BY <2>2, <2>3
  <2>5. Table(h)
    BY <1>13, <1>14, <2>4
  <2> QED BY <2>5
<1>6. Table(f)
  <2> HIDE DEF Table
  <2> QED BY <1>5
<1> HIDE DEF f
<1>7. f[{}] = 0
  BY <1>6, <1>13
<1>8. GoesBy(f, n, V, 0, step)
  <2> SUFFICES ASSUME NEW s \in SUBSET (1..n), s # {}, f[s \ {Max(s)}] \in V
               PROVE  f[s] = step[<<f[s \ {Max(s)}], Max(s)>>]
    BY <1>7 DEF GoesBy
  <2>1. Max(s) \in 1..n
    BY <1>1, GreatestElement
  <2>2. f[s] = f[s \ {Max(s)}] + term(Max(s))
    BY <1>13, <1>14, <1>6
  <2> QED BY <1>3, <2>1, <2>2
<1>9. StepByStep(f, n, V, 0, step)
  BY <1>1, <1>2, <1>8, FoldPrefixes, Zenon
<1> DEFINE F == [k \in 0..n |-> f[1..k]]
<1>10. F \in [0..n -> V] /\ F[0] = 0 /\ F[n] = f[1..n]
  BY <1>1, <1>9 DEF StepByStep
<1>11. \A k \in 1..n : F[k] = F[k - 1] + term(k)
  <2> SUFFICES ASSUME NEW k \in 1..n PROVE F[k] = F[k - 1] + term(k)
    OBVIOUS
  <2>1. k \in 0..n /\ k - 1 \in 0..n
    BY <1>1
  <2> QED BY <1>3, <1>9, <2>1 DEF StepByStep
<1> HIDE DEF F
<1> QED BY <1>4, <1>10, <1>11 DEF V, term

(* The value after each digit, the way the parsers come to it. *)
IsRunningValue(H, text, base) ==
  /\ H \in [0..Len(text) -> Nat]
  /\ H[0] = 0
  /\ \A k \in 1..Len(text) : H[k] = H[k - 1] * base + DigitOf[text[k]]

(* Every text of digits has its running values. *)
LEMMA RunningValueExists ==
  ASSUME NEW text \in Seq(Digits), NEW base \in Nat
  PROVE  \E H : IsRunningValue(H, text, base)
<1> DEFINE n == Len(text)
           step == [p \in Nat \X (1..n) |-> p[1] * base + DigitOf[text[p[2]]]]
<1>1. \A i \in 1..n : DigitOf[text[i]] \in Nat
  BY DigitRange
<1>2. step \in [Nat \X (1..n) -> Nat]
  <2> SUFFICES ASSUME NEW a \in Nat, NEW i \in 1..n PROVE a * base + DigitOf[text[i]] \in Nat
    OBVIOUS
  <2>1. a * base \in Nat
    BY Z3
  <2> QED BY <1>1, <2>1
<1>3. \A a \in Nat, i \in 1..n : step[<<a, i>>] = a * base + DigitOf[text[i]]
  OBVIOUS
<1>4. n \in Nat /\ 0 \in Nat
  OBVIOUS
<1> HIDE DEF step, n
<1>5. PICK h \in [SUBSET (1..n) -> Nat] : IsFoldTable(h, n, 0, step)
  BY <1>2, <1>4, FoldTableExists
<1>6. GoesBy(h, n, Nat, 0, step)
  BY <1>5 DEF IsFoldTable, GoesBy
<1>7. StepByStep(h, n, Nat, 0, step)
  BY <1>2, <1>4, <1>6, FoldPrefixes, Zenon
<1> DEFINE H == [k \in 0..n |-> h[1..k]]
<1>8. H \in [0..n -> Nat] /\ H[0] = 0
  BY <1>4, <1>7 DEF StepByStep
<1>9. ASSUME NEW k \in 1..n PROVE H[k] = H[k - 1] * base + DigitOf[text[k]]
  <2>1. k \in 0..n /\ k - 1 \in 0..n
    BY <1>4
  <2> QED BY <1>3, <1>7, <2>1 DEF StepByStep
<1> HIDE DEF H
<1> QED BY <1>8, <1>9 DEF n, IsRunningValue

(* One place further, the sum of the places is the running value with the  *)
(* places still to come.                                                   *)
LEMMA HornerStep ==
  ASSUME NEW a \in Nat, NEW b \in Nat, NEW d \in Nat, NEW q \in Nat
  PROVE  a * (b * q) + d * q = (a * b + d) * q
BY Z3

(* The running value ends as the value of the text. *)
LEMMA ValueByHorner ==
  ASSUME NEW text \in Seq(Digits), NEW base \in Nat, NEW H, IsRunningValue(H, text, base)
  PROVE  Value(text, base) = H[Len(text)]
<1> DEFINE n == Len(text)
           w == PowersOf(base, n)
<1>1. n \in Nat /\ IsPowers(w, base, n)
  BY PowersFacts
<1>2. PICK F \in [0..n -> Nat] :
        /\ F[0] = 0
        /\ \A k \in 1..n : F[k] = F[k - 1] + DigitOf[text[k]] * w[n - k]
        /\ Value(text, base) = F[n]
  BY ValueSteps
<1>3. \A i \in 1..n : DigitOf[text[i]] \in Nat
  BY DigitRange
<1>4. /\ H \in [0..n -> Nat] /\ H[0] = 0
      /\ \A k \in 1..n : H[k] = H[k - 1] * base + DigitOf[text[k]]
  BY DEF IsRunningValue
<1>5. /\ w \in [0..n -> Nat] /\ w[0] = 1
      /\ \A k \in 1..n : w[k] = base * w[k - 1]
  BY <1>1 DEF IsPowers
<1> HIDE DEF n, w
<1> DEFINE S == {k \in 0..n : F[k] = H[k] * w[n - k]}
<1>6. 0 \in S
  <2>1. w[n - 0] \in Nat /\ 0 \in 0..n
    BY <1>1, <1>5
  <2> QED BY <1>2, <1>4, <2>1
<1>7. ASSUME NEW k \in 0..(n - 1), k \in S PROVE k + 1 \in S
  <2> DEFINE m == k + 1
  <2>1. m \in 1..n /\ m - 1 = k /\ m \in 0..n /\ n - k \in 1..n /\ (n - k) - 1 = n - m /\ n - m \in 0..n
        /\ k \in 0..n
    BY <1>1
  <2> HIDE DEF m
  <2>2. F[m] = F[k] + DigitOf[text[m]] * w[n - m]
    BY <1>2, <2>1
  <2>3. F[k] = H[k] * w[n - k]
    BY <1>7
  <2>4. w[n - k] = base * w[n - m]
    BY <1>5, <2>1
  <2>5. H[m] = H[k] * base + DigitOf[text[m]]
    BY <1>4, <2>1
  <2>6. w[n - m] \in Nat /\ H[k] \in Nat /\ DigitOf[text[m]] \in Nat
    BY <1>3, <1>4, <1>5, <2>1
  <2>7. H[k] * (base * w[n - m]) + DigitOf[text[m]] * w[n - m]
          = (H[k] * base + DigitOf[text[m]]) * w[n - m]
    BY <2>6, HornerStep
  <2>8. F[m] = H[m] * w[n - m]
    BY <2>2, <2>3, <2>4, <2>5, <2>7, Zenon
  <2> QED BY <2>1, <2>8 DEF m
<1>8. \A k \in 0..n : k \in S
  <2> HIDE DEF S
  <2> QED BY <1>1, <1>6, <1>7, InductionUpTo
<1>9. F[n] = H[n] * w[n - n] /\ H[n] \in Nat /\ n - n = 0
  BY <1>1, <1>4, <1>8
<1> QED BY <1>2, <1>5, <1>9 DEF n

(* A number that is too large is so with one digit more. *)
LEMMA TooLargeStays ==
  ASSUME NEW M \in Nat, NEW a \in Nat, NEW d \in 0..9, ~(a <= M)
  PROVE  ~(a * 10 + d <= M) /\ ~(a * 8 + d <= M)
BY Z3

(* The running value does not fall, so a number that is too large stays so *)
(* whatever digits follow.                                                 *)
LEMMA ParsedPrefix ==
  ASSUME NEW text \in Seq(Digits), NEW H, IsRunningValue(H, text, 10),
         NEW F \in [0..Len(text) -> 0..UINT64_MAX \cup {Invalid}], F[0] = 0,
         \A k \in 1..Len(text) : F[k] = add_digit(F[k - 1], text[k])
  PROVE  F[Len(text)] = IF H[Len(text)] <= UINT64_MAX THEN H[Len(text)] ELSE Invalid
<1> DEFINE n == Len(text)
           S == {k \in 0..n : F[k] = IF H[k] <= UINT64_MAX THEN H[k] ELSE Invalid}
<1>1. n \in Nat /\ UINT64_MAX \in Nat
  BY CliParsersAssumption
<1>2. /\ H \in [0..n -> Nat] /\ H[0] = 0
      /\ \A k \in 1..n : H[k] = H[k - 1] * 10 + DigitOf[text[k]]
  BY DEF IsRunningValue
<1>3. 0 \in S
  BY <1>1, <1>2
<1>4. ASSUME NEW k \in 0..(n - 1), k \in S PROVE k + 1 \in S
  <2> DEFINE m == k + 1
  <2>1. m \in 1..n /\ m - 1 = k /\ m \in 0..n /\ k \in 0..n /\ text[m] \in Digits
    BY <1>1
  <2> HIDE DEF m
  <2>2. F[m] = add_digit(F[k], text[m])
    BY <2>1
  <2>3. H[m] = H[k] * 10 + DigitOf[text[m]] /\ H[k] \in Nat /\ H[m] \in Nat
    BY <1>2, <2>1
  <2>4. DigitOf[text[m]] \in 0..9
    BY <2>1, DigitRange
  <2>5. F[m] = IF H[m] <= UINT64_MAX THEN H[m] ELSE Invalid
    <3>1. CASE H[k] <= UINT64_MAX
      <4>1. F[k] = H[k] /\ H[k] \in 0..UINT64_MAX
        BY <1>1, <1>4, <2>3, <3>1
      <4>2. add_digit(H[k], text[m]) = IF H[k] * 10 + DigitOf[text[m]] <= UINT64_MAX
                                       THEN H[k] * 10 + DigitOf[text[m]] ELSE Invalid
        BY <2>1, <4>1, AddDigitIsExact
      <4> QED BY <2>2, <2>3, <4>1, <4>2, Zenon
    <3>2. CASE ~(H[k] <= UINT64_MAX)
      <4>1. F[k] = Invalid
        BY <1>4, <3>2
      <4>2. F[m] = Invalid
        BY <2>2, <4>1 DEF add_digit
      <4>3. ~(H[m] <= UINT64_MAX)
        BY <1>1, <2>3, <2>4, <3>2, TooLargeStays
      <4> QED BY <4>2, <4>3
    <3> QED BY <3>1, <3>2
  <2> QED BY <2>1, <2>5 DEF m
<1>5. \A k \in 0..n : k \in S
  <2> HIDE DEF S
  <2> QED BY <1>1, <1>3, <1>4, InductionUpTo
<1> QED BY <1>1, <1>5

(* The same for the octal digits. *)
LEMMA ParsedOctalPrefix ==
  ASSUME NEW text \in Seq(Digits \ {"8", "9"}), NEW H, IsRunningValue(H, text, 8),
         NEW F \in [0..Len(text) -> 0..UINT_MAX \cup {Invalid}], F[0] = 0,
         \A k \in 1..Len(text) : F[k] = add_octal(F[k - 1], text[k])
  PROVE  F[Len(text)] = IF H[Len(text)] <= UINT_MAX THEN H[Len(text)] ELSE Invalid
<1> DEFINE n == Len(text)
           S == {k \in 0..n : F[k] = IF H[k] <= UINT_MAX THEN H[k] ELSE Invalid}
<1>1. n \in Nat /\ UINT_MAX \in Nat
  BY CliParsersAssumption
<1>2. /\ H \in [0..n -> Nat] /\ H[0] = 0
      /\ \A k \in 1..n : H[k] = H[k - 1] * 8 + DigitOf[text[k]]
  BY DEF IsRunningValue
<1>3. 0 \in S
  BY <1>1, <1>2
<1>4. ASSUME NEW k \in 0..(n - 1), k \in S PROVE k + 1 \in S
  <2> DEFINE m == k + 1
  <2>1. m \in 1..n /\ m - 1 = k /\ m \in 0..n /\ k \in 0..n /\ text[m] \in Digits \ {"8", "9"}
    BY <1>1
  <2> HIDE DEF m
  <2>2. F[m] = add_octal(F[k], text[m])
    BY <2>1
  <2>3. H[m] = H[k] * 8 + DigitOf[text[m]] /\ H[k] \in Nat /\ H[m] \in Nat
    BY <1>2, <2>1
  <2>4. DigitOf[text[m]] \in 0..9
    BY <2>1, OctalRange
  <2>5. F[m] = IF H[m] <= UINT_MAX THEN H[m] ELSE Invalid
    <3>1. CASE H[k] <= UINT_MAX
      <4>1. F[k] = H[k] /\ H[k] \in 0..UINT_MAX
        BY <1>1, <1>4, <2>3, <3>1
      <4>2. add_octal(H[k], text[m]) = IF H[k] * 8 + DigitOf[text[m]] <= UINT_MAX
                                       THEN H[k] * 8 + DigitOf[text[m]] ELSE Invalid
        BY <2>1, <4>1, AddOctalIsExact
      <4> QED BY <2>2, <2>3, <4>1, <4>2, Zenon
    <3>2. CASE ~(H[k] <= UINT_MAX)
      <4>1. F[k] = Invalid
        BY <1>4, <3>2
      <4>2. F[m] = Invalid
        BY <2>2, <4>1 DEF add_octal
      <4>3. ~(H[m] <= UINT_MAX)
        BY <1>1, <2>3, <2>4, <3>2, TooLargeStays
      <4> QED BY <4>2, <4>3
    <3> QED BY <3>1, <3>2
  <2> QED BY <2>1, <2>5 DEF m
<1>5. \A k \in 0..n : k \in S
  <2> HIDE DEF S
  <2> QED BY <1>1, <1>3, <1>4, InductionUpTo
<1> QED BY <1>1, <1>5

(* A character that is no digit spoils what has been read. *)
LEMMA SpoiltPrefix ==
  ASSUME NEW T, NEW text \in Seq(T),
         NEW F \in [0..Len(text) -> 0..UINT64_MAX \cup {Invalid}],
         \A k \in 1..Len(text) : F[k] = add_digit(F[k - 1], text[k]),
         NEW i \in 1..Len(text), text[i] \notin Digits
  PROVE  F[Len(text)] = Invalid
<1> DEFINE n == Len(text)
           S == {k \in 0..n : k >= i => F[k] = Invalid}
<1>1. n \in Nat
  OBVIOUS
<1>2. 0 \in S
  BY <1>1
<1>3. ASSUME NEW k \in 0..(n - 1), k \in S PROVE k + 1 \in S
  <2>1. k + 1 \in 1..n /\ (k + 1) - 1 = k /\ k + 1 \in 0..n
    BY <1>1
  <2>2. F[k + 1] = add_digit(F[k], text[k + 1])
    BY <2>1
  <2>3. k + 1 >= i => k + 1 = i \/ F[k] = Invalid
    BY <1>3, <2>1
  <2>4. k + 1 >= i => F[k + 1] = Invalid
    BY <2>2, <2>3 DEF add_digit
  <2> QED BY <2>1, <2>4
<1>4. \A k \in 0..n : k \in S
  <2> HIDE DEF S
  <2> QED BY <1>1, <1>2, <1>3, InductionUpTo
<1> QED BY <1>1, <1>4

(* A character that is no octal digit spoils what follows it. *)
LEMMA SpoiltOctalPrefix ==
  ASSUME NEW T, NEW text \in Seq(T),
         NEW F \in [0..Len(text) -> 0..UINT_MAX \cup {Invalid}],
         \A k \in 1..Len(text) : F[k] = add_octal(F[k - 1], text[k]),
         NEW i \in 1..Len(text), text[i] \notin Digits \ {"8", "9"}
  PROVE  F[Len(text)] = Invalid
<1> DEFINE n == Len(text)
           S == {k \in 0..n : k >= i => F[k] = Invalid}
<1>1. n \in Nat
  OBVIOUS
<1>2. 0 \in S
  BY <1>1
<1>3. ASSUME NEW k \in 0..(n - 1), k \in S PROVE k + 1 \in S
  <2>1. k + 1 \in 1..n /\ (k + 1) - 1 = k /\ k + 1 \in 0..n
    BY <1>1
  <2>2. F[k + 1] = add_octal(F[k], text[k + 1])
    BY <2>1
  <2>3. k + 1 >= i => k + 1 = i \/ F[k] = Invalid
    BY <1>3, <2>1
  <2>4. k + 1 >= i => F[k + 1] = Invalid
    BY <2>2, <2>3 DEF add_octal
  <2> QED BY <2>1, <2>4
<1>4. \A k \in 0..n : k \in S
  <2> HIDE DEF S
  <2> QED BY <1>1, <1>2, <1>3, InductionUpTo
<1> QED BY <1>1, <1>4

(* A number is a text of digits that is not empty. *)
LEMMA NumbersAreDigits ==
  ASSUME NEW T, NEW text \in Seq(T)
  PROVE  /\ IsNumber(text, 10) <=> text # <<>> /\ text \in Seq(Digits)
         /\ IsNumber(text, 8) <=> text # <<>> /\ text \in Seq(Digits \ {"8", "9"})
<1>1. \A c \in Digits : DigitOf[c] < 10
  BY DigitRange
<1>2. \A c \in Digits : DigitOf[c] < 8 <=> c \notin {"8", "9"}
  <2>1. \A c \in Digits \ {"8", "9"} : DigitOf[c] < 8
    BY OctalRange
  <2>2. DigitOf["8"] = 8 /\ DigitOf["9"] = 9
    BY EightAndNine
  <2> QED BY <2>1, <2>2
<1>3. DOMAIN text = 1..Len(text)
  OBVIOUS
<1>4. ASSUME NEW D
      PROVE  text \in Seq(D) <=> \A i \in DOMAIN text : text[i] \in D
  <2>1. (\A i \in 1..Len(text) : text[i] \in D) => text \in Seq(D)
    BY SeqDef
  <2> QED BY <1>3, <2>1
<1>5. text \in Seq(Digits) <=> \A i \in DOMAIN text : text[i] \in Digits
  BY <1>4, Zenon
<1>6. text \in Seq(Digits \ {"8", "9"}) <=> \A i \in DOMAIN text : text[i] \in Digits \ {"8", "9"}
  BY <1>4, Zenon
<1> QED BY <1>1, <1>2, <1>5, <1>6 DEF IsNumber

(* A number is its running value. *)
LEMMA ValueType ==
  ASSUME NEW text \in Seq(Digits), NEW base \in Nat
  PROVE  Value(text, base) \in Nat
<1>1. PICK H : IsRunningValue(H, text, base)
  BY RunningValueExists
<1> QED BY <1>1, ValueByHorner DEF IsRunningValue

(* parse_unsigned takes exactly the numbers that fit and answers their     *)
(* value: no digit, no overflow and no stray character is missed           *)
(* (bc_seek_cli_parsers.c:14-33), for every text and every UINT64_MAX.     *)
THEOREM ParseUnsignedIsExact ==
  ASSUME NEW T, NEW text \in Seq(T)
  PROVE  parse_unsigned(text) = IF IsNumber(text, 10) /\ Value(text, 10) <= UINT64_MAX
                                THEN Value(text, 10) ELSE Invalid
<1>1. CASE text = <<>>
  BY <1>1, NumbersAreDigits, Zenon DEF parse_unsigned
<1>2. CASE text # <<>>
  <2>1. parse_unsigned(text) = FoldLeft(add_digit, 0, text)
    BY <1>2, Zenon DEF parse_unsigned
  <2>2. PICK F \in [0..Len(text) -> 0..UINT64_MAX \cup {Invalid}] :
           /\ F[0] = 0
           /\ \A k \in 1..Len(text) : F[k] = add_digit(F[k - 1], text[k])
           /\ FoldLeft(add_digit, 0, text) = F[Len(text)]
    BY DigitSteps
  <2>3. CASE text \in Seq(Digits)
    <3>1. PICK H : IsRunningValue(H, text, 10)
      BY <2>3, RunningValueExists
    <3>2. F[Len(text)] = IF H[Len(text)] <= UINT64_MAX THEN H[Len(text)] ELSE Invalid
      BY <2>2, <2>3, <3>1, ParsedPrefix
    <3>3. Value(text, 10) = H[Len(text)]
      BY <2>3, <3>1, ValueByHorner
    <3>4. IsNumber(text, 10)
      BY <1>2, <2>3, NumbersAreDigits
    <3> QED BY <2>1, <2>2, <3>2, <3>3, <3>4, Zenon
  <2>4. CASE text \notin Seq(Digits)
    <3>1. ~IsNumber(text, 10)
      BY <2>4, NumbersAreDigits
    <3>2. PICK i \in 1..Len(text) : text[i] \notin Digits
      BY <2>4, SeqDef
    <3>3. F[Len(text)] = Invalid
      BY <2>2, <3>2, SpoiltPrefix
    <3> QED BY <2>1, <2>2, <3>1, <3>3, Zenon
  <2> QED BY <2>3, <2>4
<1> QED BY <1>1, <1>2

(* parse_perm_filter takes exactly the octal numbers up to MODE_MAX        *)
(* (bc_seek_cli_parsers.c:156-178), for every text and every word size.    *)
THEOREM ParsePermIsExact ==
  ASSUME NEW T, NEW text \in Seq(T)
  PROVE  parse_perm_filter(text) = IF IsMode(text) THEN Value(text, 8) ELSE Invalid
<1>1. CASE text = <<>>
  <2>1. ~IsNumber(text, 8)
    BY <1>1, NumbersAreDigits, Zenon
  <2> QED BY <1>1, <2>1, Zenon DEF parse_perm_filter, IsMode
<1>2. CASE text # <<>>
  <2> DEFINE mask == FoldLeft(add_octal, 0, text)
  <2>1. parse_perm_filter(text) = IF mask = Invalid \/ mask > MODE_MAX THEN Invalid ELSE mask
    BY <1>2, Zenon DEF parse_perm_filter
  <2>2. PICK F \in [0..Len(text) -> 0..UINT_MAX \cup {Invalid}] :
           /\ F[0] = 0
           /\ \A k \in 1..Len(text) : F[k] = add_octal(F[k - 1], text[k])
           /\ FoldLeft(add_octal, 0, text) = F[Len(text)]
    BY OctalSteps
  <2>3. CASE text \in Seq(Digits \ {"8", "9"})
    <3>1. PICK H : IsRunningValue(H, text, 8)
      BY <2>3, RunningValueExists
    <3>2. F[Len(text)] = IF H[Len(text)] <= UINT_MAX THEN H[Len(text)] ELSE Invalid
      BY <2>2, <2>3, <3>1, ParsedOctalPrefix
    <3>3. Value(text, 8) = H[Len(text)] /\ H[Len(text)] \in Nat
      <4>1. text \in Seq(Digits) /\ Len(text) \in 0..Len(text)
        BY <2>3
      <4>2. Value(text, 8) = H[Len(text)]
        BY <3>1, <4>1, ValueByHorner
      <4>3. H[Len(text)] \in Nat
        BY <3>1, <4>1 DEF IsRunningValue
      <4> QED BY <4>2, <4>3
    <3>4. IsNumber(text, 8)
      BY <1>2, <2>3, NumbersAreDigits
    <3>5. mask = IF Value(text, 8) <= UINT_MAX THEN Value(text, 8) ELSE Invalid
      BY <2>2, <3>2, <3>3, Zenon
    <3>6. /\ UINT_MAX \in Nat /\ MODE_MAX \in Nat /\ MODE_MAX <= UINT_MAX
          /\ Invalid \notin Int /\ Value(text, 8) \in Nat
      BY <3>3, CliParsersAssumption
    <3> HIDE DEF mask
    <3>7. CASE Value(text, 8) <= MODE_MAX
      BY <2>1, <3>4, <3>5, <3>6, <3>7 DEF IsMode
    <3>8. CASE ~(Value(text, 8) <= MODE_MAX)
      BY <2>1, <3>4, <3>5, <3>6, <3>8 DEF IsMode
    <3> QED BY <3>7, <3>8
  <2>4. CASE text \notin Seq(Digits \ {"8", "9"})
    <3>1. ~IsNumber(text, 8)
      BY <2>4, NumbersAreDigits
    <3>2. PICK i \in 1..Len(text) : text[i] \notin Digits \ {"8", "9"}
      BY <2>4, SeqDef
    <3>3. F[Len(text)] = Invalid
      BY <2>2, <3>2, SpoiltOctalPrefix
    <3> QED BY <2>1, <2>2, <3>1, <3>3, Zenon DEF IsMode
  <2> QED BY <2>3, <2>4
<1> QED BY <1>1, <1>2

(* A slice of a sequence, element by element. *)
LEMMA SliceIs ==
  ASSUME NEW T, NEW s \in Seq(T), NEW a \in Nat, NEW b \in Nat, a <= b, b <= Len(s)
  PROVE  /\ SubSeq(s, a + 1, b) \in Seq(T)
         /\ Len(SubSeq(s, a + 1, b)) = b - a
         /\ \A i \in 1..(b - a) : SubSeq(s, a + 1, b)[i] = s[a + i]
<1>1. \A i \in (a + 1)..b : s[i] \in T
  BY LenProperties
<1> DEFINE t == SubSeq(s, a + 1, b)
<1>2. /\ t \in Seq(T)
      /\ Len(t) = IF a + 1 <= b THEN b - (a + 1) + 1 ELSE 0
      /\ \A i \in 1..(b - (a + 1) + 1) : t[i] = s[(a + 1) + i - 1]
  BY <1>1, SubSeqProperties
<1> HIDE DEF t
<1>3. Len(t) = b - a
  BY <1>2
<1>4. \A i \in 1..(b - a) : i \in 1..(b - (a + 1) + 1) /\ (a + 1) + i - 1 = a + i
  OBVIOUS
<1>5. \A i \in 1..(b - a) : t[i] = s[a + i]
  BY <1>2, <1>4
<1> QED BY <1>2, <1>3, <1>5 DEF t

(* The first characters of a text. *)
LEMMA PrefixIs ==
  ASSUME NEW T, NEW s \in Seq(T), NEW b \in Nat, b <= Len(s)
  PROVE  /\ SubSeq(s, 1, b) \in Seq(T)
         /\ Len(SubSeq(s, 1, b)) = b
         /\ \A i \in 1..b : SubSeq(s, 1, b)[i] = s[i]
<1>1. \A k \in 1..b : s[k] \in T
  BY LenProperties
<1> QED BY <1>1, SubSeqProperties

-----------------------------------------------------------------------------
(* A size, taken apart the way the parsers do it. *)

SignPart(text) == IF Head(text) \in {"+", "-"} THEN <<Head(text)>> ELSE <<>>

HasUnit(cursor) == Last(cursor) \in DOMAIN Multiplier

UnitPart(text) == IF HasUnit(AfterSign(text)) THEN <<Last(AfterSign(text))>> ELSE <<>>

NumberPart(text) ==
  IF HasUnit(AfterSign(text)) THEN Front(AfterSign(text)) ELSE AfterSign(text)

Reading(text) ==
  [sign |-> SignPart(text), unit |-> UnitPart(text), number |-> NumberPart(text)]

(* The two signs are no digits. *)
LEMMA SignsAreNoDigits == "+" \notin Digits /\ "-" \notin Digits
BY DEF Digits, Range, Numerals

(* What a sign, if there is one, leaves of a text. *)
LEMMA AfterSignFacts ==
  ASSUME NEW T, NEW text \in Seq(T), text # <<>>
  PROVE  /\ Len(text) \in Nat \ {0} /\ Head(text) = text[1]
         /\ Len(SignPart(text)) \in {0, 1}
         /\ AfterSign(text) = SubSeq(text, Len(SignPart(text)) + 1, Len(text))
         /\ AfterSign(text) \in Seq(T)
         /\ Len(AfterSign(text)) = Len(text) - Len(SignPart(text))
         /\ AfterSign(text) # <<>> => Last(AfterSign(text)) = text[Len(text)]
<1>1. Len(text) \in Nat \ {0} /\ Head(text) = text[1]
  BY EmptySeq
<1>2. Len(<<>>) = 0 /\ \A x : Len(<<x>>) = 1
  OBVIOUS
<1>3. CASE Head(text) \in {"+", "-"}
  <2>1. AfterSign(text) = Tail(text) /\ Len(SignPart(text)) = 1
    BY <1>2, <1>3 DEF AfterSign, SignPart
  <2>2. Tail(text) = SubSeq(text, 2, Len(text))
    BY TailIsSubSeq
  <2>3. /\ Tail(text) \in Seq(T) /\ Len(Tail(text)) = Len(text) - 1
        /\ \A i \in 1..Len(Tail(text)) : Tail(text)[i] = text[i + 1]
    BY HeadTailProperties
  <2>4. Tail(text) # <<>> => Tail(text)[Len(Tail(text))] = text[Len(text)]
    <3> SUFFICES ASSUME Tail(text) # <<>> PROVE Tail(text)[Len(Tail(text))] = text[Len(text)]
      OBVIOUS
    <3>1. Len(Tail(text)) \in Nat \ {0}
      BY <2>3, EmptySeq
    <3>2. Len(Tail(text)) \in 1..Len(Tail(text)) /\ Len(Tail(text)) + 1 = Len(text)
      BY <1>1, <2>3, <3>1
    <3> QED BY <2>3, <3>2
  <2> QED BY <1>1, <2>1, <2>2, <2>3, <2>4 DEF Last
<1>4. CASE Head(text) \notin {"+", "-"}
  <2>1. AfterSign(text) = text /\ Len(SignPart(text)) = 0
    BY <1>2, <1>4 DEF AfterSign, SignPart
  <2>2. text = SubSeq(text, 1, Len(text))
    BY SubSeqFull
  <2> QED BY <1>1, <2>1, <2>2 DEF Last
<1> QED BY <1>3, <1>4

(* The number lies between the sign and the unit. *)
LEMMA NumberPartFacts ==
  ASSUME NEW T, NEW text \in Seq(T), text # <<>>, AfterSign(text) # <<>>
  PROVE  /\ Len(UnitPart(text)) \in {0, 1}
         /\ NumberPart(text) = SubSeq(text, Len(SignPart(text)) + 1, Len(text) - Len(UnitPart(text)))
         /\ NumberPart(text) \in Seq(T)
         /\ Len(NumberPart(text)) = Len(text) - Len(SignPart(text)) - Len(UnitPart(text))
<1> DEFINE L == Len(text)
           a == Len(SignPart(text))
           c == AfterSign(text)
<1>1. L \in Nat \ {0} /\ a \in {0, 1} /\ c = SubSeq(text, a + 1, L) /\ c \in Seq(T) /\ Len(c) = L - a
  BY AfterSignFacts
<1>2. Len(<<>>) = 0 /\ \A x : Len(<<x>>) = 1
  OBVIOUS
<1>3. Len(c) \in Nat \ {0}
  BY <1>1, EmptySeq
<1>4. CASE HasUnit(c)
  <2>1. Len(UnitPart(text)) = 1 /\ NumberPart(text) = SubSeq(c, 1, Len(c) - 1)
    BY <1>2, <1>4 DEF UnitPart, NumberPart, Front
  <2>2. \A i \in 1..(Len(c) - 1) : c[i] \in T
    BY <1>1, <1>3
  <2>3. /\ SubSeq(c, 1, Len(c) - 1) \in Seq(T)
        /\ Len(SubSeq(c, 1, Len(c) - 1)) = Len(c) - 1
        /\ \A i \in 1..(Len(c) - 1) : SubSeq(c, 1, Len(c) - 1)[i] = c[i]
    BY <1>1, <1>3, PrefixIs
  <2>4. \A i \in (a + 1)..L : text[i] \in T
    BY <1>1
  <2>5. \A i \in (a + 1)..(L - 1) : text[i] \in T
    BY <1>1
  <2>6. \A i \in 1..(L - a) : c[i] = text[a + i]
    BY <1>1, <2>4, SliceIs
  <2> DEFINE e == SubSeq(text, a + 1, L - 1)
  <2>7. e \in Seq(T) /\ Len(e) = L - 1 - a /\ \A i \in 1..(L - 1 - a) : e[i] = text[a + i]
    BY <1>1, <1>3, <2>5, SliceIs
  <2> DEFINE d == SubSeq(c, 1, Len(c) - 1)
  <2>8. d \in Seq(T) /\ Len(d) = L - 1 - a /\ \A i \in 1..(L - 1 - a) : d[i] = text[a + i]
    BY <1>1, <2>3, <2>6
  <2> HIDE DEF d, e
  <2>9. d = e
    BY <2>7, <2>8, SeqEqual
  <2> QED BY <1>1, <2>1, <2>7, <2>8, <2>9 DEF d, e
<1>5. CASE ~HasUnit(c)
  <2>1. Len(UnitPart(text)) = 0 /\ NumberPart(text) = c
    BY <1>2, <1>5 DEF UnitPart, NumberPart
  <2> QED BY <1>1, <2>1
<1> QED BY <1>4, <1>5

(* The three parts put together. *)
LEMMA PartsMakeText ==
  ASSUME NEW T, NEW text \in Seq(T), text # <<>>, AfterSign(text) # <<>>
  PROVE  (SignPart(text) \o NumberPart(text)) \o UnitPart(text) = text
<1> DEFINE L == Len(text)
           s == SignPart(text)
           m == NumberPart(text)
           u == UnitPart(text)
           a == Len(s)
           b == L - Len(u)
<1>1. L \in Nat \ {0} /\ a \in {0, 1} /\ Len(AfterSign(text)) = L - a /\ AfterSign(text) \in Seq(T)
      /\ Head(text) = text[1] /\ Last(AfterSign(text)) = text[L]
  BY AfterSignFacts
<1>2. L - a \in Nat \ {0}
  BY <1>1, EmptySeq
<1>3. Len(u) \in {0, 1} /\ m = SubSeq(text, a + 1, b) /\ m \in Seq(T) /\ Len(m) = b - a
  BY <1>1, NumberPartFacts
<1>4. a \in Nat /\ b \in Nat /\ a <= b /\ b <= L /\ L - b = Len(u)
  BY <1>1, <1>2, <1>3
<1>5. \A i \in 1..(b - a) : m[i] = text[a + i]
  BY <1>3, <1>4, SliceIs
<1>6. s \in Seq(T) /\ \A i \in 1..a : s[i] = text[i]
  <2>1. CASE Head(text) \in {"+", "-"}
    <3>1. s = <<text[1]>> /\ a = 1 /\ text[1] \in T
      BY <1>1, <2>1 DEF SignPart
    <3> QED BY <3>1
  <2>2. CASE Head(text) \notin {"+", "-"}
    <3>1. s = <<>> /\ a = 0
      BY <2>2 DEF SignPart
    <3> QED BY <3>1
  <2> QED BY <2>1, <2>2
<1>7. u \in Seq(T) /\ \A i \in 1..Len(u) : u[i] = text[b + i]
  <2>1. CASE HasUnit(AfterSign(text))
    <3>1. u = <<text[L]>> /\ Len(u) = 1 /\ text[L] \in T
      BY <1>1, <2>1 DEF UnitPart
    <3>2. b + 1 = L
      BY <1>1, <3>1
    <3> QED BY <3>1, <3>2
  <2>2. CASE ~HasUnit(AfterSign(text))
    <3>1. u = <<>> /\ Len(u) = 0
      BY <2>2 DEF UnitPart
    <3> QED BY <3>1
  <2> QED BY <2>1, <2>2
<1> HIDE DEF s, m, u, L, a, b
<1> DEFINE t == s \o m
<1>8. /\ t \in Seq(T) /\ Len(t) = Len(s) + Len(m)
      /\ \A i \in 1..(Len(s) + Len(m)) : t[i] = IF i <= Len(s) THEN s[i] ELSE m[i - Len(s)]
  BY <1>3, <1>6, ConcatProperties
<1>9. Len(t) = b /\ \A i \in 1..b : t[i] = text[i]
  <2>1. Len(s) = a /\ Len(t) = b
    BY <1>3, <1>4, <1>8 DEF a
  <2>2. ASSUME NEW i \in 1..b PROVE t[i] = text[i]
    <3>1. i \in 1..(Len(s) + Len(m))
      BY <1>3, <1>4, <2>1
    <3>2. CASE i <= a
      BY <1>6, <1>8, <2>1, <3>1, <3>2
    <3>3. CASE ~(i <= a)
      <4>1. i - a \in 1..(b - a) /\ a + (i - a) = i
        BY <1>4, <3>3
      <4> QED BY <1>5, <1>8, <2>1, <3>1, <3>3, <4>1
    <3> QED BY <3>2, <3>3
  <2> HIDE DEF t
  <2> QED BY <2>1, <2>2
<1> HIDE DEF t
<1> DEFINE v == t \o u
<1>10. /\ v \in Seq(T) /\ Len(v) = Len(t) + Len(u)
       /\ \A i \in 1..(Len(t) + Len(u)) : v[i] = IF i <= Len(t) THEN t[i] ELSE u[i - Len(t)]
  BY <1>7, <1>8, ConcatProperties
<1>11. Len(v) = L /\ \A i \in 1..L : v[i] = text[i]
  <2>1. Len(v) = L
    BY <1>1, <1>4, <1>9, <1>10
  <2>2. ASSUME NEW i \in 1..L PROVE v[i] = text[i]
    <3>1. i \in 1..(Len(t) + Len(u))
      BY <1>1, <1>4, <1>9, <1>10, <2>1
    <3>2. CASE i <= b
      <4>1. i \in 1..b
        BY <1>4, <3>2
      <4> QED BY <1>9, <1>10, <3>1, <3>2, <4>1
    <3>3. CASE ~(i <= b)
      <4>1. i - b \in 1..Len(u) /\ b + (i - b) = i
        BY <1>1, <1>4, <3>3
      <4> QED BY <1>7, <1>9, <1>10, <3>1, <3>3, <4>1
    <3> QED BY <3>2, <3>3
  <2> HIDE DEF v
  <2> QED BY <2>1, <2>2
<1>12. v = text
  <2> HIDE DEF v
  <2> QED BY <1>10, <1>11, SeqEqual DEF L
<1> QED BY <1>12 DEF v, t, s, m, u

(* A text whose parts fit is a size. *)
LEMMA ReadingIsSize ==
  ASSUME NEW T, NEW text \in Seq(T), text # <<>>, AfterSign(text) # <<>>,
         IsNumber(NumberPart(text), 10)
  PROVE  Reading(text) \in SizesOf(text)
<1> DEFINE s == SignPart(text)
           u == UnitPart(text)
<1>1. s \in Signs
  BY DEF SignPart, Signs
<1>2. u \in Units
  BY DEF UnitPart, HasUnit, Units
<1>3. NumberPart(text) = SubSeq(text, Len(s) + 1, Len(text) - Len(u))
  BY NumberPartFacts
<1>4. (s \o NumberPart(text)) \o u = text
  BY PartsMakeText
<1> HIDE DEF s, u
<1> DEFINE r == ReadAs(text, <<s, u>>)
<1>5. r.sign = s /\ r.unit = u /\ r.number = NumberPart(text)
  BY <1>3 DEF ReadAs
<1>6. (r.sign \o r.number) \o r.unit = text /\ IsNumber(r.number, 10)
  BY <1>4, <1>5
<1>7. r \in {ReadAs(text, p) : p \in Signs \X Units}
  <2>1. <<s, u>> \in Signs \X Units
    BY <1>1, <1>2
  <2> QED BY <2>1
<1>8. r = Reading(text)
  BY <1>3 DEF Reading, ReadAs, s, u
<1> HIDE DEF r
<1>9. r \in SizesOf(text)
  BY <1>6, <1>7 DEF SizesOf
<1> QED BY <1>8, <1>9

(* A size is read in one way: as the parser reads it. *)
LEMMA SizeIsReading ==
  ASSUME NEW text \in Texts, NEW r \in SizesOf(text)
  PROVE  text # <<>> /\ AfterSign(text) # <<>> /\ r = Reading(text)
         /\ IsNumber(NumberPart(text), 10)
<1> DEFINE L == Len(text)
<1>1. PICK p \in Signs \X Units : r = ReadAs(text, p)
  BY DEF SizesOf
<1> DEFINE s == p[1]
           u == p[2]
           m == SubSeq(text, Len(s) + 1, Len(text) - Len(u))
<1>2. s \in Signs /\ u \in Units
  OBVIOUS
<1>3. r = [sign |-> s, unit |-> u, number |-> m] /\ r.sign = s /\ r.unit = u /\ r.number = m
  BY <1>1 DEF ReadAs
<1>4. (s \o m) \o u = text /\ IsNumber(m, 10)
  <2>1. (r.sign \o r.number) \o r.unit = text /\ IsNumber(r.number, 10)
    BY DEF SizesOf
  <2> QED BY <1>3, <2>1
<1> DEFINE T == STRING \cup {"+", "-"} \cup DOMAIN Multiplier
           a == Len(s)
           b == Len(u)
<1>5. text \in Seq(T) /\ L \in Nat
  BY DEF Texts
<1>6. s \in Seq(T) /\ a \in {0, 1} /\ (a = 0 => s = <<>>) /\ (a = 1 => s = <<s[1]>> /\ s[1] \in {"+", "-"})
  <2>1. s \in {<<"+">>, <<"-">>, <<>>}
    BY <1>2 DEF Signs
  <2> HIDE DEF s
  <2>2. CASE s = <<>>
    BY <2>2
  <2>3. ASSUME NEW c \in {"+", "-"}, s = <<c>>
        PROVE  s \in Seq(T) /\ a = 1 /\ s = <<s[1]>> /\ s[1] \in {"+", "-"}
    <3>1. c \in T
      OBVIOUS
    <3> HIDE DEF T
    <3> QED BY <2>3, <3>1
  <2> QED BY <2>1, <2>2, <2>3
<1>7. u \in Seq(T) /\ b \in {0, 1} /\ (b = 0 => u = <<>>) /\ (b = 1 => u = <<u[1]>> /\ u[1] \in DOMAIN Multiplier)
  <2>1. CASE u = <<>>
    BY <2>1
  <2>2. CASE u # <<>>
    <3>1. PICK x \in DOMAIN Multiplier : u = <<x>>
      BY <1>2, <2>2 DEF Units
    <3> QED BY <3>1
  <2> QED BY <2>1, <2>2
<1> HIDE DEF s, u, T
<1>8. a + 1 <= L - b
  <2> SUFFICES ASSUME ~(a + 1 <= L - b) PROVE FALSE
    OBVIOUS
  <2>1. \A i \in (a + 1)..(L - b) : text[i] \in T
    BY <1>5, <1>6, <1>7
  <2>2. a + 1 \in Int /\ L - b \in Int
    BY <1>5, <1>6, <1>7
  <2>3. m \in Seq(T) /\ Len(m) = 0
    BY <1>5, <2>1, <2>2, SubSeqProperties
  <2>4. m = <<>>
    BY <2>3, EmptySeq
  <2> QED BY <1>4, <2>4 DEF IsNumber
<1>9. m \in Seq(T) /\ Len(m) = L - b - a /\ \A i \in 1..(L - b - a) : m[i] = text[a + i]
  <2>1. a \in Nat /\ L - b \in Nat /\ a <= L - b /\ L - b <= Len(text)
    BY <1>5, <1>6, <1>7, <1>8
  <2> QED BY <1>5, <2>1, SliceIs, SMTT(30)
<1>10. text[a + 1] \in Digits /\ text[L - b] \in Digits
  <2>1. \A i \in 1..Len(m) : m[i] \in Digits
    <3> HIDE DEF m
    <3>1. \A i \in DOMAIN m : m[i] \in Digits
      BY <1>4 DEF IsNumber
    <3>2. DOMAIN m = 1..Len(m)
      BY <1>9
    <3> QED BY <3>1, <3>2
  <2>2. 1 \in 1..(L - b - a) /\ L - b - a \in 1..(L - b - a) /\ a + (L - b - a) = L - b
    BY <1>5, <1>6, <1>7, <1>8, SMTT(30)
  <2>3. m[1] \in Digits /\ m[L - b - a] \in Digits
    BY <1>9, <2>1, <2>2, Zenon
  <2> QED BY <1>9, <2>2, <2>3
<1>11. (a = 1 => text[1] = s[1]) /\ (b = 1 => text[L] = u[1])
  <2> HIDE DEF m, L
  <2>1. s \in Seq(T) /\ m \in Seq(T) /\ u \in Seq(T)
    BY <1>6, <1>7, <1>9
  <2>2. L \in Nat /\ a \in {0, 1} /\ b \in {0, 1} /\ a + 1 <= L - b /\ Len(m) = L - b - a
    BY <1>5, <1>6, <1>7, <1>8, <1>9
  <2> HIDE DEF a, b
  <2> DEFINE t == s \o m
  <2>3. /\ t \in Seq(T) /\ Len(t) = Len(s) + Len(m)
        /\ \A i \in 1..(Len(s) + Len(m)) : t[i] = IF i <= Len(s) THEN s[i] ELSE m[i - Len(s)]
    BY <2>1, ConcatProperties
  <2>4. t \in Seq(T)
    BY <2>3
  <2> HIDE DEF t
  <2>5. /\ t \o u \in Seq(T) /\ Len(t \o u) = Len(t) + Len(u)
        /\ \A i \in 1..(Len(t) + Len(u)) : (t \o u)[i] = IF i <= Len(t) THEN t[i] ELSE u[i - Len(t)]
    BY <2>1, <2>4, ConcatProperties
  <2>6. t \o u = text
    BY <1>4 DEF t
  <2>7. Len(t) = L - b
    BY <2>2, <2>3 DEF a
  <2>8. ASSUME a = 1 PROVE text[1] = s[1]
    <3>1. 1 \in 1..(Len(t) + Len(u)) /\ 1 <= Len(t) /\ 1 \in 1..(Len(s) + Len(m)) /\ 1 <= Len(s)
      BY <2>2, <2>7, <2>8 DEF a, b
    <3> QED BY <2>3, <2>5, <2>6, <3>1
  <2>9. ASSUME b = 1 PROVE text[L] = u[1]
    <3>1. L \in 1..(Len(t) + Len(u)) /\ ~(L <= Len(t)) /\ L - Len(t) = 1
      BY <2>2, <2>7, <2>9 DEF b
    <3> QED BY <2>5, <2>6, <3>1
  <2> QED BY <2>8, <2>9
<1>12. text # <<>> /\ Head(text) = text[1]
  <2>1. L # 0
    BY <1>5, <1>6, <1>7, <1>8
  <2>2. text # <<>>
    BY <2>1
  <2> QED BY <1>5, <2>2, AfterSignFacts
<1>13. SignPart(text) = s
  <2>1. CASE a = 1
    <3>1. Head(text) \in {"+", "-"} /\ <<Head(text)>> = s
      BY <1>6, <1>11, <1>12, <2>1
    <3> QED BY <3>1 DEF SignPart
  <2>2. CASE a = 0
    <3>1. Head(text) \in Digits
      BY <1>10, <1>12, <2>2
    <3>2. Head(text) \notin {"+", "-"}
      BY <3>1, SignsAreNoDigits
    <3> QED BY <1>6, <2>2, <3>2 DEF SignPart
  <2> QED BY <1>6, <2>1, <2>2
<1>14. AfterSign(text) # <<>> /\ Last(AfterSign(text)) = text[L]
  <2>1. /\ Len(AfterSign(text)) = L - a /\ AfterSign(text) \in Seq(T)
        /\ AfterSign(text) # <<>> => Last(AfterSign(text)) = text[L]
    BY <1>5, <1>12, <1>13, AfterSignFacts
  <2>2. L - a # 0
    BY <1>5, <1>6, <1>7, <1>8
  <2>3. AfterSign(text) # <<>>
    BY <2>1, <2>2
  <2> QED BY <2>1, <2>3
<1>15. UnitPart(text) = u
  <2>1. CASE b = 1
    <3>1. HasUnit(AfterSign(text))
      BY <1>7, <1>11, <1>14, <2>1 DEF HasUnit
    <3> QED BY <1>7, <1>11, <1>14, <2>1, <3>1 DEF UnitPart
  <2>2. CASE b = 0
    <3>1. text[L] \in Digits
      BY <1>5, <1>10, <2>2
    <3>2. text[L] \notin DOMAIN Multiplier
      BY <3>1, CliParsersAssumption
    <3>3. ~HasUnit(AfterSign(text))
      BY <1>14, <3>2 DEF HasUnit
    <3> QED BY <1>7, <2>2, <3>3 DEF UnitPart
  <2> QED BY <1>7, <2>1, <2>2
<1>16. NumberPart(text) = m
  BY <1>5, <1>12, <1>13, <1>14, <1>15, NumberPartFacts
<1>17. r = Reading(text)
  <2> HIDE DEF m
  <2> QED BY <1>3, <1>13, <1>15, <1>16 DEF Reading
<1> QED BY <1>4, <1>12, <1>14, <1>16, <1>17

(* The comparison is the one the sign stands for. *)
LEMMA ComparisonOfSign ==
  ASSUME NEW text
  PROVE  Comparison(text) = OpOfSign(SignPart(text)) /\ Comparison(text) \in Comparisons
<1>1. CASE Head(text) = "+"
  <2>1. SignPart(text) = <<"+">>
    BY <1>1 DEF SignPart
  <2> QED BY <1>1, <2>1 DEF Comparison, OpOfSign, Comparisons
<1>2. CASE Head(text) = "-"
  <2>1. SignPart(text) = <<"-">>
    BY <1>2 DEF SignPart
  <2> QED BY <1>2, <2>1 DEF Comparison, OpOfSign, Comparisons
<1>3. CASE Head(text) \notin {"+", "-"}
  <2>1. SignPart(text) = <<>>
    BY <1>3 DEF SignPart
  <2> QED BY <1>3, <2>1 DEF Comparison, OpOfSign, Comparisons
<1> QED BY <1>1, <1>2, <1>3

(* The number in a size and the value parse_unsigned gives it. *)
LEMMA NumberOfText ==
  ASSUME NEW text \in Texts, text # <<>>, AfterSign(text) # <<>>
  PROVE  /\ IsNumber(NumberPart(text), 10) =>
              Reading(text) \in SizesOf(text) /\ Value(NumberPart(text), 10) \in Nat
         /\ ~IsNumber(NumberPart(text), 10) => SizesOf(text) = {}
         /\ parse_unsigned(NumberPart(text)) =
              IF IsNumber(NumberPart(text), 10) /\ Value(NumberPart(text), 10) <= UINT64_MAX
              THEN Value(NumberPart(text), 10) ELSE Invalid
<1>1. text \in Seq(STRING)
  BY DEF Texts
<1>2. NumberPart(text) \in Seq(STRING)
  BY <1>1, NumberPartFacts
<1>3. IsNumber(NumberPart(text), 10) => NumberPart(text) \in Seq(Digits)
  BY <1>2, NumbersAreDigits
<1> QED BY <1>1, <1>2, <1>3, ValueType, ReadingIsSize, SizeIsReading, ParseUnsignedIsExact

(* parse_size_filter takes exactly the texts that are a sign, a number and *)
(* a unit whose bytes fit, and answers those bytes: neither the unit, the  *)
(* digits nor the product is misread (bc_seek_cli_parsers.c:52-124), for   *)
(* every text, every table of units and every UINT64_MAX.                  *)
THEOREM ParseSizeIsExact ==
  ASSUME NEW text \in Texts
  PROVE  /\ FittingSizes(text) = {} => parse_size_filter(text) = Invalid
         /\ \A r \in FittingSizes(text) :
              parse_size_filter(text) = [op |-> OpOfSign(r.sign), threshold |-> Bytes(r)]
         /\ parse_size_filter(text) \in [op : Comparisons, threshold : Nat] \cup {Invalid}
<1>1. CASE text = <<>> \/ AfterSign(text) = <<>>
  <2>1. SizesOf(text) = {}
    BY <1>1, SizeIsReading, Zenon
  <2>2. parse_size_filter(text) = Invalid
    BY <1>1, Zenon DEF parse_size_filter
  <2> QED BY <2>1, <2>2 DEF FittingSizes
<1>2. CASE text # <<>> /\ AfterSign(text) # <<>>
  <2> DEFINE number == NumberPart(text)
             unit == IF HasUnit(AfterSign(text)) THEN Last(AfterSign(text)) ELSE "b"
             m == Multiplier[unit]
             threshold == threshold_bytes(parse_unsigned(number), m)
  <2>1. parse_size_filter(text) =
          IF threshold = Invalid THEN Invalid ELSE [op |-> Comparison(text), threshold |-> threshold]
    BY <1>2, Zenon DEF parse_size_filter, NumberPart, HasUnit
  <2>2. m \in Nat \ {0}
    BY CliParsersAssumption DEF HasUnit
  <2>3. Bytes(Reading(text)) = Value(number, 10) * m
    BY DEF Bytes, Reading, UnitPart
  <2>4. Reading(text).sign = SignPart(text)
    BY DEF Reading
  <2> HIDE DEF number, m, threshold
  <2>5. CASE ~IsNumber(number, 10)
    <3>1. SizesOf(text) = {} /\ parse_unsigned(number) = Invalid
      BY <1>2, <2>5, NumberOfText DEF number
    <3>2. threshold = Invalid
      BY <3>1 DEF threshold, threshold_bytes
    <3> QED BY <2>1, <3>1, <3>2 DEF FittingSizes
  <2>6. CASE IsNumber(number, 10)
    <3> DEFINE v == Value(number, 10)
    <3>1. v \in Nat /\ Reading(text) \in SizesOf(text)
      BY <1>2, <2>6, NumberOfText DEF number
    <3>2. \A r \in SizesOf(text) : r = Reading(text)
      BY SizeIsReading
    <3>3. UINT64_MAX \in Nat /\ Invalid \notin Int
      BY CliParsersAssumption
    <3>4. parse_unsigned(number) = IF v <= UINT64_MAX THEN v ELSE Invalid
      BY <1>2, <2>6, NumberOfText DEF number
    <3> HIDE DEF v
    <3>5. v * m \in Nat /\ v <= v * m
      BY <2>2, <3>1, Z3
    <3>6. threshold = IF v * m <= UINT64_MAX THEN v * m ELSE Invalid
      <4>1. CASE v <= UINT64_MAX
        <5>1. v \in 0..UINT64_MAX
          BY <3>1, <3>3, <4>1
        <5> QED BY <2>2, <3>4, <4>1, <5>1, ThresholdIsExact, Zenon DEF threshold
      <4>2. CASE ~(v <= UINT64_MAX)
        <5>1. ~(v * m <= UINT64_MAX)
          <6> DEFINE b == v * m
          <6> HIDE DEF b
          <6>1. b \in Nat /\ v <= b
            BY <3>5 DEF b
          <6>2. ~(b <= UINT64_MAX)
            BY <3>1, <3>3, <4>2, <6>1
          <6> QED BY <6>2 DEF b
        <5> QED BY <3>4, <4>2, <5>1, Zenon DEF threshold, threshold_bytes
      <4> QED BY <4>1, <4>2
    <3>7. Bytes(Reading(text)) = v * m
      BY <2>3 DEF v
    <3> DEFINE b == v * m
    <3> HIDE DEF b
    <3>8. b \in Nat /\ Bytes(Reading(text)) = b /\ threshold = IF b <= UINT64_MAX THEN b ELSE Invalid
      BY <3>5, <3>6, <3>7 DEF b
    <3>9. Comparison(text) = OpOfSign(Reading(text).sign) /\ Comparison(text) \in Comparisons
      BY <2>4, ComparisonOfSign
    <3>10. CASE b <= UINT64_MAX
      <4>1. parse_size_filter(text) = [op |-> Comparison(text), threshold |-> b]
        BY <2>1, <3>3, <3>8, <3>10
      <4>2. Reading(text) \in FittingSizes(text) /\ \A r \in FittingSizes(text) : r = Reading(text)
        BY <3>1, <3>2, <3>8, <3>10 DEF FittingSizes
      <4> QED BY <3>8, <3>9, <4>1, <4>2
    <3>11. CASE ~(b <= UINT64_MAX)
      <4>1. parse_size_filter(text) = Invalid
        BY <2>1, <3>8, <3>11
      <4>2. FittingSizes(text) = {}
        BY <3>2, <3>8, <3>11 DEF FittingSizes
      <4> QED BY <4>1, <4>2
    <3> QED BY <3>10, <3>11
  <2> QED BY <2>5, <2>6
<1> QED BY <1>1, <1>2

(* A text with a unit is no age. *)
LEMMA AgesHaveNoUnit ==
  ASSUME NEW text \in Texts, text # <<>>, AfterSign(text) # <<>>, HasUnit(AfterSign(text))
  PROVE  FittingAges(text) = {} /\ parse_unsigned(AfterSign(text)) = Invalid
<1> DEFINE c == AfterSign(text)
<1>1. text \in Seq(STRING)
  BY DEF Texts
<1>2. c \in Seq(STRING)
  BY <1>1, AfterSignFacts
<1>3. UnitPart(text) # <<>>
  BY DEF UnitPart
<1>4. \A r \in SizesOf(text) : r.unit = UnitPart(text)
  BY SizeIsReading DEF Reading
<1>5. FittingAges(text) = {}
  BY <1>3, <1>4 DEF FittingAges
<1>6. c[Len(c)] \notin Digits /\ Len(c) \in DOMAIN c
  <2>1. c[Len(c)] \in DOMAIN Multiplier
    BY DEF HasUnit, Last
  <2>2. Len(c) \in 1..Len(c)
    BY <1>2, EmptySeq
  <2> QED BY <1>2, <2>1, <2>2, CliParsersAssumption
<1>7. ~IsNumber(c, 10)
  BY <1>6 DEF IsNumber
<1> QED BY <1>2, <1>5, <1>7, ParseUnsignedIsExact

(* --mtime is taken exactly if it is a sign and a number of days whose     *)
(* seconds fit, and the filter gets those seconds, through the parser and  *)
(* the range check together (bc_seek_cli_parsers.c:126-154,                *)
(* bc_seek_cli_spec.c:341-345), for every text and every word size.        *)
THEOREM ParseAgeIsExact ==
  ASSUME NEW text \in Texts
  PROVE  /\ parse_mtime_filter(text) \in [op : Comparisons, days : Nat] \cup {Invalid}
         /\ FittingAges(text) = {} =>
              \/ parse_mtime_filter(text) = Invalid
              \/ days_out_of_range(parse_mtime_filter(text))
         /\ \A r \in FittingAges(text) :
              /\ has(parse_mtime_filter(text))
              /\ ~days_out_of_range(parse_mtime_filter(text))
              /\ parse_mtime_filter(text).op = OpOfSign(r.sign)
              /\ mtime_threshold(parse_mtime_filter(text)) = Value(r.number, 10) * DaySeconds
<1> DEFINE mtime == parse_mtime_filter(text)
<1>1. CASE text = <<>> \/ AfterSign(text) = <<>>
  <2>1. SizesOf(text) = {}
    BY <1>1, SizeIsReading, Zenon
  <2>2. mtime = Invalid
    BY <1>1, Zenon DEF parse_mtime_filter
  <2> QED BY <2>1, <2>2 DEF FittingAges
<1>2. CASE text # <<>> /\ AfterSign(text) # <<>>
  <2> DEFINE n == parse_unsigned(AfterSign(text))
  <2>1. mtime = IF n = Invalid \/ n > INT64_MAX THEN Invalid ELSE [op |-> Comparison(text), days |-> n]
    BY <1>2, Zenon DEF parse_mtime_filter
  <2> HIDE DEF n, mtime
  <2>2. CASE HasUnit(AfterSign(text))
    BY <1>2, <2>1, <2>2, AgesHaveNoUnit, Zenon DEF n, mtime
  <2>3. CASE ~HasUnit(AfterSign(text))
    <3> DEFINE number == NumberPart(text)
               v == Value(number, 10)
    <3>1. AfterSign(text) = number /\ Reading(text).unit = <<>> /\ Reading(text).number = number
          /\ Reading(text).sign = SignPart(text)
      BY <2>3 DEF NumberPart, Reading, UnitPart
    <3> HIDE DEF number, v
    <3>2. CASE ~IsNumber(number, 10)
      <4>1. SizesOf(text) = {} /\ n = Invalid
        BY <1>2, <3>1, <3>2, NumberOfText DEF number, n
      <4>2. mtime = Invalid
        BY <2>1, <4>1
      <4> QED BY <4>1, <4>2 DEF FittingAges, mtime
    <3>3. CASE IsNumber(number, 10)
      <4>1. v \in Nat /\ Reading(text) \in SizesOf(text)
        BY <1>2, <3>3, NumberOfText DEF number, v
      <4>2. \A r \in SizesOf(text) : r = Reading(text)
        BY SizeIsReading
      <4>3. n = IF v <= UINT64_MAX THEN v ELSE Invalid
        BY <1>2, <3>1, <3>3, NumberOfText DEF number, v, n
      <4>4. /\ UINT64_MAX \in Nat /\ INT64_MAX \in Nat /\ INT64_MAX <= UINT64_MAX
            /\ Invalid \notin Int /\ DaySeconds \in Nat \ {0}
        BY CliParsersAssumption, CliOptionsAssumption
      <4> DEFINE s == v * DaySeconds
      <4>5. s \in Nat /\ v <= s
        BY <4>1, <4>4, Z3
      <4>6. Value(Reading(text).number, 10) * DaySeconds = s
        BY <3>1 DEF v
      <4> HIDE DEF s
      <4>7. Reading(text) \in FittingAges(text) <=> s <= INT64_MAX
        BY <3>1, <4>1, <4>6 DEF FittingAges
      <4>8. \A r \in FittingAges(text) : r = Reading(text)
        BY <4>2 DEF FittingAges
      <4>9. Comparison(text) = OpOfSign(Reading(text).sign) /\ Comparison(text) \in Comparisons
        BY <3>1, ComparisonOfSign
      <4>10. CASE v > INT64_MAX
        <5>1. mtime = Invalid
          BY <2>1, <4>1, <4>3, <4>4, <4>10
        <5>2. ~(s <= INT64_MAX)
          BY <4>1, <4>4, <4>5, <4>10
        <5>3. FittingAges(text) = {}
          BY <4>7, <4>8, <5>2
        <5> QED BY <5>1, <5>3 DEF mtime
      <4>11. CASE ~(v > INT64_MAX)
        <5>1. n = v /\ n # Invalid /\ ~(n > INT64_MAX)
          BY <4>1, <4>3, <4>4, <4>11
        <5>2. mtime = [op |-> Comparison(text), days |-> v]
          BY <2>1, <5>1
        <5>3. mtime \in [op : Comparisons, days : Nat] /\ mtime.op = Comparison(text) /\ mtime.days = v
          BY <4>1, <4>9, <5>2
        <5>4. has(mtime)
          BY <5>3, CliOptionsAssumption DEF has
        <5>5. /\ days_out_of_range(mtime) <=> s > INT64_MAX
              /\ ~days_out_of_range(mtime) => mtime_threshold(mtime) = s
          BY <4>1, <5>3, <5>4, AgeIsExact DEF s
        <5>6. s > INT64_MAX <=> ~(s <= INT64_MAX)
          BY <4>4, <4>5
        <5>7. FittingAges(text) = {} => days_out_of_range(mtime)
          BY <4>7, <5>5, <5>6
        <5>8. ASSUME NEW r \in FittingAges(text)
              PROVE  /\ ~days_out_of_range(mtime) /\ mtime.op = OpOfSign(r.sign)
                     /\ mtime_threshold(mtime) = Value(r.number, 10) * DaySeconds
          <6>1. r = Reading(text)
            BY <4>8
          <6>2. ~days_out_of_range(mtime)
            BY <4>7, <5>5, <5>6, <6>1
          <6> QED BY <4>6, <4>9, <5>3, <5>5, <6>1, <6>2
        <5> QED BY <5>3, <5>4, <5>7, <5>8 DEF mtime
      <4> QED BY <4>10, <4>11
    <3> QED BY <3>2, <3>3
  <2> QED BY <2>2, <2>3
<1> QED BY <1>1, <1>2

(* The library's parser reads a whole text exactly if it is a number that  *)
(* fits.                                                                   *)
LEMMA CoreParse ==
  ASSUME NEW T, NEW text \in Seq(T)
  PROVE  LET number == core_parse_unsigned(text)
         IN /\ number.ok /\ number.consumed = Len(text) <=>
                 IsNumber(text, 10) /\ Value(text, 10) <= UINT64_MAX
            /\ number.ok /\ number.consumed = Len(text) => number.value = Value(text, 10)
<1> DEFINE number == core_parse_unsigned(text)
           stray == {i \in 1..Len(text) : text[i] \notin Digits}
           leading == IF stray = {} THEN 0 ELSE Min(stray)
           consumed == IF leading = 0 THEN Len(text) ELSE leading - 1
<1>1. SelectInSeq(text, LAMBDA c : c \notin Digits) = leading
  BY DEF SelectInSeq
<1>2. /\ number.ok <=> parse_unsigned(SubSeq(text, 1, consumed)) # Invalid
      /\ number.value = parse_unsigned(SubSeq(text, 1, consumed))
      /\ number.consumed = consumed
  BY <1>1 DEF core_parse_unsigned
<1> HIDE DEF number
<1>3. CASE stray = {}
  <2>1. consumed = Len(text) /\ SubSeq(text, 1, consumed) = text
    BY <1>3, SubSeqFull
  <2>2. IsNumber(text, 10) => Value(text, 10) \in Nat
    BY NumbersAreDigits, ValueType
  <2>3. Invalid \notin Int
    BY CliParsersAssumption
  <2>4. parse_unsigned(text) = IF IsNumber(text, 10) /\ Value(text, 10) <= UINT64_MAX
                               THEN Value(text, 10) ELSE Invalid
    BY ParseUnsignedIsExact
  <2> HIDE DEF consumed, stray
  <2>5. parse_unsigned(text) # Invalid <=> IsNumber(text, 10) /\ Value(text, 10) <= UINT64_MAX
    BY <2>2, <2>3, <2>4
  <2>6. parse_unsigned(text) # Invalid => parse_unsigned(text) = Value(text, 10)
    BY <2>4, <2>5
  <2> QED BY <1>2, <2>1, <2>5, <2>6 DEF number
<1>4. CASE stray # {}
  <2>1. stray \subseteq Nat
    OBVIOUS
  <2>2. Min(stray) \in stray
    BY <1>4, <2>1, LeastElement
  <2>3. leading \in 1..Len(text) /\ text[leading] \notin Digits
    BY <1>4, <2>2
  <2> HIDE DEF leading
  <2>4. consumed # Len(text)
    BY <2>3
  <2>5. ~IsNumber(text, 10)
    BY <2>3 DEF IsNumber
  <2> HIDE DEF consumed
  <2> QED BY <1>2, <2>4, <2>5 DEF number
<1> QED BY <1>3, <1>4

(* The words are not numbers. *)
LEMMA WordsAreNoNumbers ==
  ASSUME NEW text \in {<<"mono">>, <<"auto">>, <<"io">>}
  PROVE  ~IsNumber(text, 10)
<1>1. {"mono", "auto", "io"} \cap Digits = {}
  BY DEF Digits, Range, Numerals
<1>2. \A c \in {"mono", "auto", "io"} : ~IsNumber(<<c>>, 10)
  <2> SUFFICES ASSUME NEW c \in {"mono", "auto", "io"}, IsNumber(<<c>>, 10) PROVE FALSE
    OBVIOUS
  <2>1. 1 \in DOMAIN <<c>> /\ <<c>>[1] = c
    OBVIOUS
  <2>2. c \in Digits
    BY <2>1 DEF IsNumber
  <2> QED BY <1>1, <2>2
<1> QED BY <1>2

(* --threads takes the three words and exactly the numbers that fit; a     *)
(* number n stands for n threads, zero for the sequential walk, a word for *)
(* no number (bc_seek_cli_parsers.c:180-220), for every text.              *)
THEOREM ParseThreadsIsExact ==
  ASSUME NEW T, NEW text \in Seq(T)
  PROVE  /\ ~IsThreadCount(text) => parse_threads(text) = Invalid
         /\ IsThreadCount(text) => parse_threads(text) \in [mode : ThreadModes, workers : Nat]
         /\ IsThreadCount(text) /\ IsNumber(text, 10) =>
              parse_threads(text) =
                [mode |-> IF Value(text, 10) = 0 THEN "mono" ELSE "explicit",
                 workers |-> Value(text, 10)]
         /\ IsThreadCount(text) /\ ~IsNumber(text, 10) => parse_threads(text).mode # "explicit"
<1> DEFINE number == core_parse_unsigned(text)
           fits == IsNumber(text, 10) /\ Value(text, 10) <= UINT64_MAX
           v == Value(text, 10)
<1>1. CASE text \in {<<"mono">>, <<"auto">>, <<"io">>}
  <2>1. ~IsNumber(text, 10) /\ IsThreadCount(text)
    BY <1>1, WordsAreNoNumbers DEF IsThreadCount
  <2>2. \E w \in {"mono", "auto", "io"} : parse_threads(text) = [mode |-> w, workers |-> 0]
    <3>1. <<"mono">> # <<"auto">> /\ <<"mono">> # <<"io">> /\ <<"auto">> # <<"io">>
      OBVIOUS
    <3>2. CASE text = <<"mono">>
      <4>1. parse_threads(text) = [mode |-> "mono", workers |-> 0]
        BY <3>1, <3>2, Zenon DEF parse_threads
      <4> QED BY <4>1, Zenon
    <3>3. CASE text = <<"auto">>
      <4>1. parse_threads(text) = [mode |-> "auto", workers |-> 0]
        BY <3>1, <3>3, Zenon DEF parse_threads
      <4> QED BY <4>1, Zenon
    <3>4. CASE text = <<"io">>
      <4>1. parse_threads(text) = [mode |-> "io", workers |-> 0]
        BY <3>1, <3>4, Zenon DEF parse_threads
      <4> QED BY <4>1, Zenon
    <3> QED BY <1>1, <3>2, <3>3, <3>4, Zenon
  <2>3. parse_threads(text) \in [mode : ThreadModes, workers : Nat] /\ parse_threads(text).mode # "explicit"
    BY <2>2 DEF ThreadModes
  <2> QED BY <2>1, <2>3
<1>2. CASE text \notin {<<"mono">>, <<"auto">>, <<"io">>}
  <2>1. parse_threads(text) =
          IF ~number.ok \/ number.consumed # Len(text) THEN Invalid
          ELSE IF number.value = 0 THEN [mode |-> "mono", workers |-> 0]
          ELSE [mode |-> "explicit", workers |-> number.value]
    BY <1>2, Zenon DEF parse_threads
  <2>2. /\ number.ok /\ number.consumed = Len(text) <=> fits
        /\ number.ok /\ number.consumed = Len(text) => number.value = v
    BY CoreParse, Zenon
  <2>3. IsNumber(text, 10) => v \in Nat
    BY NumbersAreDigits, ValueType
  <2>4. IsThreadCount(text) <=> fits
    BY <1>2 DEF IsThreadCount
  <2>5. fits => IsNumber(text, 10)
    OBVIOUS
  <2> HIDE DEF number, fits, v
  <2>6. CASE fits
    <3>1. parse_threads(text) = IF v = 0 THEN [mode |-> "mono", workers |-> 0]
                                ELSE [mode |-> "explicit", workers |-> v]
      BY <2>1, <2>2, <2>6, Zenon
    <3>2. parse_threads(text) = [mode |-> IF v = 0 THEN "mono" ELSE "explicit", workers |-> v]
      BY <3>1
    <3>3. parse_threads(text) \in [mode : ThreadModes, workers : Nat]
      BY <2>3, <2>5, <2>6, <3>2 DEF ThreadModes
    <3> QED BY <2>4, <2>5, <2>6, <3>2, <3>3 DEF v
  <2>7. CASE ~fits
    <3>1. parse_threads(text) = Invalid
      BY <2>1, <2>2, <2>7, Zenon
    <3> QED BY <2>4, <2>7, <3>1
  <2> QED BY <2>6, <2>7
<1> QED BY <1>1, <1>2

-----------------------------------------------------------------------------
(* The option table and the store. *)

(* The options that are texts and have no default. *)
OptionalTexts == {"name", "iname", "path", "type", "size", "mtime", "newer", "perm"}

(* The option table, entry by entry. *)
LEMMA OptionTable ==
  /\ OptionalTexts \cup {"threads", "output", "max_depth", "min_depth"} \subseteq DOMAIN program_spec
  /\ \A o \in OptionalTexts :
       program_spec[o].default_value = None /\ program_spec[o].type \in {"string", "enum"}
  /\ \A o \in DOMAIN program_spec : program_spec[o].type = "enum" <=> o = "type"
  /\ \A o \in DOMAIN program_spec : program_spec[o].type = "integer" <=> o \in {"max_depth", "min_depth"}
  /\ program_spec["max_depth"].default_value = None
  /\ program_spec["min_depth"].default_value = 0
  /\ program_spec["threads"].default_value = <<"auto">> /\ program_spec["threads"].type = "string"
  /\ program_spec["output"].default_value = <<"-">> /\ program_spec["output"].type = "string"
BY DEF program_spec, Merged, find_options, global_options, Option, OptionalTexts

(* The store has what was given, and the default of what was not. *)
LEMMA StoreHas ==
  ASSUME NEW l, NEW o \in DOMAIN program_spec
  PROVE  cli_store(l)[o] = IF o \in DOMAIN l.given THEN l.given[o] ELSE program_spec[o].default_value
BY DEF cli_store

(* What the library's parser can hand over. *)
LEMMA GivenValues ==
  ASSUME NEW l, IsCommandLine(l)
  PROVE  /\ \A o \in OptionalTexts \cup {"threads", "output"} :
              o \in DOMAIN l.given => l.given[o] \in Texts
         /\ \A o \in {"max_depth", "min_depth"} :
              o \in DOMAIN l.given => l.given[o] \in Int \cup {Invalid}
<1>1. \A o \in OptionalTexts \cup {"threads", "output"} : ValuesOf(o) = Texts
  BY OptionTable DEF ValuesOf
<1>2. \A o \in {"max_depth", "min_depth"} : ValuesOf(o) = Int \cup {Invalid}
  BY OptionTable DEF ValuesOf
<1>3. \A o \in DOMAIN l.given : l.given[o] \in ValuesOf(o)
  BY DEF IsCommandLine
<1> QED BY <1>1, <1>2, <1>3

(* An empty text is one that was not given. *)
LEMMA LookupIsGiven ==
  ASSUME NEW l, IsCommandLine(l), NEW o \in OptionalTexts
  PROVE  /\ lookup_string(cli_store(l), o) = IF Given(l, o) THEN l.given[o] ELSE None
         /\ Given(l, o) => l.given[o] \in Texts /\ has(l.given[o])
         /\ ~has(None)
<1>1. cli_store(l)[o] = IF o \in DOMAIN l.given THEN l.given[o] ELSE None
  BY OptionTable, StoreHas
<1>2. o \in DOMAIN l.given => l.given[o] \in Texts
  BY GivenValues
<1>3. \A x \in Texts : has(x)
  BY CliOptionsAssumption DEF has
<1>4. ~has(None)
  BY DEF has
<1> QED BY <1>1, <1>2, <1>3, <1>4 DEF lookup_string, Given

(* There is no complaint exactly if no check fails. *)
LEMMA NoComplaint ==
  ASSUME NEW store
  PROVE  bind_complaint(store) = None <=> \A i \in 1..14 : ~BindChecks(store)[i]
<1> DEFINE checks == BindChecks(store)
           failing == {i \in DOMAIN checks : checks[i]}
<1>1. DOMAIN checks = 1..14
  BY DEF BindChecks
<1>2. bind_complaint(store) = IF failing = {} THEN None ELSE Complaints[Min(failing)]
  BY DEF bind_complaint
<1>3. failing # {} => Complaints[Min(failing)] # None
  <2> HIDE DEF checks
  <2> SUFFICES ASSUME failing # {} PROVE Complaints[Min(failing)] # None
    OBVIOUS
  <2>1. Min(failing) \in failing
    BY <1>1, LeastElement
  <2>2. DOMAIN Complaints = 1..14
    BY DEF Complaints
  <2>3. Min(failing) \in DOMAIN Complaints
    BY <1>1, <2>1, <2>2
  <2> QED BY <2>3, CliOptionsAssumption DEF Range
<1> HIDE DEF checks
<1>4. failing = {} <=> \A i \in 1..14 : ~checks[i]
  BY <1>1
<1> QED BY <1>2, <1>3, <1>4 DEF checks

(* What Legal asks, with its local definitions expanded. *)
LEMMA LegalIs ==
  ASSUME NEW l
  PROVE  Legal(l) <=>
    /\ "threads" \in DOMAIN l.given => IsThreadCount(l.given["threads"])
    /\ ~(Given(l, "name") /\ Given(l, "iname"))
    /\ "type" \in DOMAIN l.given => l.given["type"] \in type_allowed_values
    /\ Given(l, "size") => FittingSizes(l.given["size"]) # {}
    /\ Given(l, "mtime") => FittingAges(l.given["mtime"]) # {}
    /\ Given(l, "newer") => l.given["newer"] \in DOMAIN ReferenceMtime
    /\ Given(l, "perm") => IsMode(l.given["perm"])
    /\ "max_depth" \in DOMAIN l.given => l.given["max_depth"] # Invalid /\ l.given["max_depth"] >= 0
    /\ "min_depth" \in DOMAIN l.given => l.given["min_depth"] # Invalid /\ l.given["min_depth"] >= 0
    /\ "max_depth" \in DOMAIN l.given =>
         (IF "min_depth" \in DOMAIN l.given THEN l.given["min_depth"] ELSE 0)
           <= (IF "max_depth" \in DOMAIN l.given THEN l.given["max_depth"] ELSE 0)
    /\ "output" \in DOMAIN l.given => l.given["output"] # <<>>
BY DEF Legal

(* The bytes of a size are a number. *)
LEMMA BytesType ==
  ASSUME NEW text \in Texts, NEW r \in SizesOf(text)
  PROVE  Bytes(r) \in Nat /\ Value(r.number, 10) \in Nat
<1>1. text # <<>> /\ AfterSign(text) # <<>> /\ r = Reading(text) /\ IsNumber(NumberPart(text), 10)
  BY SizeIsReading
<1>2. r.number = NumberPart(text) /\ r.unit = UnitPart(text)
  BY <1>1 DEF Reading
<1>3. Value(r.number, 10) \in Nat
  BY <1>1, <1>2, NumberOfText
<1>4. Multiplier[IF r.unit = <<>> THEN "b" ELSE r.unit[1]] \in Nat
  BY <1>2, CliParsersAssumption DEF UnitPart, HasUnit
<1>5. Bytes(r) = Value(r.number, 10) * Multiplier[IF r.unit = <<>> THEN "b" ELSE r.unit[1]]
  BY DEF Bytes
<1> QED BY <1>3, <1>4, <1>5

(* The fourteen checks, one by one. *)
LEMMA TheChecks ==
  ASSUME NEW store
  PROVE  (\A i \in 1..14 : ~BindChecks(store)[i]) <=>
    /\ store["threads"] # None
    /\ bind_global_threads(store) # Invalid
    /\ ~(has(lookup_string(store, "name")) /\ has(lookup_string(store, "iname")))
    /\ type_value(store) # Invalid
    /\ size_value(store) # Invalid
    /\ mtime_value(store) # Invalid
    /\ ~days_out_of_range(mtime_value(store))
    /\ newer_value(store) # Invalid
    /\ perm_value(store) # Invalid
    /\ ~(store["max_depth"] # None /\ store["max_depth"] < 0)
    /\ ~(store["min_depth"] # None /\ store["min_depth"] < 0)
    /\ ~depths_cross(store)
    /\ store["output"] # None
    /\ Parsed(store["output"], bind_output) # Invalid
<1> DEFINE checks == BindChecks(store)
<1>1. /\ checks[1] <=> store["threads"] = None
      /\ checks[2] <=> bind_global_threads(store) = Invalid
      /\ checks[3] <=> has(lookup_string(store, "name")) /\ has(lookup_string(store, "iname"))
      /\ checks[4] <=> type_value(store) = Invalid
      /\ checks[5] <=> size_value(store) = Invalid
      /\ checks[6] <=> mtime_value(store) = Invalid
      /\ checks[7] <=> days_out_of_range(mtime_value(store))
      /\ checks[8] <=> newer_value(store) = Invalid
      /\ checks[9] <=> perm_value(store) = Invalid
      /\ checks[10] <=> store["max_depth"] # None /\ store["max_depth"] < 0
      /\ checks[11] <=> store["min_depth"] # None /\ store["min_depth"] < 0
      /\ checks[12] <=> depths_cross(store)
      /\ checks[13] <=> store["output"] = None
      /\ checks[14] <=> Parsed(store["output"], bind_output) = Invalid
  BY DEF BindChecks
<1> HIDE DEF checks
<1>2. (\A i \in 1..14 : ~checks[i]) <=>
        /\ ~checks[1] /\ ~checks[2] /\ ~checks[3] /\ ~checks[4] /\ ~checks[5] /\ ~checks[6]
        /\ ~checks[7] /\ ~checks[8] /\ ~checks[9] /\ ~checks[10] /\ ~checks[11] /\ ~checks[12]
        /\ ~checks[13] /\ ~checks[14]
  <2>1. 1..14 = {1, 2, 3, 4, 5, 6, 7, 8, 9, 10, 11, 12, 13, 14}
    OBVIOUS
  <2> QED BY <2>1, Zenon
<1> QED BY <1>1, <1>2, Zenon DEF checks

(* --threads: always there, and refused exactly if it is no thread count. *)
LEMMA ThreadsChecked ==
  ASSUME NEW l, IsCommandLine(l)
  PROVE  LET text == cli_store(l)["threads"]
         IN /\ text # None
            /\ bind_global_threads(cli_store(l)) = parse_threads(text)
            /\ parse_threads(text) # Invalid <=> IsThreadCount(text)
            /\ IsThreadCount(text) => parse_threads(text) \in [mode : ThreadModes, workers : Nat]
            /\ IsThreadCount(text) <=>
                 ("threads" \in DOMAIN l.given => IsThreadCount(l.given["threads"]))
<1> DEFINE text == cli_store(l)["threads"]
<1>1. text = IF "threads" \in DOMAIN l.given THEN l.given["threads"] ELSE <<"auto">>
  BY OptionTable, StoreHas
<1>2. "threads" \in DOMAIN l.given => l.given["threads"] \in Seq(STRING)
  BY GivenValues DEF Texts
<1>3. text # None
  BY <1>1, <1>2, CliOptionsAssumption DEF Texts
<1>4. \E T : text \in Seq(T)
  <2>1. <<"auto">> \in Seq({"auto"})
    OBVIOUS
  <2> QED BY <1>1, <1>2, <2>1
<1>5. IsThreadCount(<<"auto">>)
  BY DEF IsThreadCount
<1>6. bind_global_threads(cli_store(l)) = parse_threads(text)
  BY <1>3 DEF bind_global_threads, Parsed
<1>7. Invalid \notin [mode : ThreadModes, workers : Nat]
  BY CliOptionsAssumption
<1> HIDE DEF text
<1>8. /\ ~IsThreadCount(text) => parse_threads(text) = Invalid
      /\ IsThreadCount(text) => parse_threads(text) \in [mode : ThreadModes, workers : Nat]
  BY <1>4, ParseThreadsIsExact
<1> QED BY <1>1, <1>3, <1>5, <1>6, <1>7, <1>8 DEF text

(* --type: what the library lets through is a type the parser knows. *)
LEMMA TypeChecked ==
  ASSUME NEW l, IsCommandLine(l),
         "type" \in DOMAIN l.given => l.given["type"] \in type_allowed_values
  PROVE  type_value(cli_store(l)) \in {None} \cup (EntryTypes \ {"any"})
         /\ type_value(cli_store(l)) # Invalid
<1> DEFINE value == lookup_string(cli_store(l), "type")
<1>1. value \in type_allowed_values \cup {None}
  BY LookupIsGiven DEF Given, OptionalTexts
<1>2. \A t \in type_allowed_values : parse_type_filter(t) \in EntryTypes \ {"any"}
  BY DEF type_allowed_values, parse_type_filter, EntryTypes
<1>3. type_value(cli_store(l)) \in {None} \cup (EntryTypes \ {"any"})
  BY <1>1, <1>2 DEF type_value, Parsed
<1> QED BY <1>3, CliOptionsAssumption

(* --size: refused exactly if it is given and is no size that fits. *)
LEMMA SizeChecked ==
  ASSUME NEW l, IsCommandLine(l)
  PROVE  /\ Given(l, "size") => l.given["size"] \in Texts
         /\ size_value(cli_store(l)) =
              IF Given(l, "size") THEN parse_size_filter(l.given["size"]) ELSE None
         /\ size_value(cli_store(l)) # Invalid <=>
              (Given(l, "size") => FittingSizes(l.given["size"]) # {})
<1>1. /\ lookup_string(cli_store(l), "size") = IF Given(l, "size") THEN l.given["size"] ELSE None
      /\ Given(l, "size") => l.given["size"] \in Texts /\ l.given["size"] # None
  BY LookupIsGiven DEF OptionalTexts, has
<1>2. size_value(cli_store(l)) = IF Given(l, "size") THEN parse_size_filter(l.given["size"]) ELSE None
  BY <1>1 DEF size_value, Parsed
<1>3. None # Invalid /\ Invalid \notin [op : Comparisons, threshold : Nat]
  BY CliOptionsAssumption
<1>4. ASSUME Given(l, "size")
      PROVE  parse_size_filter(l.given["size"]) # Invalid <=> FittingSizes(l.given["size"]) # {}
  <2> DEFINE text == l.given["size"]
  <2> HIDE DEF text
  <2>1. text \in Texts
    BY <1>1, <1>4 DEF text
  <2>2. \A r \in FittingSizes(text) : parse_size_filter(text) # Invalid
    <3> SUFFICES ASSUME NEW r \in FittingSizes(text) PROVE parse_size_filter(text) # Invalid
      OBVIOUS
    <3>1. parse_size_filter(text) = [op |-> OpOfSign(r.sign), threshold |-> Bytes(r)]
      BY <2>1, ParseSizeIsExact
    <3>2. OpOfSign(r.sign) \in Comparisons
      BY DEF OpOfSign, Comparisons
    <3>3. Bytes(r) \in Nat
      BY <2>1, BytesType DEF FittingSizes
    <3>4. parse_size_filter(text) \in [op : Comparisons, threshold : Nat]
      BY <3>1, <3>2, <3>3
    <3> QED BY <1>3, <3>4
  <2> QED BY <2>1, <2>2, ParseSizeIsExact DEF text
<1> QED BY <1>1, <1>2, <1>3, <1>4

(* --mtime: refused, by the parser or for its range, exactly if it is      *)
(* given and is no age that fits.                                          *)
LEMMA MtimeChecked ==
  ASSUME NEW l, IsCommandLine(l)
  PROVE  /\ Given(l, "mtime") => l.given["mtime"] \in Texts
         /\ mtime_value(cli_store(l)) =
              IF Given(l, "mtime") THEN parse_mtime_filter(l.given["mtime"]) ELSE None
         /\ mtime_value(cli_store(l)) # Invalid /\ ~days_out_of_range(mtime_value(cli_store(l))) <=>
              (Given(l, "mtime") => FittingAges(l.given["mtime"]) # {})
<1>1. /\ lookup_string(cli_store(l), "mtime") = IF Given(l, "mtime") THEN l.given["mtime"] ELSE None
      /\ Given(l, "mtime") => l.given["mtime"] \in Texts /\ l.given["mtime"] # None
  BY LookupIsGiven DEF OptionalTexts, has
<1>2. mtime_value(cli_store(l)) = IF Given(l, "mtime") THEN parse_mtime_filter(l.given["mtime"]) ELSE None
  BY <1>1 DEF mtime_value, Parsed
<1>3. None # Invalid /\ ~days_out_of_range(None)
  BY CliOptionsAssumption DEF days_out_of_range, has
<1>4. ASSUME Given(l, "mtime")
      PROVE  /\ parse_mtime_filter(l.given["mtime"]) # Invalid
             /\ ~days_out_of_range(parse_mtime_filter(l.given["mtime"]))
             <=> FittingAges(l.given["mtime"]) # {}
  <2> DEFINE text == l.given["mtime"]
             m == parse_mtime_filter(text)
  <2> HIDE DEF text, m
  <2>1. text \in Texts
    BY <1>1, <1>4 DEF text
  <2>2. \A r \in FittingAges(text) : has(m) /\ ~days_out_of_range(m)
    BY <2>1, ParseAgeIsExact DEF m
  <2>3. FittingAges(text) = {} => m = Invalid \/ days_out_of_range(m)
    BY <2>1, ParseAgeIsExact DEF m
  <2>4. has(m) => m # Invalid
    BY DEF has
  <2> QED BY <2>2, <2>3, <2>4 DEF text, m
<1> QED BY <1>1, <1>2, <1>3, <1>4

(* --newer: refused exactly if it is given and names no file. *)
LEMMA NewerChecked ==
  ASSUME NEW l, IsCommandLine(l)
  PROVE  newer_value(cli_store(l)) # Invalid <=>
           (Given(l, "newer") => l.given["newer"] \in DOMAIN ReferenceMtime)
<1>1. /\ lookup_string(cli_store(l), "newer") = IF Given(l, "newer") THEN l.given["newer"] ELSE None
      /\ Given(l, "newer") => l.given["newer"] # None
  BY LookupIsGiven DEF OptionalTexts, has
<1>2. newer_value(cli_store(l)) =
        IF Given(l, "newer") THEN bind_newer_reference(l.given["newer"]) ELSE None
  BY <1>1 DEF newer_value, Parsed
<1>3. \A t \in DOMAIN ReferenceMtime : ReferenceMtime[t] # Invalid
  BY CliParsersAssumption, CliOptionsAssumption
<1>4. Invalid # None
  BY CliOptionsAssumption
<1> QED BY <1>2, <1>3, <1>4 DEF bind_newer_reference

(* --perm: refused exactly if it is given and is no mode. *)
LEMMA PermChecked ==
  ASSUME NEW l, IsCommandLine(l)
  PROVE  /\ perm_value(cli_store(l)) # Invalid <=> (Given(l, "perm") => IsMode(l.given["perm"]))
         /\ Given(l, "perm") /\ IsMode(l.given["perm"]) =>
              perm_value(cli_store(l)) = Value(l.given["perm"], 8)
<1>1. /\ lookup_string(cli_store(l), "perm") = IF Given(l, "perm") THEN l.given["perm"] ELSE None
      /\ Given(l, "perm") => l.given["perm"] \in Texts /\ l.given["perm"] # None
  BY LookupIsGiven DEF OptionalTexts, has
<1>2. perm_value(cli_store(l)) = IF Given(l, "perm") THEN parse_perm_filter(l.given["perm"]) ELSE None
  BY <1>1 DEF perm_value, Parsed
<1>3. Invalid # None /\ Invalid \notin Int
  BY CliOptionsAssumption, CliParsersAssumption
<1>4. ASSUME Given(l, "perm")
      PROVE  /\ parse_perm_filter(l.given["perm"]) # Invalid <=> IsMode(l.given["perm"])
             /\ IsMode(l.given["perm"]) => parse_perm_filter(l.given["perm"]) = Value(l.given["perm"], 8)
  <2> DEFINE text == l.given["perm"]
  <2> HIDE DEF text
  <2>1. text \in Seq(STRING)
    BY <1>1, <1>4 DEF text, Texts
  <2>2. parse_perm_filter(text) = IF IsMode(text) THEN Value(text, 8) ELSE Invalid
    BY <2>1, ParsePermIsExact
  <2>3. IsMode(text) => Value(text, 8) \in Nat
    <3>1. IsMode(text) => text \in Seq(Digits \ {"8", "9"})
      BY <2>1, NumbersAreDigits DEF IsMode
    <3>2. text \in Seq(Digits \ {"8", "9"}) => text \in Seq(Digits)
      OBVIOUS
    <3> QED BY <3>1, <3>2, ValueType
  <2> QED BY <1>3, <2>2, <2>3 DEF text
<1> QED BY <1>2, <1>3, <1>4

(* The depths: what the library lets through is refused exactly if a depth *)
(* is negative or the two cross.                                           *)
LEMMA DepthsChecked ==
  ASSUME NEW l, IsCommandLine(l),
         "max_depth" \in DOMAIN l.given => l.given["max_depth"] # Invalid,
         "min_depth" \in DOMAIN l.given => l.given["min_depth"] # Invalid
  PROVE  LET store == cli_store(l)
         IN /\ store["max_depth"] \in Int \cup {None} /\ store["min_depth"] \in Int
            /\ /\ ~(store["max_depth"] # None /\ store["max_depth"] < 0)
               /\ ~(store["min_depth"] # None /\ store["min_depth"] < 0)
               /\ ~depths_cross(store)
               <=>
               /\ "max_depth" \in DOMAIN l.given => l.given["max_depth"] >= 0
               /\ "min_depth" \in DOMAIN l.given => l.given["min_depth"] >= 0
               /\ "max_depth" \in DOMAIN l.given =>
                    (IF "min_depth" \in DOMAIN l.given THEN l.given["min_depth"] ELSE 0)
                      <= (IF "max_depth" \in DOMAIN l.given THEN l.given["max_depth"] ELSE 0)
<1> DEFINE store == cli_store(l)
           hi == l.given["max_depth"]
           lo == l.given["min_depth"]
<1>1. store["max_depth"] = IF "max_depth" \in DOMAIN l.given THEN hi ELSE None
  BY OptionTable, StoreHas
<1>2. store["min_depth"] = IF "min_depth" \in DOMAIN l.given THEN lo ELSE 0
  BY OptionTable, StoreHas
<1>3. ("max_depth" \in DOMAIN l.given => hi \in Int) /\ ("min_depth" \in DOMAIN l.given => lo \in Int)
  BY GivenValues
<1>4. None \notin Int
  BY FilterAssumption
<1>5. depths_cross(store) <=>
        store["max_depth"] # None /\ store["min_depth"] # None /\ store["min_depth"] > store["max_depth"]
  BY DEF depths_cross
<1> HIDE DEF store, hi, lo
<1>6. CASE "max_depth" \in DOMAIN l.given /\ "min_depth" \in DOMAIN l.given
  BY <1>1, <1>2, <1>3, <1>4, <1>5, <1>6 DEF store, hi, lo
<1>7. CASE "max_depth" \in DOMAIN l.given /\ "min_depth" \notin DOMAIN l.given
  BY <1>1, <1>2, <1>3, <1>4, <1>5, <1>7 DEF store, hi, lo
<1>8. CASE "max_depth" \notin DOMAIN l.given /\ "min_depth" \in DOMAIN l.given
  BY <1>1, <1>2, <1>3, <1>4, <1>5, <1>8 DEF store, hi, lo
<1>9. CASE "max_depth" \notin DOMAIN l.given /\ "min_depth" \notin DOMAIN l.given
  BY <1>1, <1>2, <1>3, <1>4, <1>5, <1>9 DEF store, hi, lo
<1> QED BY <1>6, <1>7, <1>8, <1>9

(* --output: always there, and refused exactly if it is empty. *)
LEMMA OutputChecked ==
  ASSUME NEW l, IsCommandLine(l)
  PROVE  LET value == cli_store(l)["output"]
         IN /\ value # None
            /\ Parsed(value, bind_output) # Invalid <=>
                 ("output" \in DOMAIN l.given => l.given["output"] # <<>>)
<1> DEFINE value == cli_store(l)["output"]
<1>1. value = IF "output" \in DOMAIN l.given THEN l.given["output"] ELSE <<"-">>
  BY OptionTable, StoreHas
<1>2. "output" \in DOMAIN l.given => l.given["output"] \in Texts
  BY GivenValues
<1>3. value # None /\ value \in Texts \cup {<<"-">>}
  BY <1>1, <1>2, CliOptionsAssumption
<1>4. Parsed(value, bind_output) = bind_output(value)
  BY <1>3 DEF Parsed
<1>5. <<"-">> # <<>>
  OBVIOUS
<1> HIDE DEF value
<1>6. bind_output(value) # Invalid <=> value # <<>>
  <2>1. CASE value = <<>>
    BY <1>5, <2>1, Zenon DEF bind_output
  <2>2. CASE value # <<>>
    <3>1. bind_output(value) \in [mode : {"stdout", "file"}, path : Texts \cup {<<"-">>, None}]
      <4>1. bind_output(value) = IF value = <<"-">> THEN [mode |-> "stdout", path |-> None]
                                 ELSE [mode |-> "file", path |-> value]
        BY <2>2, Zenon DEF bind_output
      <4> QED BY <1>3, <4>1
    <3> QED BY <2>2, <3>1, CliOptionsAssumption
  <2> QED BY <2>1, <2>2
<1> QED BY <1>1, <1>3, <1>4, <1>5, <1>6 DEF value

(* The library takes a search exactly if its type and its depths can be    *)
(* read.                                                                   *)
LEMMA ParseStatus ==
  ASSUME NEW l, IsCommandLine(l)
  PROVE  /\ cli_parse_status(l) = "ok" <=>
              /\ l.request = "find"
              /\ "type" \in DOMAIN l.given => l.given["type"] \in type_allowed_values
              /\ "max_depth" \in DOMAIN l.given => l.given["max_depth"] # Invalid
              /\ "min_depth" \in DOMAIN l.given => l.given["min_depth"] # Invalid
         /\ cli_parse_status(l) \in {"ok", "error", "help_global", "help_command", "version"}
         /\ cli_parse_status(l) = "error" => l.request = "find"
<1>1. \A o \in DOMAIN l.given : o \in DOMAIN program_spec
  BY DEF IsCommandLine
<1>2. (\E o \in DOMAIN l.given : BadValue(o, l.given[o])) <=>
        \/ "type" \in DOMAIN l.given /\ l.given["type"] \notin type_allowed_values
        \/ "max_depth" \in DOMAIN l.given /\ l.given["max_depth"] = Invalid
        \/ "min_depth" \in DOMAIN l.given /\ l.given["min_depth"] = Invalid
  <2>1. \A o \in DOMAIN l.given :
          BadValue(o, l.given[o]) <=>
            \/ o = "type" /\ l.given[o] \notin type_allowed_values
            \/ o \in {"max_depth", "min_depth"} /\ l.given[o] = Invalid
    BY <1>1, OptionTable DEF BadValue
  <2> QED BY <2>1
<1>3. l.request \in {"find", "help_global", "help_command", "version"}
  BY DEF IsCommandLine
<1>4. CASE l.request = "find"
  <2>1. cli_parse_status(l) = IF \E o \in DOMAIN l.given : BadValue(o, l.given[o]) THEN "error" ELSE "ok"
    BY <1>4 DEF cli_parse_status
  <2> QED BY <1>2, <1>4, <2>1
<1>5. CASE l.request # "find"
  BY <1>3, <1>5 DEF cli_parse_status
<1> QED BY <1>4, <1>5

(* A search is taken exactly if its command line makes sense: the library  *)
(* and the fourteen checks of bind_options together refuse every line that *)
(* is not Legal and no other (bc_seek_cli_spec.c:282-431), whatever the    *)
(* options, their values and the word sizes.                               *)
THEOREM AcceptedIffLegal ==
  ASSUME NEW l, IsCommandLine(l), l.request = "find"
  PROVE  Legal(l) <=> cli_parse_status(l) = "ok" /\ bind_complaint(cli_store(l)) = None
<1> DEFINE store == cli_store(l)
           typed == "type" \in DOMAIN l.given => l.given["type"] \in type_allowed_values
           read == /\ "max_depth" \in DOMAIN l.given => l.given["max_depth"] # Invalid
                   /\ "min_depth" \in DOMAIN l.given => l.given["min_depth"] # Invalid
<1>1. cli_parse_status(l) = "ok" <=> typed /\ read
  BY ParseStatus
<1>2. Legal(l) => typed /\ read
  BY LegalIs
<1>3. ASSUME typed, read
      PROVE  Legal(l) <=> bind_complaint(store) = None
  <2> DEFINE threads == "threads" \in DOMAIN l.given => IsThreadCount(l.given["threads"])
             names == ~(Given(l, "name") /\ Given(l, "iname"))
             size == Given(l, "size") => FittingSizes(l.given["size"]) # {}
             mtime == Given(l, "mtime") => FittingAges(l.given["mtime"]) # {}
             newer == Given(l, "newer") => l.given["newer"] \in DOMAIN ReferenceMtime
             perm == Given(l, "perm") => IsMode(l.given["perm"])
             depths == /\ "max_depth" \in DOMAIN l.given => l.given["max_depth"] >= 0
                       /\ "min_depth" \in DOMAIN l.given => l.given["min_depth"] >= 0
                       /\ "max_depth" \in DOMAIN l.given =>
                            (IF "min_depth" \in DOMAIN l.given THEN l.given["min_depth"] ELSE 0)
                              <= (IF "max_depth" \in DOMAIN l.given THEN l.given["max_depth"] ELSE 0)
             output == "output" \in DOMAIN l.given => l.given["output"] # <<>>
  <2>1. Legal(l) <=> threads /\ names /\ size /\ mtime /\ newer /\ perm /\ depths /\ output
    BY <1>3, LegalIs
  <2>2. store["threads"] # None /\ (bind_global_threads(store) # Invalid <=> threads)
    BY ThreadsChecked, Zenon
  <2>3. ~(has(lookup_string(store, "name")) /\ has(lookup_string(store, "iname"))) <=> names
    <3>1. \A o \in OptionalTexts : has(lookup_string(store, o)) <=> Given(l, o)
      BY LookupIsGiven
    <3>2. "name" \in OptionalTexts /\ "iname" \in OptionalTexts
      BY DEF OptionalTexts
    <3> QED BY <3>1, <3>2
  <2>4. type_value(store) # Invalid
    BY <1>3, TypeChecked
  <2>5. size_value(store) # Invalid <=> size
    BY SizeChecked, Zenon
  <2>6. mtime_value(store) # Invalid /\ ~days_out_of_range(mtime_value(store)) <=> mtime
    BY MtimeChecked, Zenon
  <2>7. newer_value(store) # Invalid <=> newer
    BY NewerChecked, Zenon
  <2>8. perm_value(store) # Invalid <=> perm
    BY PermChecked, Zenon
  <2>9. /\ ~(store["max_depth"] # None /\ store["max_depth"] < 0)
        /\ ~(store["min_depth"] # None /\ store["min_depth"] < 0)
        /\ ~depths_cross(store)
        <=> depths
    BY <1>3, DepthsChecked, Zenon
  <2>10. store["output"] # None /\ (Parsed(store["output"], bind_output) # Invalid <=> output)
    BY OutputChecked, Zenon
  <2> HIDE DEF store, threads, names, size, mtime, newer, perm, depths, output
  <2>11. bind_complaint(store) = None <=>
           threads /\ names /\ size /\ mtime /\ newer /\ perm /\ depths /\ output
    BY <2>2, <2>3, <2>4, <2>5, <2>6, <2>7, <2>8, <2>9, <2>10, NoComplaint, TheChecks, Zenon
  <2> QED BY <2>1, <2>11
<1> HIDE DEF store, typed, read
<1> QED BY <1>1, <1>2, <1>3 DEF store

(* What bind_options puts into the options of an accepted line. *)
LEMMA BoundValues ==
  ASSUME NEW l, IsCommandLine(l), cli_parse_status(l) = "ok",
         bind_complaint(cli_store(l)) = None
  PROVE  LET bound == bind_options(cli_store(l), l.roots)
             text == cli_store(l)["threads"]
         IN /\ BoundOptions(bound.options)
            /\ bound.threads = parse_threads(text) /\ IsThreadCount(text)
            /\ bound.threads \in [mode : ThreadModes, workers : Nat]
            /\ Legal(l)
<1> DEFINE store == cli_store(l)
           bound == bind_options(store, l.roots)
           o == bound.options
<1>1. l.request = "find" /\ Legal(l)
  BY ParseStatus, AcceptedIffLegal
<1>2. bound.threads = bind_global_threads(store)
  BY DEF bind_options
<1>3. bound.threads = parse_threads(store["threads"]) /\ IsThreadCount(store["threads"])
      /\ bound.threads \in [mode : ThreadModes, workers : Nat]
  <2>1. "threads" \in DOMAIN l.given => IsThreadCount(l.given["threads"])
    BY <1>1, LegalIs
  <2> QED BY <1>2, <2>1, ThreadsChecked, Zenon
<1>4. DOMAIN o = OptionFields
  BY DEF bind_options, OptionFields
<1>5. /\ o.type_filter = type_value(store) /\ o.max_depth = store["max_depth"]
      /\ o.min_depth = IF store["min_depth"] = None THEN 0 ELSE store["min_depth"]
      /\ o.include_hidden \in BOOLEAN /\ o.respect_ignore_defaults \in BOOLEAN
  BY DEF bind_options, lookup_boolean
<1>6. o.type_filter \in {None} \cup (EntryTypes \ {"any"})
  BY <1>5, ParseStatus, TypeChecked
<1>7. o.max_depth \in Nat \cup {None} /\ o.min_depth \in Nat
  <2>1. store["max_depth"] \in Int \cup {None} /\ store["min_depth"] \in Int
    BY ParseStatus, DepthsChecked, Zenon
  <2>2. ~(store["max_depth"] # None /\ store["max_depth"] < 0)
        /\ ~(store["min_depth"] # None /\ store["min_depth"] < 0)
    BY NoComplaint, TheChecks, Zenon
  <2> HIDE DEF store, bound
  <2> QED BY <1>5, <2>1, <2>2
<1> HIDE DEF bound
<1> QED BY <1>1, <1>3, <1>4, <1>5, <1>6, <1>7 DEF BoundOptions, bound
=============================================================================
