----------------------------- MODULE KlogProofs -----------------------------
(***************************************************************************)
(* Theorems about the kernel log, for text of any length.                  *)
(***************************************************************************)
EXTENDS Klog, ProcQueueProofs

(***************************************************************************)
(* The states of a log whose current line is empty from its next column    *)
(* on.                                                                     *)
(***************************************************************************)
Log ==
  {K \in [line : Lines, char : Columns, buffer : [Lines -> [Columns -> Char \cup {NUL}]]] :
     \A c \in Columns : K.char <= c => K.buffer[K.line][c] \in {NUL, BLANK}}

(***************************************************************************)
(* The next line of such a log is empty.                                   *)
(***************************************************************************)
LEMMA NextLineKeeps ==
  ASSUME NEW K \in [line : Lines, char : Columns,
                    buffer : [Lines -> [Columns -> Char \cup {NUL}]]]
  PROVE  NextLine(K) \in Log
<1> DEFINE l == (K.line + 1) % KLOG_LINES
<1>0. K.line \in Lines
  OBVIOUS
<1>1. l \in Lines /\ 0 \in Columns /\ BLANK \in Char
  <2>1. \A i \in 0 .. 63 : (i + 1) % 64 \in 0 .. 63
    OBVIOUS
  <2>2. l \in Lines
    BY <1>0, <2>1 DEF Lines, KLOG_LINES
  <2>3. 0 \in Columns
    BY DEF Columns, KLOG_LINE_SIZE
  <2>4. BLANK \in Char
    BY DEF BLANK, Char
  <2> QED BY <2>2, <2>3, <2>4
<1> DEFINE blank == [c \in Columns |-> BLANK]
           B     == [K.buffer EXCEPT ![l] = blank]
<1>2. blank \in [Columns -> Char \cup {NUL}]
  BY <1>1
<1>3. K.buffer \in [Lines -> [Columns -> Char \cup {NUL}]]
  OBVIOUS
<1>4. NextLine(K) = [line |-> l, char |-> 0, buffer |-> B]
  BY DEF NextLine
<1> HIDE DEF l, blank
<1>5. B \in [Lines -> [Columns -> Char \cup {NUL}]] /\ B[l] = blank
  BY <1>1, <1>2, <1>3
<1>6. \A c \in Columns : blank[c] = BLANK
  BY DEF blank
<1> HIDE DEF B
<1> QED BY <1>1, <1>4, <1>5, <1>6 DEF Log

(***************************************************************************)
(* A character that is printed keeps the log such a one.                   *)
(***************************************************************************)
LEMMA FeedKeeps ==
  ASSUME NEW K \in Log, NEW c \in Char
  PROVE  Feed(K, c) \in Log
<1> DEFINE row == [K.buffer[K.line] EXCEPT ![K.char] = c]
           B   == [K.buffer EXCEPT ![K.line] = row]
           P   == [line |-> K.line, char |-> K.char, buffer |-> B]
<1>1. /\ K.line \in Lines /\ K.char \in Columns
      /\ K.buffer \in [Lines -> [Columns -> Char \cup {NUL}]]
      /\ \A d \in Columns : K.char <= d => K.buffer[K.line][d] \in {NUL, BLANK}
      /\ K \in [line : Lines, char : Columns, buffer : [Lines -> [Columns -> Char \cup {NUL}]]]
  BY DEF Log
<1>2. row \in [Columns -> Char \cup {NUL}]
  BY <1>1
<1>3. \A d \in Columns : K.char < d => row[d] \in {NUL, BLANK}
  BY <1>1 DEF Columns, KLOG_LINE_SIZE
<1>4. Put(K, c) = NextChar(P)
  BY DEF Put
<1> HIDE DEF row
<1>5. B \in [Lines -> [Columns -> Char \cup {NUL}]] /\ B[K.line] = row
  BY <1>1, <1>2
<1> HIDE DEF B
<1>6. P \in [line : Lines, char : Columns, buffer : [Lines -> [Columns -> Char \cup {NUL}]]]
  BY <1>1, <1>5
<1>7. NextChar(P) \in Log
  <2>1. CASE P.char + 1 >= KLOG_LINE_SIZE
    BY <1>6, <2>1, NextLineKeeps DEF NextChar
  <2>2. CASE ~ (P.char + 1 >= KLOG_LINE_SIZE)
    <3>1. NextChar(P) = [line |-> K.line, char |-> K.char + 1, buffer |-> B]
      BY <2>2 DEF NextChar
    <3>2. K.char + 1 \in Columns
      BY <1>1, <2>2 DEF Columns, KLOG_LINE_SIZE
    <3>3. \A d \in Columns : K.char + 1 <= d => B[K.line][d] \in {NUL, BLANK}
      BY <1>1, <1>3, <1>5 DEF Columns, KLOG_LINE_SIZE
    <3> QED BY <1>1, <1>5, <3>1, <3>2, <3>3 DEF Log
  <2> QED BY <2>1, <2>2
<1> QED BY <1>1, <1>4, <1>7, NextLineKeeps DEF Feed

(***************************************************************************)
(* So does a text of any length.                                           *)
(***************************************************************************)
LEMMA PrintKeeps ==
  ASSUME NEW K \in Log, NEW str \in Seq(Char)
  PROVE  Printed(K, str) \in Log
<1> DEFINE n == Len(str)
           F(f) == f = [i \in 0 .. n |-> IF i = 0 THEN K ELSE Feed(f[i - 1], str[i])]
           at == CHOOSE f : F(f)
           G == [i \in 1 .. n |-> [x \in Log |-> Feed(x, str[i])]]
<1>1. n \in Nat /\ \A i \in 1 .. n : str[i] \in Char
  OBVIOUS
<1>2. G \in [1 .. n -> [Log -> Log]]
  BY <1>1, FeedKeeps
<1>3. PICK f \in [0 .. n -> Log] : IsLoop(f, n, K, G)
  <2> HIDE DEF G, n
  <2> QED BY <1>1, <1>2, LoopExists
<1>4. F(f)
  <2> SUFFICES ASSUME NEW i \in 0 .. n
               PROVE  f[i] = IF i = 0 THEN K ELSE Feed(f[i - 1], str[i])
    BY <1>3
  <2>1. i # 0 => i \in 1 .. n /\ i - 1 \in 0 .. n
    BY <1>1
  <2> QED BY <1>3, <2>1 DEF IsLoop
<1>5. F(at)
  BY <1>4
<1>6. Printed(K, str) = at[n]
  BY DEF Printed
<1> DEFINE S == {i \in 0 .. n : at[i] \in Log}
<1>7. \A i \in 0 .. n : at[i] = IF i = 0 THEN K ELSE Feed(at[i - 1], str[i])
  <2> HIDE DEF at, n
  <2> QED BY <1>5
<1> HIDE DEF at
<1>8. 0 \in S
  BY <1>1, <1>7
<1>9. ASSUME NEW i \in 1 .. n, i - 1 \in S PROVE i \in S
  BY <1>1, <1>7, <1>9, FeedKeeps
<1>10. \A i \in 0 .. n : i \in S
  <2> HIDE DEF S, n
  <2> QED BY <1>1, <1>8, <1>9, UpTo
<1> QED BY <1>1, <1>6, <1>10

-----------------------------------------------------------------------------
(***************************************************************************)
(* Digits are characters.                                                  *)
(***************************************************************************)
LEMMA DigitType == \A d \in 0 .. 15 : Digit(d) \in Char
  BY DEF Digit, Char

(***************************************************************************)
(* One round of the loops: the lowest digit, then what is left.            *)
(***************************************************************************)
LEMMA RoundAt ==
  ASSUME NEW base, NEW rest, NEW n \in Nat
  PROVE  Round(rest, base)[n] =
           <<Digit(n % base)>> \o IF n < base THEN <<>> ELSE rest[n \div base]
  BY DEF Round

(***************************************************************************)
(* Sequences of one and of two characters.                                 *)
(***************************************************************************)
LEMMA ShortSequences ==
  /\ \A T : \A c \in T : <<c>> \in Seq(T)
  /\ \A c, d : <<c>> \o (<<d>> \o <<>>) = <<c, d>>
<1>1. \A T : \A c \in T : <<c>> \in Seq(T)
  OBVIOUS
<1>2. ASSUME NEW c, NEW d PROVE <<c>> \o (<<d>> \o <<>>) = <<c, d>>
  <2>1. <<d>> \o <<>> = <<d>>
    OBVIOUS
  <2>2. <<c>> \o <<d>> = <<c, d>>
    <3> DEFINE T == {c, d}
               s == <<c>> \o <<d>>
               t == <<c, d>>
    <3>1. <<c>> \in Seq(T) /\ <<d>> \in Seq(T) /\ t \in Seq(T)
      OBVIOUS
    <3>2. s \in Seq(T) /\ Len(s) = 2 /\ s[1] = c /\ s[2] = d
      BY <3>1
    <3>3. Len(t) = 2 /\ t[1] = c /\ t[2] = d
      OBVIOUS
    <3> HIDE DEF s, t
    <3>4. \A i \in 1 .. 2 : s[i] = t[i]
      BY <3>2, <3>3
    <3>5. s = t
      BY <3>1, <3>2, <3>3, <3>4, SeqEqual
    <3> QED BY <3>5 DEF s, t
  <2> QED BY <2>1, <2>2
<1> QED BY <1>1, <1>2

(***************************************************************************)
(* What a round leaves is a text again.                                    *)
(***************************************************************************)
LEMMA RoundType ==
  ASSUME NEW base \in {10, 16}, NEW rest \in [Nat -> Seq(Char)]
  PROVE  Round(rest, base) \in [Nat -> Seq(Char)]
<1> SUFFICES ASSUME NEW n \in Nat
             PROVE  (<<Digit(n % base)>> \o
                     IF n < base THEN <<>> ELSE rest[n \div base]) \in Seq(Char)
  BY DEF Round
<1>1. n % base \in 0 .. 15 /\ n \div base \in Nat
  <2>1. CASE base = 10 BY <2>1
  <2>2. CASE base = 16 BY <2>2
  <2> QED BY <2>1, <2>2
<1>2. <<Digit(n % base)>> \in Seq(Char)
  <2>1. Digit(n % base) \in Char
    BY <1>1, DigitType
  <2> QED BY <2>1, ShortSequences
<1>3. (IF n < base THEN <<>> ELSE rest[n \div base]) \in Seq(Char)
  BY <1>1
<1> QED BY <1>2, <1>3

(***************************************************************************)
(* What up to k rounds print.                                              *)
(***************************************************************************)
By(base) ==
  CHOOSE f : f = [k \in 0 .. MAXDIGITS |->
                    IF k = 0 THEN [n \in Nat |-> <<>>] ELSE Round(f[k - 1], base)]

LEMMA ByRounds ==
  ASSUME NEW base \in {10, 16}
  PROVE  /\ \A n : Digits(n, base) = By(base)[MAXDIGITS][n]
         /\ \A k \in 1 .. MAXDIGITS : By(base)[k] = Round(By(base)[k - 1], base)
         /\ \A k \in 0 .. MAXDIGITS : By(base)[k] \in [Nat -> Seq(Char)]
<1> DEFINE by == By(base)
           X == [Nat -> Seq(Char)]
           zero == [n \in Nat |-> <<>>]
           F(f) == f = [k \in 0 .. MAXDIGITS |-> IF k = 0 THEN zero ELSE Round(f[k - 1], base)]
           G == [k \in 1 .. MAXDIGITS |-> [g \in X |-> Round(g, base)]]
<1>1. \A g \in X : Round(g, base) \in X
  BY RoundType
<1>2. zero \in X
  OBVIOUS
<1>3. MAXDIGITS \in Nat
  BY DEF MAXDIGITS
<1>4. \A n : Digits(n, base) = by[MAXDIGITS][n]
  BY DEF Digits, By
<1>5. by = CHOOSE f : F(f)
  BY DEF By
<1> HIDE DEF X, zero, by
<1>6. G \in [1 .. MAXDIGITS -> [X -> X]]
  BY <1>1
<1>7. PICK f \in [0 .. MAXDIGITS -> X] : IsLoop(f, MAXDIGITS, zero, G)
  <2> HIDE DEF G
  <2> QED BY <1>2, <1>3, <1>6, LoopExists
<1>8. F(f)
  <2> SUFFICES ASSUME NEW k \in 0 .. MAXDIGITS
               PROVE  f[k] = IF k = 0 THEN zero ELSE Round(f[k - 1], base)
    BY <1>7
  <2>1. k # 0 => k \in 1 .. MAXDIGITS /\ k - 1 \in 0 .. MAXDIGITS
    BY <1>3
  <2> QED BY <1>7, <2>1 DEF IsLoop
<1>9. F(by)
  <2> HIDE DEF F
  <2> QED BY <1>5, <1>8
<1>10. \A k \in 0 .. MAXDIGITS : by[k] = IF k = 0 THEN zero ELSE Round(by[k - 1], base)
  BY <1>9
<1>11. \A k \in 1 .. MAXDIGITS : by[k] = Round(by[k - 1], base)
  BY <1>3, <1>10
<1> DEFINE S == {k \in 0 .. MAXDIGITS : by[k] \in X}
<1>12. 0 \in S
  BY <1>2, <1>3, <1>10
<1>13. ASSUME NEW k \in 1 .. MAXDIGITS, k - 1 \in S PROVE k \in S
  BY <1>1, <1>3, <1>11, <1>13
<1>14. \A k \in 0 .. MAXDIGITS : k \in S
  <2> HIDE DEF S
  <2> QED BY <1>3, <1>12, <1>13, UpTo
<1> QED BY <1>4, <1>11, <1>14 DEF X, by

(***************************************************************************)
(* klog_print_dec prints the two digits of a number from 10 to 99 in the   *)
(* wrong order, the lowest first, and those of a smaller one in the right  *)
(* order.                                                                  *)
(***************************************************************************)
THEOREM DecimalsReversed ==
  /\ \A num \in 10 .. 99 : DecDigits(num) = <<Digit(num % 10), Digit(num \div 10)>>
  /\ \A num \in 0 .. 9 : DecDigits(num) = <<Digit(num \div 10), Digit(num % 10)>>
<1>1. ASSUME NEW num \in 10 .. 99
      PROVE  DecDigits(num) = <<Digit(num % 10), Digit(num \div 10)>>
  <2>1. /\ num \div 10 \in 0 .. 9 /\ (num \div 10) % 10 = num \div 10
        /\ num \in Nat /\ num >= 10 /\ num \div 10 \in Nat /\ num \div 10 < 10
    BY <1>1
  <2>2. /\ \A n : Digits(n, 10) = By(10)[10][n]
        /\ By(10)[10] = Round(By(10)[9], 10)
        /\ By(10)[9] = Round(By(10)[8], 10)
    <3>1. /\ \A n : Digits(n, 10) = By(10)[MAXDIGITS][n]
          /\ \A k \in 1 .. MAXDIGITS : By(10)[k] = Round(By(10)[k - 1], 10)
      BY ByRounds
    <3> QED BY <3>1 DEF MAXDIGITS
  <2>3. By(10)[9][num \div 10] = <<Digit(num \div 10)>> \o <<>>
    <3>1. Round(By(10)[8], 10)[num \div 10] =
            <<Digit((num \div 10) % 10)>> \o
              IF num \div 10 < 10 THEN <<>> ELSE By(10)[8][(num \div 10) \div 10]
      BY <2>1, RoundAt
    <3> QED BY <2>1, <2>2, <3>1
  <2>4. By(10)[10][num] = <<Digit(num % 10)>> \o By(10)[9][num \div 10]
    <3>1. Round(By(10)[9], 10)[num] =
            <<Digit(num % 10)>> \o IF num < 10 THEN <<>> ELSE By(10)[9][num \div 10]
      BY <2>1, RoundAt
    <3>2. ~ (num < 10)
      BY <2>1
    <3> QED BY <2>2, <3>1, <3>2
  <2>5. <<Digit(num % 10)>> \o (<<Digit(num \div 10)>> \o <<>>) =
        <<Digit(num % 10), Digit(num \div 10)>>
    BY ShortSequences
  <2> QED BY <2>1, <2>2, <2>3, <2>4, <2>5 DEF DecDigits
<1>2. ASSUME NEW num \in 0 .. 9
      PROVE  DecDigits(num) = <<Digit(num \div 10), Digit(num % 10)>>
  <2>1. num \div 10 = 0 /\ num % 10 = num
    BY <1>2
  <2> QED BY <1>2, <2>1 DEF DecDigits
<1> QED BY <1>1, <1>2

-----------------------------------------------------------------------------
(***************************************************************************)
(* Whatever is printed, no write leaves the buffer and no old text shows   *)
(* through behind the cursor.                                              *)
(***************************************************************************)
LogState == [line |-> klog_line_index, char |-> klog_char_index, buffer |-> klog_buffer]

THEOREM LogCorrect == Spec => [](InBounds /\ NothingStale)
<1> DEFINE Inv == LogState \in Log
<1>1. Init => Inv
  <2> SUFFICES ASSUME Init PROVE Inv
    OBVIOUS
  <2>1. 0 \in Lines /\ 0 \in Columns
    BY DEF Lines, Columns, KLOG_LINES, KLOG_LINE_SIZE
  <2>2. klog_buffer \in [Lines -> [Columns -> Char \cup {NUL}]]
    BY DEF Init
  <2>3. \A c \in Columns : klog_buffer[klog_line_index][c] = NUL
    BY <2>1 DEF Init
  <2> QED BY <2>1, <2>2, <2>3 DEF Init, LogState, Log
<1>2. Inv /\ [Next]_vars => Inv'
  <2>1. ASSUME Inv, NEW str \in Seq(Char), Output(str) PROVE Inv'
    <3>1. Printed(LogState, str) \in Log
      BY <2>1, PrintKeeps
    <3>2. Printed(LogState, str) = LogState'
      BY <2>1, <3>1 DEF Output, LogState, Log
    <3> QED BY <3>1, <3>2
  <2>2. ASSUME NEW num \in UInt
        PROVE  DecDigits(num) \in Seq(Char) /\ Digits(num, 16) \in Seq(Char)
    <3>1. num \in Nat /\ MAXDIGITS \in 0 .. MAXDIGITS
      <4>1. 256 * 256 * 256 * 256 \in Nat
        OBVIOUS
      <4>2. \A n \in Nat : \A x \in 0 .. n - 1 : x \in Nat
        OBVIOUS
      <4>3. num \in Nat
        <5> DEFINE N == 256 * 256 * 256 * 256
        <5>1. N \in Nat /\ num \in 0 .. N - 1
          BY <4>1 DEF UInt
        <5> HIDE DEF N
        <5> QED BY <4>2, <5>1
      <4> QED BY <4>3 DEF MAXDIGITS
    <3>2. \A base \in {10, 16} : Digits(num, base) \in Seq(Char)
      <4> TAKE base \in {10, 16}
      <4>1. By(base)[MAXDIGITS] \in [Nat -> Seq(Char)]
        BY <3>1, ByRounds
      <4>2. By(base)[MAXDIGITS][num] \in Seq(Char)
        BY <3>1, <4>1
      <4>3. Digits(num, base) = By(base)[MAXDIGITS][num]
        BY ByRounds
      <4> QED BY <4>2, <4>3
    <3>3. num < 10 => <<Digit(0), Digit(num)>> \in Seq(Char)
      BY <3>1 DEF Digit, Char
    <3> QED BY <3>1, <3>2, <3>3 DEF DecDigits
  <2>3. Inv /\ UNCHANGED vars => Inv'
    BY DEF vars, LogState
  <2> QED BY <2>1, <2>2, <2>3 DEF Next, klog_print, klog_print_dec, klog_print_hex
<1>3. Inv => InBounds /\ NothingStale
  <2> SUFFICES ASSUME Inv PROVE InBounds /\ NothingStale
    OBVIOUS
  <2>1. InBounds /\ klog_char_index \in 0 .. 41
    BY DEF LogState, Log, InBounds, Columns, KLOG_LINE_SIZE
  <2>2. \A c \in Columns : klog_char_index <= c => klog_buffer[klog_line_index][c] \in {NUL, BLANK}
    BY DEF LogState, Log
  <2> QED BY <2>1, <2>2 DEF NothingStale, Columns, KLOG_LINE_SIZE
<1> QED BY <1>1, <1>2, <1>3, PTL DEF Spec
=============================================================================
