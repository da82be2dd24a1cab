-------------------------------- MODULE Klog --------------------------------
(***************************************************************************)
(* The kernel log of klog.c: a ring of lines that is printed to character  *)
(* by character.                                                           *)
(*                                                                         *)
(* A call is one action.  Characters are their codes; K is the state of    *)
(* the log as a record while a call is under way.                          *)
(***************************************************************************)
EXTENDS Integers, Sequences

KLOG_LINES     == 64
KLOG_LINE_SIZE == 42

NUL == 0   \* the buffer's contents before it is first written
NEWLINE == 10
BLANK == 32
Char == 1 .. 255
Digit(d) == IF d < 10 THEN 48 + d ELSE 55 + d   \* digits[d]

VARIABLES klog_line_index, klog_char_index, klog_buffer

vars == <<klog_line_index, klog_char_index, klog_buffer>>

Lines   == 0 .. KLOG_LINES - 1
Columns == 0 .. KLOG_LINE_SIZE - 1

Init ==
  /\ klog_line_index = 0 /\ klog_char_index = 0
  /\ klog_buffer = [l \in Lines |-> [c \in Columns |-> NUL]]

(***************************************************************************)
(* next_line, which blanks the line it goes to, and next_char.             *)
(***************************************************************************)
NextLine(K) ==
  LET l == (K.line + 1) % KLOG_LINES
  IN  [line |-> l, char |-> 0,
       buffer |-> [K.buffer EXCEPT ![l] = [c \in Columns |-> BLANK]]]

NextChar(K) ==
  IF K.char + 1 >= KLOG_LINE_SIZE THEN NextLine(K)
  ELSE [line |-> K.line, char |-> K.char + 1, buffer |-> K.buffer]

Put(K, c) ==
  NextChar([line |-> K.line, char |-> K.char,
            buffer |-> [K.buffer EXCEPT ![K.line] = [@ EXCEPT ![K.char] = c]]])

(***************************************************************************)
(* The loop of klog_print: what the log is after each character of str.    *)
(***************************************************************************)
Feed(K, c) == IF c = NEWLINE THEN NextLine(K) ELSE Put(K, c)

Printed(K, str) ==
  LET at[i \in 0 .. Len(str)] == IF i = 0 THEN K ELSE Feed(at[i - 1], str[i])
  IN  at[Len(str)]

(***************************************************************************)
(* The do-while loops of klog_print_dec and klog_print_hex print the       *)
(* lowest digit first.  by[k] is what up to k rounds print of a number, an *)
(* unsigned int takes no more than MAXDIGITS.                              *)
(***************************************************************************)
UInt == 0 .. 256 * 256 * 256 * 256 - 1
MAXDIGITS == 10

Round(rest, base) ==
  [n \in Nat |-> <<Digit(n % base)>> \o IF n < base THEN <<>> ELSE rest[n \div base]]

Digits(num, base) ==
  LET by[k \in 0 .. MAXDIGITS] ==
        IF k = 0 THEN [n \in Nat |-> <<>>] ELSE Round(by[k - 1], base)
  IN  by[MAXDIGITS][num]

DecDigits(num) ==   \* a number below 10 has a leading 0
  IF num >= 10 THEN Digits(num, 10) ELSE <<Digit(0), Digit(num)>>

-----------------------------------------------------------------------------
Output(str) ==
  LET K == Printed([line |-> klog_line_index, char |-> klog_char_index,
                  buffer |-> klog_buffer], str)
  IN  /\ klog_line_index' = K.line
      /\ klog_char_index' = K.char
      /\ klog_buffer' = K.buffer

klog_print(str)     == Output(str)
klog_print_dec(num) == Output(DecDigits(num))
klog_print_hex(num) == Output(Digits(num, 16))

Next ==
  \/ \E str \in Seq(Char) : klog_print(str)
  \/ \E num \in UInt : klog_print_dec(num) \/ klog_print_hex(num)

Spec == Init /\ [][Next]_vars

-----------------------------------------------------------------------------
(***************************************************************************)
(* The indices stay inside the buffer, wherever a line, the buffer or a    *)
(* number ends: klog_buffer is never written outside its bounds.           *)
(***************************************************************************)
InBounds ==
  /\ klog_line_index \in Lines /\ klog_char_index \in Columns
  /\ klog_buffer \in [Lines -> [Columns -> Char \cup {NUL}]]

(***************************************************************************)
(* Behind the place of the next character the current line is empty: when  *)
(* the ring has come round, nothing of the line printed KLOG_LINES lines   *)
(* before shows through.                                                   *)
(***************************************************************************)
NothingStale ==
  \A c \in klog_char_index .. KLOG_LINE_SIZE - 1 :
    klog_buffer[klog_line_index][c] \in {NUL, BLANK}
=============================================================================
