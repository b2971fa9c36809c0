------------------------------- MODULE LogRaw -------------------------------
(***************************************************************************)
(* tfm_log_printf, lib/log/tfm_log_raw.c: threads format messages into a   *)
(* buffer of their own and print it on one console whenever it is full.    *)
(*                                                                         *)
(* A character is a string of length one.  A message is a sequence of      *)
(* pieces: literal text (tag ""), a directive with its argument, or the    *)
(* lone '%' a format may end with (tag "end").                             *)
(* External: stdio_output_string prints all it is given, in one piece, and *)
(* returns its length.                                                     *)
(***************************************************************************)
EXTENDS Integers, SequencesExt

CONSTANTS Threads,
          Messages,         \* a sequence of messages
          PRINT_BUFF_SIZE,  \* 32
          NUM_BUFF_SIZE,    \* 12
          Width,            \* bits of int32_t, 32
          UnsupportedTag,   \* the characters of "[Unsupported Tag]"
          MaxCalls          \* calls a thread makes

ASSUME LogConstants ==
    /\ PRINT_BUFF_SIZE \in Nat \ {0} /\ NUM_BUFF_SIZE \in Nat \ {0}
    /\ Width \in Nat \ {0} /\ 2^Width <= 10^NUM_BUFF_SIZE
    /\ UnsupportedTag # <<>> /\ MaxCalls \in Nat

VARIABLES calls,    \* calls[t]: calls of t so far
          printf,   \* printf[t]: the frame of t's last call
          console   \* what was printed, piece by piece

vars == <<calls, printf, console>>

NumberTags == {"d", "i", "u", "x", "X", "p"}
ArgumentTags == NumberTags \cup {"s", "c"}
SupportedTags == ArgumentTags \cup {"%"}

hex_digits_lo == <<"0", "1", "2", "3", "4", "5", "6", "7", "8", "9",
                   "a", "b", "c", "d", "e", "f">>
hex_digits_up == <<"0", "1", "2", "3", "4", "5", "6", "7", "8", "9",
                   "A", "B", "C", "D", "E", "F">>
DigitsOf(tag) == IF tag = "X" THEN hex_digits_up ELSE hex_digits_lo
BaseOf(tag) == IF tag \in {"d", "i", "u"} THEN 10 ELSE 16

\* The format string and the arguments of a message.
Format(m) == FlattenSeq([i \in DOMAIN m |-> CASE m[i].tag = "" -> m[i].arg
                                              [] m[i].tag = "end" -> <<"%">>
                                              [] OTHER -> <<"%", m[i].tag>>])
Arguments(m) == LET HasOne(p) == p.tag \in ArgumentTags
                    used == SelectSeq(m, HasOne)
                IN  [i \in DOMAIN used |-> used[i].arg]

\* A frame: what is left of fmt and ap, the characters of the current
\* directive still to flush, the number being converted, the buffer.
NoFrame == [active |-> FALSE, msg |-> 1, fmt |-> <<>>, ap |-> <<>>, todo |-> <<>>,
            tag |-> "", number |-> 0, num_buff |-> <<>>, buf |-> <<>>, count |-> 0]

Init == /\ calls = [t \in Threads |-> 0]
        /\ printf = [t \in Threads |-> NoFrame]
        /\ console = <<>>

\* tfm_log_printf is called with message i: pos and count start at 0.
Begin(t, i) ==
    /\ ~printf[t].active /\ calls[t] < MaxCalls
    /\ calls' = [calls EXCEPT ![t] = @ + 1]
    /\ printf' = [printf EXCEPT ![t] =
           [NoFrame EXCEPT !.active = TRUE, !.msg = i,
                           !.fmt = Format(Messages[i]), !.ap = Arguments(Messages[i])]]
    /\ UNCHANGED console

-----------------------------------------------------------------------------
Converting(f) == f.tag # ""
\* The loop of _tfm_log_vprintf looks at the format again.
Scanning(f) == f.active /\ f.todo = <<>> /\ ~Converting(f)

\* A step of t that only changes its own frame, from f to g.
Local(t, g) == printf' = [printf EXCEPT ![t] = g] /\ UNCHANGED <<calls, console>>

Literal(t) ==
    LET f == printf[t]
    IN  /\ Scanning(f) /\ f.fmt # <<>> /\ Head(f.fmt) # "%"
        /\ Local(t, [f EXCEPT !.todo = <<Head(f.fmt)>>, !.fmt = Tail(f.fmt)])

\* '%' and the character after it, if there is one.
AtDirective(f) == Scanning(f) /\ f.fmt # <<>> /\ Head(f.fmt) = "%"
Supported(f) == Len(f.fmt) > 1 /\ f.fmt[2] \in SupportedTags
AfterDirective(f) == SubSeq(f.fmt, 3, Len(f.fmt))

\* %s, %c and %%
CharactersOf(tag, ap) == CASE tag = "s" -> Head(ap) [] tag = "c" -> <<Head(ap)>> [] OTHER -> <<"%">>

Text(t) ==
    LET f == printf[t]
        tag == f.fmt[2]
    IN  /\ AtDirective(f) /\ Supported(f) /\ tag \notin NumberTags
        /\ Local(t, [f EXCEPT !.todo = CharactersOf(tag, f.ap), !.fmt = AfterDirective(f),
                              !.ap = IF tag = "%" THEN @ ELSE Tail(@)])

\* What precedes the digits, and the uint32_t they are the digits of; the
\* negation wraps for the smallest int32_t.
Prefix(tag, n) == IF tag \in {"d", "i"} /\ n < 0 THEN <<"-">>
                  ELSE IF tag = "p" THEN <<"0", "x">> ELSE <<>>

\* Mutant: the sign printed, the number not negated.
MagnitudeUnnegated(tag, n) == n % 2^Width

Magnitude(tag, n) == (IF tag \in {"d", "i"} /\ n < 0 THEN -n ELSE n) % 2^Width

Number(t) ==
    LET f == printf[t]
        tag == f.fmt[2]
    IN  /\ AtDirective(f) /\ Supported(f) /\ tag \in NumberTags
        /\ Local(t, [f EXCEPT !.todo = Prefix(tag, Head(f.ap)), !.tag = tag,
                              !.number = Magnitude(tag, Head(f.ap)), !.num_buff = <<>>,
                              !.fmt = AfterDirective(f), !.ap = Tail(@)])

\* Mutant: at the end of the format the scan steps back to the '%'.
UnsupportedSteppingBack(t) ==
    LET f == printf[t]
    IN  /\ AtDirective(f) /\ ~Supported(f)
        /\ Local(t, IF Len(f.fmt) = 1 THEN f ELSE [f EXCEPT !.todo = UnsupportedTag, !.fmt = Tail(@)])

\* The character after '%' is not consumed: it is scanned again as text.
Unsupported(t) ==
    LET f == printf[t]
    IN  /\ AtDirective(f) /\ ~Supported(f)
        /\ Local(t, [f EXCEPT !.todo = UnsupportedTag, !.fmt = Tail(@)])

Quotient(n, base) == n \div base

\* The do loops of _tfm_dec_num_output and _tfm_hex_num_output: the lowest
\* digit first; the last one starts the loop that flushes them in reverse.
Digit(t) ==
    LET f == printf[t]
        base == BaseOf(f.tag)
        digits == Append(f.num_buff, DigitsOf(f.tag)[(f.number % base) + 1])
        left == Quotient(f.number, base)
    IN  /\ f.active /\ f.todo = <<>> /\ Converting(f)
        /\ Local(t, IF left = 0
                    THEN [f EXCEPT !.todo = Reverse(digits), !.num_buff = digits, !.number = 0, !.tag = ""]
                    ELSE [f EXCEPT !.num_buff = digits, !.number = left])

-----------------------------------------------------------------------------
PrintPiece(t, bytes) ==
    console' = Append(console, [thread |-> t, call |-> calls[t], bytes |-> bytes])

\* Mutant: the buffer is printed one character late.
FullLate(buf) == Len(buf) > PRINT_BUFF_SIZE

Full(buf) == Len(buf) >= PRINT_BUFF_SIZE

\* _tfm_flush_formatted_buffer, and the count of its callers.
Put(t) ==
    LET f == printf[t]
        buf == Append(f.buf, Head(f.todo))
    IN  /\ f.active /\ f.todo # <<>>
        /\ printf' = [printf EXCEPT ![t] =
               [f EXCEPT !.todo = Tail(@), !.count = @ + 1,
                         !.buf = IF Full(buf) THEN <<>> ELSE buf]]
        /\ IF Full(buf) THEN PrintPiece(t, buf) ELSE UNCHANGED console
        /\ UNCHANGED calls

\* Mutant: the rest is printed without a look at pos.
HasTailAlways(f) == TRUE

HasTail(f) == f.buf # <<>>

\* End of the format: the rest of the buffer is printed, and what
\* stdio_output_string returns is added to a count that has it already.
Finish(t) ==
    LET f == printf[t]
    IN  /\ Scanning(f) /\ f.fmt = <<>>
        /\ printf' = [printf EXCEPT ![t] =
               [f EXCEPT !.active = FALSE, !.buf = <<>>, !.count = @ + Len(f.buf)]]
        /\ IF HasTail(f) THEN PrintPiece(t, f.buf) ELSE UNCHANGED console
        /\ UNCHANGED calls

Step(t) == \/ Literal(t) \/ Text(t) \/ Number(t) \/ Unsupported(t)
           \/ Digit(t) \/ Put(t) \/ Finish(t)

Next == \E t \in Threads : Step(t) \/ \E i \in DOMAIN Messages : Begin(t, i)

\* A thread that was interrupted inside the call is scheduled again.
Spec == Init /\ [][Next]_vars /\ \A t \in Threads : WF_vars(Step(t))

-----------------------------------------------------------------------------
\* Neither array on the stack is overrun, and the buffer is left with room for
\* the next character.
TypeOK ==
    /\ calls \in [Threads -> 0..MaxCalls]
    /\ \A t \in Threads :
          /\ printf[t].msg \in DOMAIN Messages
          /\ Len(printf[t].buf) < PRINT_BUFF_SIZE
          /\ Len(printf[t].num_buff) <= NUM_BUFF_SIZE
          /\ printf[t].number \in 0..2^Width - 1

\* Reference: the positional numeral of n.
Numeral(n, base, digits) ==
    LET len == CHOOSE k \in 1..Width : /\ n < base^k
                                       /\ k = 1 \/ n >= base^(k - 1)
    IN  [i \in 1..len |-> digits[((n \div base^(len - i)) % base) + 1]]

\* Reference: what a piece of a message stands for.
PieceText(p) ==
    LET abs(n) == IF n < 0 THEN -n ELSE n
        unsigned(n) == IF n < 0 THEN n + 2^Width ELSE n
    IN  CASE p.tag \in {"", "s"} -> p.arg
          [] p.tag = "c" -> <<p.arg>>
          [] p.tag = "%" -> <<"%">>
          [] p.tag \in {"d", "i"} ->
                (IF p.arg < 0 THEN <<"-">> ELSE <<>>) \o Numeral(abs(p.arg), 10, hex_digits_lo)
          [] p.tag = "u" -> Numeral(unsigned(p.arg), 10, hex_digits_lo)
          [] p.tag = "x" -> Numeral(unsigned(p.arg), 16, hex_digits_lo)
          [] p.tag = "X" -> Numeral(unsigned(p.arg), 16, hex_digits_up)
          [] p.tag = "p" -> <<"0", "x">> \o Numeral(unsigned(p.arg), 16, hex_digits_lo)
          [] p.tag = "end" -> UnsupportedTag
          [] OTHER -> UnsupportedTag \o <<p.tag>>

Rendering(m) == FlattenSeq([i \in DOMAIN m |-> PieceText(m[i])])

PiecesOf(t) == LET ofLastCall(p) == p.thread = t /\ p.call = calls[t]
                   pieces == SelectSeq(console, ofLastCall)
               IN  [i \in DOMAIN pieces |-> pieces[i].bytes]
Printed(t) == FlattenSeq(PiecesOf(t))

\* Whatever other threads print between its pieces, a call prints the text its
\* format and arguments stand for, every character once and in order: numbers
\* up to both ends of their range, text that fills the buffer exactly, tags
\* that are not supported and a '%' at the end of the format.
OutputIsRendering ==
    \A t \in Threads : calls[t] > 0 =>
       LET whole == Rendering(Messages[printf[t].msg])
       IN  /\ IsPrefix(Printed(t) \o printf[t].buf, whole)
           /\ ~printf[t].active => Printed(t) = whole

\* A message is cut only where the buffer is full: text shorter than the buffer
\* reaches the console in one piece, and nothing empty is ever printed.
CutOnlyWhenFull ==
    \A t \in Threads :
       LET pieces == PiecesOf(t)
       IN  \A i \in DOMAIN pieces :
              /\ Len(pieces[i]) \in 1..PRINT_BUFF_SIZE
              /\ i < Len(pieces) \/ printf[t].active => Len(pieces[i]) = PRINT_BUFF_SIZE

\* What tfm_log_raw.h says a call returns: the number of characters printed.
\* The last piece, when it is not a full buffer, is counted twice.
CountIsPrinted ==
    \A t \in Threads : calls[t] > 0 /\ ~printf[t].active => printf[t].count = Len(Printed(t))

\* Every call of tfm_log_printf returns: neither the scan, which does not
\* consume an unsupported tag, nor the digit loops run on.
EveryPrintReturns == \A t \in Threads : printf[t].active ~> ~printf[t].active
=============================================================================
