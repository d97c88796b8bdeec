------------------------------ MODULE ExecArgs ------------------------------
(***************************************************************************)
(* parse_exec_command_argv (src/src/core/main.c): the command of an exec   *)
(* task is split into arguments within its own buffer.  The write position *)
(* follows the read position, behind it by the quotes that were removed;   *)
(* the NUL that ends an argument goes where the write position is.         *)
(* Commands models what is then executed.                                  *)
(***************************************************************************)
EXTENDS Naturals, Sequences, FiniteSets

CONSTANTS Letters,   \* characters that stand for themselves
          Quotes,    \* the quotes
          Blank,     \* white space
          NUL,       \* the end of a string
          MaxLength  \* bound: the length of a command

\* The end of a string is no character of one, white space no quote.
CharactersDistinct ==
  /\ NUL \notin Letters \cup Quotes \cup {Blank}
  /\ Blank \notin Quotes

VARIABLES at,      \* between arguments, in one, in a quoted part of one
          text,    \* the command of the task
          buf,     \* its copy, which is taken apart
          p,       \* the next character to read
          start,   \* token_start: where the argument under way begins
          write,   \* where the next character of the argument goes
          quote,   \* the quote that opened the quoted part
          argv     \* where the arguments begin that are complete

splitVars == <<at, text, buf, p, start, write, quote, argv>>

Texts == UNION {[1 .. n -> Letters \cup Quotes \cup {Blank}] : n \in 0 .. MaxLength}

SplitInit ==
  /\ at = "between"
  /\ text \in Texts
  /\ buf = Append(text, NUL)
  /\ p = 1
  /\ start = 1
  /\ write = 1
  /\ quote = NUL
  /\ argv = <<>>

SkipBlank ==
  /\ at = "between"
  /\ buf[p] = Blank
  /\ p' = p + 1
  /\ UNCHANGED <<at, text, buf, start, write, quote, argv>>

BeginArgument ==
  /\ at = "between"
  /\ buf[p] \notin {Blank, NUL}
  /\ at' = "argument"
  /\ start' = p
  /\ write' = p
  /\ UNCHANGED <<text, buf, p, quote, argv>>

\* A character of the argument goes to the write position.
Copy ==
  /\ \/ at = "argument" /\ buf[p] \in Letters
     \/ at = "quoted" /\ buf[p] \notin {quote, NUL}
  /\ buf' = [buf EXCEPT ![write] = buf[p]]
  /\ p' = p + 1
  /\ write' = write + 1
  /\ UNCHANGED <<at, text, start, quote, argv>>

OpenQuote ==
  /\ at = "argument"
  /\ buf[p] \in Quotes
  /\ at' = "quoted"
  /\ quote' = buf[p]
  /\ p' = p + 1
  /\ UNCHANGED <<text, buf, start, write, argv>>

\* The quoted part ends with its quote, or with the command.
CloseQuote ==
  /\ at = "quoted"
  /\ buf[p] \in {quote, NUL}
  /\ at' = "argument"
  /\ p' = IF buf[p] = quote THEN p + 1 ELSE p
  /\ UNCHANGED <<text, buf, start, write, quote, argv>>

\* The NUL is written first; then the character at the read position tells
\* whether there is more.
EndArgument ==
  /\ at = "argument"
  /\ buf[p] \in {Blank, NUL}
  /\ buf' = [buf EXCEPT ![write] = NUL]
  /\ p' = IF buf'[p] # NUL THEN p + 1 ELSE p
  /\ argv' = Append(argv, start)
  /\ at' = "between"
  /\ UNCHANGED <<text, start, write, quote>>

Finish ==
  /\ at = "between"
  /\ buf[p] = NUL
  /\ at' = "done"
  /\ UNCHANGED <<text, buf, p, start, write, quote, argv>>

SplitNext ==
  \/ SkipBlank \/ BeginArgument \/ Copy \/ OpenQuote \/ CloseQuote \/ EndArgument \/ Finish

SplitSpec == SplitInit /\ [][SplitNext]_splitVars

-----------------------------------------------------------------------------
\* max_argv: the elements the vector is given.
Capacity == Len(text) \div 2 + 2

\* "every token needs at least one separator" (main.c:565): the arguments and
\* the NULL behind them fit the vector, whatever quotes and blanks there are.
ArgumentsFit == Len(argv) < Capacity

\* Nothing is read or written outside the buffer, and the argument is never
\* written ahead of what is read.
WithinBuffer ==
  /\ p \in 1 .. Len(text) + 1
  /\ 1 <= start /\ start <= write /\ write <= p

\* What is not read yet is as it was sent, but for the one separator that an
\* argument without quotes loses to its NUL.
UnreadIntact ==
  \A i \in p .. Len(text) :
    \/ buf[i] = text[i]
    \/ i = p /\ at \in {"between", "done"} /\ text[i] = Blank /\ buf[i] = NUL

InArgument == at \in {"argument", "quoted"}

\* Where argument k, which is complete, has ended at the latest.
Upto(k) ==
  IF k < Len(argv) THEN argv[k + 1] - 1 ELSE IF InArgument THEN start - 1 ELSE write

\* The arguments that are complete are strings of their own: each has its NUL
\* before the next one begins ...
Terminated == \A k \in DOMAIN argv : \E e \in argv[k] .. Upto(k) : buf[e] = NUL

\* ... and is left alone from then on.
ArgumentsFinal ==
  [][\A k \in DOMAIN argv :
       argv'[k] = argv[k] /\ \A i \in 1 .. Upto(k) : buf'[i] = buf[i]]_splitVars

-----------------------------------------------------------------------------
\* The quote that is open before character i of the command, or NUL.
Open ==
  LET open[i \in 1 .. Len(text)] ==
        IF i = 1 THEN NUL
        ELSE LET before == open[i - 1]
                 c == text[i - 1]
             IN  IF before = NUL THEN IF c \in Quotes THEN c ELSE NUL
                 ELSE IF c = before THEN NUL ELSE before
  IN  open

\* The separators of the command, and where its words begin.
Separators == {i \in DOMAIN text : text[i] = Blank /\ Open[i] = NUL}
Words == {i \in DOMAIN text \ Separators : i = 1 \/ i - 1 \in Separators}

\* "Tokens are split on whitespace; runs enclosed in single or double quotes
\* are kept together" (main.c:547): every word of the command is an argument
\* of what is executed.
EveryWordPassed == at = "done" => Len(argv) = Cardinality(Words)
=============================================================================
