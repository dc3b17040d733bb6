------------------------------ MODULE Console -------------------------------
(***************************************************************************)
(* The Console singleton (console/console.cpp).  One thread is in read: it *)
(* waits in getchar() without the mutex and takes m_console_mtx for each   *)
(* character.  Other threads call write at any time.  A critical section   *)
(* is several steps here, one per change of the members and per statement  *)
(* that writes to cout:                                                    *)
(*                                                                         *)
(*   read   idle -> prompt -> getchar -> got -> echo -> getchar            *)
(*                                       got -> done -> idle               *)
(*   write  idle -> size -> idle                                           *)
(*                  size -> erased -> text -> idle                         *)
(*                                                                         *)
(* The terminal is external: a current line with a cursor, as wide as it   *)
(* needs to be, and the finished lines above it.                           *)
(***************************************************************************)
EXTENDS Naturals, Sequences

CONSTANTS
  Writers,    \* threads that call write
  Chars,      \* characters a user types, DEL and newline excepted
  Blank,      \* the space character
  Prompts,    \* arguments of read
  Strings,    \* arguments of write
  MaxInput,   \* bound: characters of one input
  MaxLines    \* bound: finished lines of the terminal

Text == Seq(Chars \cup {Blank})

ASSUME ConsoleAssumption ==
  /\ MaxInput \in Nat
  /\ MaxLines \in Nat
  /\ Prompts \subseteq Text
  /\ Strings \subseteq Text

\* The mutex distinguishes a writer from the reader and from nobody.
ASSUME WriterAssumption == "free" \notin Writers /\ "reader" \notin Writers

VARIABLES
  m_console_mtx,   \* "free", or the thread that holds it
  m_prompt,
  m_user_input,
  read_pc,
  next_char,       \* the reader's local variable
  write_pc,
  s,               \* the argument of each writer's call
  size,            \* each writer's current_input_size
  line,            \* terminal: the characters of the current line
  col,             \* terminal: the column of the cursor
  screen,          \* terminal: the finished lines
  log              \* history: the texts given to write and taken by read

members  == <<m_prompt, m_user_input>>
reader   == <<read_pc, next_char>>
writers  == <<write_pc, s, size>>
terminal == <<line, col, screen>>
vars     == <<m_console_mtx, members, reader, writers, terminal, log>>

Blanks(n) == [i \in 1 .. n |-> Blank]

Init ==
  /\ m_console_mtx = "free"
  /\ m_prompt = << >>
  /\ m_user_input = << >>
  /\ read_pc = "idle"
  /\ next_char = Blank
  /\ write_pc = [w \in Writers |-> "idle"]
  /\ s = [w \in Writers |-> << >>]
  /\ size = [w \in Writers |-> 0]
  /\ line = << >>
  /\ col = 0
  /\ screen = << >>
  /\ log = << >>

-----------------------------------------------------------------------------
(* The terminal.                                                           *)

\* The line l after text t has been written at column c.
Over(l, c, t) ==
  [i \in 1 .. (IF c + Len(t) > Len(l) THEN c + Len(t) ELSE Len(l)) |->
     IF i \in c + 1 .. c + Len(t) THEN t[i - c] ELSE l[i]]

Emit(t) ==
  /\ line' = Over(line, col, t)
  /\ col' = col + Len(t)
  /\ UNCHANGED screen

\* Text t at the start of the line, then endl.
EmitLine(t) ==
  /\ Len(screen) < MaxLines
  /\ screen' = Append(screen, Over(line, col, t))

Lock(t) == m_console_mtx = "free" /\ m_console_mtx' = t

Unlock == m_console_mtx' = "free"

-----------------------------------------------------------------------------
(* Console::read                                                           *)

Read ==
  /\ read_pc = "idle"
  /\ Lock("reader")
  /\ \E p \in Prompts : m_prompt' = p
  /\ read_pc' = "prompt"
  /\ UNCHANGED <<m_user_input, next_char, writers, terminal, log>>

PrintPrompt ==
  /\ read_pc = "prompt"
  /\ Emit(m_prompt)
  /\ Unlock
  /\ read_pc' = "getchar"
  /\ UNCHANGED <<members, next_char, writers, log>>

GetChar ==
  /\ read_pc = "getchar"
  /\ \E ch \in Chars \cup {Blank, "kDelete", "kNewLine"} : next_char' = ch
  /\ read_pc' = "got"
  /\ UNCHANGED <<m_console_mtx, members, writers, terminal, log>>

Typed == next_char \notin {"kDelete", "kNewLine"}

TakeChar_NoLock ==
  /\ read_pc = "got"
  /\ Typed
  /\ Len(m_user_input) < MaxInput
  /\ m_user_input' = Append(m_user_input, next_char)
  /\ read_pc' = "echo"
  /\ m_console_mtx' = "reader"
  /\ UNCHANGED <<m_prompt, next_char, writers, terminal, log>>

\* The switch, up to the output of a case.  Nothing is printed if there was
\* nothing to erase.
TakeChar ==
  /\ read_pc = "got"
  /\ \/ /\ Typed
        /\ Len(m_user_input) < MaxInput
        /\ Lock("reader")
        /\ m_user_input' = Append(m_user_input, next_char)
        /\ read_pc' = "echo"
     \/ /\ next_char = "kDelete" /\ m_user_input # << >>
        /\ Lock("reader")
        /\ m_user_input' = SubSeq(m_user_input, 1, Len(m_user_input) - 1)
        /\ read_pc' = "echo"
     \/ /\ next_char = "kDelete" /\ m_user_input = << >>
        /\ m_console_mtx = "free"
        /\ read_pc' = "getchar"
        /\ UNCHANGED <<m_console_mtx, m_user_input>>
     \/ /\ next_char = "kNewLine"
        /\ Lock("reader")
        /\ read_pc' = "done"
        /\ UNCHANGED m_user_input
  /\ UNCHANGED <<m_prompt, next_char, writers, terminal, log>>

\* The character, or "\b \b".
Echo ==
  /\ read_pc = "echo"
  /\ \/ Typed /\ Emit(<<next_char>>)
     \/ /\ next_char = "kDelete"
        /\ line' = Over(line, col - 1, <<Blank>>)
        /\ col' = col - 1
        /\ UNCHANGED screen
  /\ Unlock
  /\ read_pc' = "getchar"
  /\ UNCHANGED <<members, next_char, writers, log>>

ReturnInput_KeepsPrompt ==
  /\ read_pc = "done"
  /\ EmitLine(<< >>)
  /\ line' = << >> /\ col' = 0
  /\ log' = Append(log, m_prompt \o m_user_input)
  /\ m_user_input' = << >>
  /\ Unlock
  /\ read_pc' = "idle"
  /\ UNCHANGED <<m_prompt, next_char, writers>>

ReturnInput ==
  /\ read_pc = "done"
  /\ EmitLine(<< >>)
  /\ line' = << >> /\ col' = 0
  /\ log' = Append(log, m_prompt \o m_user_input)
  /\ m_user_input' = << >>
  /\ m_prompt' = << >>
  /\ Unlock
  /\ read_pc' = "idle"
  /\ UNCHANGED <<next_char, writers>>

-----------------------------------------------------------------------------
(* Console::write                                                          *)

Write(w) ==
  /\ write_pc[w] = "idle"
  /\ Lock(w)
  /\ \E t \in Strings : s' = [s EXCEPT ![w] = t]
  /\ size' = [size EXCEPT ![w] = Len(m_prompt) + Len(m_user_input)]
  /\ write_pc' = [write_pc EXCEPT ![w] = "size"]
  /\ UNCHANGED <<members, reader, terminal, log>>

EndWrite(w) ==
  /\ write_pc' = [write_pc EXCEPT ![w] = "idle"]
  /\ s' = [s EXCEPT ![w] = << >>]
  /\ size' = [size EXCEPT ![w] = 0]

\* There is no line to keep.
WritePlain(w) ==
  /\ write_pc[w] = "size" /\ size[w] = 0
  /\ EmitLine(s[w])
  /\ line' = << >> /\ col' = 0
  /\ log' = Append(log, s[w])
  /\ Unlock
  /\ EndWrite(w)
  /\ UNCHANGED <<members, reader>>

EraseLine_OneShort(w) ==
  /\ write_pc[w] = "size" /\ size[w] # 0
  /\ line' = Over(line, 0, Blanks(size[w] - 1))
  /\ col' = 0
  /\ write_pc' = [write_pc EXCEPT ![w] = "erased"]
  /\ UNCHANGED <<m_console_mtx, members, reader, s, size, screen, log>>

\* '\r', blanks, '\r'
EraseLine(w) ==
  /\ write_pc[w] = "size" /\ size[w] # 0
  /\ line' = Over(line, 0, Blanks(size[w]))
  /\ col' = 0
  /\ write_pc' = [write_pc EXCEPT ![w] = "erased"]
  /\ UNCHANGED <<m_console_mtx, members, reader, s, size, screen, log>>

WriteText(w) ==
  /\ write_pc[w] = "erased"
  /\ EmitLine(s[w])
  /\ line' = << >> /\ col' = 0
  /\ log' = Append(log, s[w])
  /\ write_pc' = [write_pc EXCEPT ![w] = "text"]
  /\ UNCHANGED <<m_console_mtx, members, reader, s, size>>

ReprintInput(w) ==
  /\ write_pc[w] = "text"
  /\ Emit(m_prompt \o m_user_input)
  /\ Unlock
  /\ EndWrite(w)
  /\ UNCHANGED <<members, reader, log>>

-----------------------------------------------------------------------------
Reader == Read \/ PrintPrompt \/ GetChar \/ TakeChar \/ Echo \/ ReturnInput

Writer(w) ==
  \/ Write(w) \/ WritePlain(w)
  \/ EraseLine(w) \/ WriteText(w) \/ ReprintInput(w)

Next == Reader \/ \E w \in Writers : Writer(w)

Spec == Init /\ [][Next]_vars

-----------------------------------------------------------------------------
(* Properties                                                              *)

\* The thread inside of a critical section is the one that has the mutex.
TypeOK ==
  /\ m_console_mtx \in {"free", "reader"} \cup Writers
  /\ m_prompt \in Text
  /\ m_user_input \in Text
  /\ read_pc \in {"idle", "prompt", "getchar", "got", "echo", "done"}
  /\ next_char \in Chars \cup {Blank, "kDelete", "kNewLine"}
  /\ write_pc \in [Writers -> {"idle", "size", "erased", "text"}]
  /\ s \in [Writers -> Text]
  /\ size \in [Writers -> Nat]
  /\ line \in Text
  /\ col \in Nat
  /\ screen \in Seq(Text)
  /\ log \in Seq(Text)
  /\ m_console_mtx = "reader" <=> read_pc \in {"prompt", "echo", "done"}
  /\ \A w \in Writers : m_console_mtx = w <=> write_pc[w] # "idle"

\* Line l shows text t and otherwise blanks.
Shows(l, t) ==
  /\ Len(l) >= Len(t)
  /\ \A i \in 1 .. Len(l) : l[i] = IF i <= Len(t) THEN t[i] ELSE Blank

\* console.h: the prompt is always shown as the last line.  Whenever no call
\* is inside of its critical section, the current line is the prompt and all
\* that was typed, and the cursor is at its end.
PromptIsLastLine ==
  m_console_mtx = "free" =>
    /\ Shows(line, m_prompt \o m_user_input)
    /\ col = Len(m_prompt) + Len(m_user_input)

\* console.h: text is displayed above the prompt.  The finished lines are the
\* texts written and the inputs returned, whole, in the order of the calls:
\* no rest of an erased input stays behind a text, and no line is overwritten.
LinesAreWhole ==
  /\ Len(screen) = Len(log)
  /\ \A i \in 1 .. Len(screen) : Shows(screen[i], log[i])

-----------------------------------------------------------------------------
(* The inductive invariant behind PromptIsLastLine and LinesAreWhole: what *)
(* the terminal shows at each point of a critical section.                 *)

Current == m_prompt \o m_user_input

\* The line shows the prompt and the input, with the cursor behind them.
AtPrompt == Shows(line, Current) /\ col = Len(Current)

\* Blanks, with the cursor in front.
AtBlankLine == Shows(line, << >>) /\ col = 0

\* The last character of the input is not on the line yet ...
BeforeEcho ==
  /\ Current # << >> /\ Current[Len(Current)] = next_char
  /\ Shows(line, SubSeq(Current, 1, Len(Current) - 1))
  /\ col = Len(Current) - 1

\* ... or one that was deleted is still on it.
BeforeErase ==
  /\ Len(line) > Len(Current)
  /\ \A i \in 1 .. Len(line) : i # Len(Current) + 1 =>
       line[i] = IF i <= Len(Current) THEN Current[i] ELSE Blank
  /\ col = Len(Current) + 1

ReaderState ==
  /\ read_pc = "idle" => m_prompt = << >>
  /\ read_pc \in {"idle", "prompt"} => m_user_input = << >>
  /\ read_pc = "prompt" => AtBlankLine
  /\ read_pc = "echo" /\ Typed => BeforeEcho
  /\ read_pc = "echo" /\ ~Typed => next_char = "kDelete" /\ BeforeErase
  /\ read_pc = "done" => AtPrompt

WriterState ==
  \A w \in Writers :
    /\ write_pc[w] = "size" => size[w] = Len(Current) /\ AtPrompt
    /\ write_pc[w] = "erased" => AtBlankLine
    /\ write_pc[w] = "text" => line = << >> /\ col = 0

FreeState == m_console_mtx = "free" => AtPrompt

ConsoleInv ==
  TypeOK /\ ReaderState /\ WriterState /\ FreeState /\ LinesAreWhole

=============================================================================
