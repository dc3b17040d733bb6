--------------------------- MODULE Console_proofs ---------------------------
(* Proofs about Console, for every value of its constants.                 *)
EXTENDS Console, SequenceTheorems, TLAPS

-----------------------------------------------------------------------------
(* Prompt and input: a character more, a character less.                   *)

LEMMA PrefixProperties ==
  ASSUME NEW S, NEW u \in Seq(S), NEW n \in 0 .. Len(u)
  PROVE  /\ SubSeq(u, 1, n) \in Seq(S)
         /\ Len(SubSeq(u, 1, n)) = n
         /\ \A i \in 1 .. n : SubSeq(u, 1, n)[i] = u[i]
<1>1. SubSeq(u, 1, n) \in Seq(S)
  OBVIOUS
<1>2. Len(SubSeq(u, 1, n)) = n
  OBVIOUS
<1>3. \A i \in 1 .. n : SubSeq(u, 1, n)[i] = u[i]
  OBVIOUS
<1> QED
  BY <1>1, <1>2, <1>3

LEMMA FrontProperties ==
  ASSUME NEW S, NEW u \in Seq(S), Len(u) > 0
  PROVE  /\ SubSeq(u, 1, Len(u) - 1) \in Seq(S)
         /\ Len(SubSeq(u, 1, Len(u) - 1)) = Len(u) - 1
         /\ \A i \in 1 .. Len(u) - 1 : SubSeq(u, 1, Len(u) - 1)[i] = u[i]
<1> DEFINE n == Len(u) - 1
<1>1. n \in 0 .. Len(u)
  OBVIOUS
<1> HIDE DEF n
<1>2. /\ SubSeq(u, 1, n) \in Seq(S)
      /\ Len(SubSeq(u, 1, n)) = n
      /\ \A i \in 1 .. n : SubSeq(u, 1, n)[i] = u[i]
  BY <1>1, PrefixProperties
<1> QED
  BY <1>2 DEF n

LEMMA PromptAndTyped ==
  ASSUME NEW S, NEW p \in Seq(S), NEW u \in Seq(S), NEW ch \in S
  PROVE  /\ p \o Append(u, ch) \in Seq(S)
         /\ Len(p \o Append(u, ch)) = Len(p \o u) + 1
         /\ (p \o Append(u, ch))[Len(p \o u) + 1] = ch
         /\ SubSeq(p \o Append(u, ch), 1, Len(p \o u)) = p \o u
<1> DEFINE a == p \o u
           b == p \o Append(u, ch)
<1>1. /\ a \in Seq(S)
      /\ Len(a) = Len(p) + Len(u)
      /\ \A i \in 1 .. Len(p) + Len(u) :
           a[i] = IF i <= Len(p) THEN p[i] ELSE u[i - Len(p)]
  BY ConcatProperties
<1>2. /\ Append(u, ch) \in Seq(S)
      /\ Len(Append(u, ch)) = Len(u) + 1
      /\ \A i \in 1 .. Len(u) : Append(u, ch)[i] = u[i]
      /\ Append(u, ch)[Len(u) + 1] = ch
  BY AppendProperties
<1>3. b = Append(a, ch)
  OBVIOUS
<1> HIDE DEF b, a
<1>4. /\ b \in Seq(S)
      /\ Len(b) = Len(a) + 1
      /\ \A i \in 1 .. Len(a) : b[i] = a[i]
      /\ b[Len(a) + 1] = ch
  <2>1. /\ Append(a, ch) \in Seq(S)
        /\ Len(Append(a, ch)) = Len(a) + 1
        /\ \A i \in 1 .. Len(a) : Append(a, ch)[i] = a[i]
        /\ Append(a, ch)[Len(a) + 1] = ch
    BY <1>1, AppendProperties
  <2> QED
    BY <1>3, <2>1
<1>5. Len(b) > 0 /\ Len(b) - 1 = Len(a)
  BY <1>1, <1>4
<1>6. /\ SubSeq(b, 1, Len(b) - 1) \in Seq(S)
      /\ Len(SubSeq(b, 1, Len(b) - 1)) = Len(b) - 1
      /\ \A i \in 1 .. Len(b) - 1 : SubSeq(b, 1, Len(b) - 1)[i] = b[i]
  BY <1>4, <1>5, FrontProperties
<1>7. SubSeq(b, 1, Len(a)) = a
  BY <1>1, <1>4, <1>5, <1>6, SeqEqual
<1> QED
  BY <1>4, <1>7 DEF a, b

LEMMA PromptAndDeleted ==
  ASSUME NEW S, NEW p \in Seq(S), NEW u \in Seq(S), u # << >>
  PROVE  LET d == p \o SubSeq(u, 1, Len(u) - 1) IN
         /\ d \in Seq(S)
         /\ Len(p \o u) = Len(d) + 1
         /\ \A i \in 1 .. Len(d) : d[i] = (p \o u)[i]
<1> DEFINE v == SubSeq(u, 1, Len(u) - 1)
           a == p \o u
           d == p \o v
<1>0. Len(u) > 0
  OBVIOUS
<1>1. /\ a \in Seq(S)
      /\ Len(a) = Len(p) + Len(u)
      /\ \A i \in 1 .. Len(p) + Len(u) :
           a[i] = IF i <= Len(p) THEN p[i] ELSE u[i - Len(p)]
  BY ConcatProperties
<1>2. /\ v \in Seq(S)
      /\ Len(v) = Len(u) - 1
      /\ \A i \in 1 .. Len(u) - 1 : v[i] = u[i]
  BY <1>0, FrontProperties
<1> HIDE DEF v, a
<1>3. /\ d \in Seq(S)
      /\ Len(d) = Len(p) + Len(v)
      /\ \A i \in 1 .. Len(p) + Len(v) :
           d[i] = IF i <= Len(p) THEN p[i] ELSE v[i - Len(p)]
  BY <1>2, ConcatProperties
<1> HIDE DEF d
<1>4. ASSUME NEW i \in 1 .. Len(d)
      PROVE  d[i] = a[i]
  <2>1. Len(p) \in Nat /\ Len(u) \in Nat /\ i \in 1 .. Len(p) + (Len(u) - 1)
    BY <1>2, <1>3
  <2>2. CASE i <= Len(p)
    BY <1>1, <1>2, <1>3, <2>1, <2>2
  <2>3. CASE ~(i <= Len(p))
    <3>1. i - Len(p) \in 1 .. Len(u) - 1
      BY <1>0, <2>1, <2>3
    <3> QED
      <4>1. d[i] = v[i - Len(p)]
        BY <1>2, <1>3, <2>1, <2>3
      <4>2. i \in 1 .. Len(p) + Len(u)
        BY <2>1
      <4>3. a[i] = u[i - Len(p)]
        BY <1>1, <2>3, <4>2
      <4> QED
        BY <1>2, <3>1, <4>1, <4>3
  <2> QED
    BY <2>2, <2>3
<1>5. Len(a) = Len(d) + 1
  BY <1>1, <1>2, <1>3
<1> QED
  BY <1>3, <1>4, <1>5 DEF v, a, d

-----------------------------------------------------------------------------
(* The terminal.                                                           *)

\* Writing t at a column of line l keeps the characters beside it.
LEMMA OverProperties ==
  ASSUME NEW l \in Text, NEW c \in 0 .. Len(l), NEW t \in Text
  PROVE  /\ Over(l, c, t) \in Text
         /\ Len(Over(l, c, t)) = IF c + Len(t) > Len(l) THEN c + Len(t) ELSE Len(l)
         /\ \A i \in 1 .. Len(Over(l, c, t)) :
              Over(l, c, t)[i] =
                IF i \in c + 1 .. c + Len(t) THEN t[i - c] ELSE l[i]
<1> DEFINE S == Chars \cup {Blank}
           n == IF c + Len(t) > Len(l) THEN c + Len(t) ELSE Len(l)
<1>1. n \in Nat /\ Len(l) \in Nat /\ Len(t) \in Nat
  BY DEF Text
<1>2. ASSUME NEW i \in 1 .. n
      PROVE  (IF i \in c + 1 .. c + Len(t) THEN t[i - c] ELSE l[i]) \in S
  <2>1. CASE i \in c + 1 .. c + Len(t)
    <3>1. i - c \in 1 .. Len(t)
      BY <1>1, <2>1
    <3> QED
      BY <2>1, <3>1, ElementOfSeq DEF Text
  <2>2. CASE i \notin c + 1 .. c + Len(t)
    <3>1. i \in 1 .. Len(l)
      BY <1>1, <2>2
    <3> QED
      BY <2>2, <3>1, ElementOfSeq DEF Text
  <2> QED
    BY <2>1, <2>2
<1>3. Over(l, c, t) =
        [i \in 1 .. n |-> IF i \in c + 1 .. c + Len(t) THEN t[i - c] ELSE l[i]]
  BY DEF Over
<1> HIDE DEF n
<1>4. Over(l, c, t) \in [1 .. n -> S]
  BY <1>2, <1>3
<1>5. Over(l, c, t) \in Text /\ Len(Over(l, c, t)) = n
  BY <1>1, <1>4 DEF Text
<1> QED
  BY <1>3, <1>5 DEF n

\* Text written over a blank line is all that the line shows.
LEMMA OverBlank ==
  ASSUME NEW l \in Text, Shows(l, << >>), NEW t \in Text
  PROVE  Over(l, 0, t) \in Text /\ Shows(Over(l, 0, t), t)
<1> DEFINE o == Over(l, 0, t)
<1>1. /\ Len(l) \in Nat /\ Len(t) \in Nat
      /\ 0 \in 0 .. Len(l)
      /\ \A i \in 1 .. Len(l) : l[i] = Blank
  BY DEF Text, Shows
<1>2. /\ o \in Text
      /\ Len(o) = IF 0 + Len(t) > Len(l) THEN 0 + Len(t) ELSE Len(l)
      /\ \A i \in 1 .. Len(o) :
           o[i] = IF i \in 0 + 1 .. 0 + Len(t) THEN t[i - 0] ELSE l[i]
  BY <1>1, OverProperties
<1> HIDE DEF o
<1>3. ASSUME NEW i \in 1 .. Len(o)
      PROVE  o[i] = IF i <= Len(t) THEN t[i] ELSE Blank
  <2>1. CASE i <= Len(t)
    <3>1. i \in 0 + 1 .. 0 + Len(t) /\ i - 0 = i
      BY <1>1, <2>1
    <3> QED
      BY <1>2, <2>1, <3>1
  <2>2. CASE ~(i <= Len(t))
    <3>1. i \notin 0 + 1 .. 0 + Len(t) /\ i \in 1 .. Len(l)
      BY <1>1, <1>2, <2>2
    <3> QED
      BY <1>1, <1>2, <2>2, <3>1
  <2> QED
    BY <2>1, <2>2
<1> QED
  BY <1>1, <1>2, <1>3 DEF Shows, o

\* Writing nothing changes nothing.
LEMMA OverNothing ==
  ASSUME NEW l \in Text, NEW c \in 0 .. Len(l), NEW t \in Text, Len(t) = 0
  PROVE  Over(l, c, t) = l
<1> DEFINE o == Over(l, c, t)
<1>1. /\ o \in Text
      /\ Len(o) = IF c + Len(t) > Len(l) THEN c + Len(t) ELSE Len(l)
      /\ \A i \in 1 .. Len(o) :
           o[i] = IF i \in c + 1 .. c + Len(t) THEN t[i - c] ELSE l[i]
  BY OverProperties
<1> HIDE DEF o
<1>2. Len(o) = Len(l) /\ \A i \in 1 .. Len(o) : o[i] = l[i]
  BY <1>1 DEF Text
<1> QED
  BY <1>1, <1>2, SeqEqual DEF Text, o

\* Blanks over the text a line shows leave a blank line.
LEMMA OverErase ==
  ASSUME NEW l \in Text, NEW t \in Text, Shows(l, t)
  PROVE  /\ Over(l, 0, Blanks(Len(t))) \in Text
         /\ Shows(Over(l, 0, Blanks(Len(t))), << >>)
<1> DEFINE b == Blanks(Len(t))
           o == Over(l, 0, b)
<1>1. /\ Len(l) \in Nat /\ Len(t) \in Nat
      /\ 0 \in 0 .. Len(l)
      /\ Len(l) >= Len(t)
      /\ \A i \in 1 .. Len(l) : i > Len(t) => l[i] = Blank
  BY DEF Text, Shows
<1>2. b \in Text /\ Len(b) = Len(t) /\ \A i \in 1 .. Len(t) : b[i] = Blank
  BY <1>1 DEF Blanks, Text
<1> HIDE DEF b
<1>3. /\ o \in Text
      /\ Len(o) = IF 0 + Len(b) > Len(l) THEN 0 + Len(b) ELSE Len(l)
      /\ \A i \in 1 .. Len(o) :
           o[i] = IF i \in 0 + 1 .. 0 + Len(b) THEN b[i - 0] ELSE l[i]
  BY <1>1, <1>2, OverProperties
<1> HIDE DEF o
<1>4. \A i \in 1 .. Len(o) : o[i] = Blank
  BY <1>1, <1>2, <1>3
<1> QED
  BY <1>3, <1>4 DEF Shows, Text, b, o

\* Echoing the last character of a text completes the text on the line.
LEMMA OverTyped ==
  ASSUME NEW l \in Text, NEW t \in Text, Len(t) > 0,
         Shows(l, SubSeq(t, 1, Len(t) - 1))
  PROVE  /\ Over(l, Len(t) - 1, <<t[Len(t)]>>) \in Text
         /\ Shows(Over(l, Len(t) - 1, <<t[Len(t)]>>), t)
<1> DEFINE n == Len(t)
           f == SubSeq(t, 1, n - 1)
           e == <<t[n]>>
           o == Over(l, n - 1, e)
<1>1. n \in Nat /\ n > 0 /\ Len(l) \in Nat
  BY DEF Text
<1>2. Len(f) = n - 1 /\ \A i \in 1 .. n - 1 : f[i] = t[i]
  BY <1>1, FrontProperties DEF Text
<1>3. Shows(l, f)
  OBVIOUS
<1>4. t[n] \in Chars \cup {Blank}
  BY <1>1, ElementOfSeq DEF Text
<1>5. e \in Text /\ Len(e) = 1 /\ e[1] = t[n]
  BY <1>4 DEF Text
<1> HIDE DEF n, f, e
<1>6. /\ Len(l) >= n - 1
      /\ \A i \in 1 .. Len(l) : l[i] = IF i <= n - 1 THEN t[i] ELSE Blank
  BY <1>1, <1>2, <1>3 DEF Shows
<1>7. n - 1 \in 0 .. Len(l)
  BY <1>1, <1>6
<1>8. /\ o \in Text
      /\ Len(o) = IF n - 1 + Len(e) > Len(l) THEN n - 1 + Len(e) ELSE Len(l)
      /\ \A i \in 1 .. Len(o) :
           o[i] = IF i \in n - 1 + 1 .. n - 1 + Len(e) THEN e[i - (n - 1)] ELSE l[i]
  BY <1>5, <1>7, OverProperties
<1> HIDE DEF o
<1>9. Len(o) >= n
  BY <1>1, <1>5, <1>6, <1>8
<1>10. ASSUME NEW i \in 1 .. Len(o)
       PROVE  o[i] = IF i <= n THEN t[i] ELSE Blank
  <2>0. Len(o) \in Nat
    BY <1>1, <1>5, <1>8
  <2>1. CASE i = n
    <3>1. i \in n - 1 + 1 .. n - 1 + Len(e) /\ i - (n - 1) = 1
      BY <1>1, <1>5, <2>1
    <3> QED
      BY <1>1, <1>5, <1>8, <2>1, <3>1
  <2>2. CASE i # n
    <3>1. i \notin n - 1 + 1 .. n - 1 + Len(e)
      BY <1>1, <1>5, <2>2
    <3>2. o[i] = l[i] /\ i \in 1 .. Len(l)
      BY <1>1, <1>5, <1>6, <1>8, <2>2, <3>1
    <3> QED
      BY <1>1, <1>6, <2>2, <3>2
  <2> QED
    BY <2>1, <2>2
<1> QED
  BY <1>8, <1>9, <1>10 DEF Shows, n, e, o

\* A blank over the character behind a text deletes that character.
LEMMA OverDeleted ==
  ASSUME NEW l \in Text, NEW t \in Text, Len(l) > Len(t),
         \A i \in 1 .. Len(l) : i # Len(t) + 1 =>
           l[i] = IF i <= Len(t) THEN t[i] ELSE Blank
  PROVE  /\ Over(l, Len(t), <<Blank>>) \in Text
         /\ Shows(Over(l, Len(t), <<Blank>>), t)
<1> DEFINE n == Len(t)
           e == <<Blank>>
           o == Over(l, n, e)
<1>1. n \in Nat /\ Len(l) \in Nat /\ Len(l) > n /\ n \in 0 .. Len(l)
  BY DEF Text
<1>2. e \in Text /\ Len(e) = 1 /\ e[1] = Blank
  BY DEF Text
<1>3. \A i \in 1 .. Len(l) : i # n + 1 => l[i] = IF i <= n THEN t[i] ELSE Blank
  OBVIOUS
<1> HIDE DEF n, e
<1>4. /\ o \in Text
      /\ Len(o) = IF n + Len(e) > Len(l) THEN n + Len(e) ELSE Len(l)
      /\ \A i \in 1 .. Len(o) :
           o[i] = IF i \in n + 1 .. n + Len(e) THEN e[i - n] ELSE l[i]
  BY <1>1, <1>2, OverProperties
<1> HIDE DEF o
<1>5. Len(o) = Len(l)
  BY <1>1, <1>2, <1>4
<1>6. ASSUME NEW i \in 1 .. Len(o)
      PROVE  o[i] = IF i <= n THEN t[i] ELSE Blank
  <2>1. CASE i = n + 1
    <3>1. i \in n + 1 .. n + Len(e) /\ i - n = 1
      BY <1>1, <1>2, <2>1
    <3> QED
      BY <1>1, <1>2, <1>4, <2>1, <3>1
  <2>2. CASE i # n + 1
    <3>1. i \notin n + 1 .. n + Len(e)
      BY <1>1, <1>2, <2>2
    <3> QED
      BY <1>1, <1>3, <1>4, <1>5, <2>2, <3>1
  <2> QED
    BY <2>1, <2>2
<1> QED
  BY <1>1, <1>4, <1>5, <1>6 DEF Shows, n, e, o


-----------------------------------------------------------------------------
(* The members and the mutex.                                              *)

LEMMA CurrentProperties ==
  ASSUME TypeOK
  PROVE  Current \in Text /\ Len(Current) = Len(m_prompt) + Len(m_user_input)
<1>1. m_prompt \in Seq(Chars \cup {Blank}) /\ m_user_input \in Seq(Chars \cup {Blank})
  BY DEF TypeOK, Text
<1> QED
  BY <1>1, ConcatProperties DEF Current, Text

\* The two texts the line may show when it is finished.
LEMMA NoInput ==
  ASSUME m_prompt \in Text, m_user_input = << >>
  PROVE  Current = m_prompt
<1>1. m_prompt \in Seq(Chars \cup {Blank})
  BY DEF Text
<1> QED
  BY <1>1, ConcatEmptySeq DEF Current

\* A finished line that shows the text logged for it keeps LinesAreWhole.
LEMMA LineFinished ==
  ASSUME TypeOK, LinesAreWhole,
         NEW l \in Text, NEW t \in Text, Shows(l, t),
         screen' = Append(screen, l), log' = Append(log, t)
  PROVE  screen' \in Seq(Text) /\ log' \in Seq(Text) /\ LinesAreWhole'
<1>1. screen \in Seq(Text) /\ log \in Seq(Text) /\ Len(screen) = Len(log)
  BY DEF TypeOK, LinesAreWhole
<1>2. /\ screen' \in Seq(Text) /\ Len(screen') = Len(screen) + 1
      /\ \A i \in 1 .. Len(screen) : screen'[i] = screen[i]
      /\ screen'[Len(screen) + 1] = l
  BY <1>1, AppendProperties
<1>3. /\ log' \in Seq(Text) /\ Len(log') = Len(log) + 1
      /\ \A i \in 1 .. Len(log) : log'[i] = log[i]
      /\ log'[Len(log) + 1] = t
  BY <1>1, AppendProperties
<1>4. ASSUME NEW i \in 1 .. Len(screen')
      PROVE  Shows(screen'[i], log'[i])
  <2>1. CASE i = Len(screen) + 1
    BY <1>1, <1>2, <1>3, <2>1
  <2>2. CASE i # Len(screen) + 1
    <3>1. i \in 1 .. Len(screen)
      BY <1>1, <1>2, <2>2
    <3>2. Shows(screen[i], log[i])
      BY <3>1 DEF LinesAreWhole
    <3> QED
      BY <1>1, <1>2, <1>3, <3>1, <3>2
  <2> QED
    BY <2>1, <2>2
<1> QED
  BY <1>1, <1>2, <1>3, <1>4 DEF LinesAreWhole

\* Inside of a critical section of the reader no writer is in its own, and
\* the other way around.
LEMMA Exclusion ==
  ASSUME TypeOK
  PROVE  /\ m_console_mtx \in {"free", "reader"} =>
              \A w \in Writers : write_pc[w] = "idle"
         /\ \A w \in Writers :
              m_console_mtx \in {"free", w} =>
                /\ read_pc \in {"idle", "getchar", "got"}
                /\ \A v \in Writers \ {w} : write_pc[v] = "idle"
BY WriterAssumption DEF TypeOK

LEMMA InitConsole ==
  ASSUME Init
  PROVE  ConsoleInv
<1>1. << >> \in Text /\ << >> \in Seq(Text) /\ Len(<< >>) = 0
  BY EmptySeq DEF Text
<1>2. TypeOK
  BY <1>1, WriterAssumption DEF Init, TypeOK
<1>3. Current = << >>
  BY <1>1, NoInput DEF Init
<1>4. AtPrompt
  BY <1>1, <1>3 DEF Init, AtPrompt, Shows
<1> QED
  BY <1>2, <1>4 DEF ConsoleInv, Init, ReaderState, WriterState, FreeState, LinesAreWhole


-----------------------------------------------------------------------------
(* Each step keeps the invariant.                                          *)

\* No writer holds the mutex after a step of the reader that had it or took
\* it.
LEMMA ReaderHolds ==
  ASSUME TypeOK, m_console_mtx \in {"free", "reader"},
         m_console_mtx' \in {"free", "reader"}, UNCHANGED writers
  PROVE  /\ WriterState'
         /\ write_pc' \in [Writers -> {"idle", "size", "erased", "text"}]
         /\ s' \in [Writers -> Text]
         /\ size' \in [Writers -> Nat]
         /\ \A w \in Writers : m_console_mtx' = w <=> write_pc'[w] # "idle"
<1>1. \A w \in Writers : write_pc'[w] = "idle"
  BY Exclusion DEF writers
<1> QED
  BY <1>1, WriterAssumption DEF TypeOK, writers, WriterState

LEMMA ReadStep ==
  ASSUME ConsoleInv, Read
  PROVE  ConsoleInv'
<1>1. TypeOK /\ ReaderState /\ FreeState /\ LinesAreWhole
  BY DEF ConsoleInv
<1>2. PICK p \in Prompts : m_prompt' = p
  BY DEF Read
<1>3. /\ read_pc = "idle" /\ read_pc' = "prompt"
      /\ m_console_mtx = "free" /\ m_console_mtx' = "reader"
      /\ UNCHANGED writers
      /\ UNCHANGED <<m_user_input, next_char, line, col, screen, log>>
  BY DEF Read, Lock, terminal
<1>4. WriterState' /\ TypeOK'
  BY <1>1, <1>2, <1>3, ReaderHolds, ConsoleAssumption DEF TypeOK
<1>5. m_prompt = << >> /\ m_user_input = << >> /\ AtPrompt
  BY <1>1, <1>3 DEF ReaderState, FreeState
<1>6. Current = << >>
  BY <1>1, <1>5, NoInput DEF TypeOK
<1>7. AtBlankLine'
  BY <1>3, <1>5, <1>6 DEF AtPrompt, AtBlankLine, Shows
<1>8. ReaderState'
  BY <1>3, <1>5, <1>7 DEF ReaderState
<1> QED
  BY <1>1, <1>3, <1>4, <1>8 DEF ConsoleInv, FreeState, LinesAreWhole

LEMMA PrintPromptStep ==
  ASSUME ConsoleInv, PrintPrompt
  PROVE  ConsoleInv'
<1>1. TypeOK /\ ReaderState /\ LinesAreWhole
  BY DEF ConsoleInv
<1>2. /\ read_pc = "prompt" /\ read_pc' = "getchar"
      /\ m_console_mtx' = "free"
      /\ line' = Over(line, col, m_prompt)
      /\ col' = col + Len(m_prompt)
      /\ UNCHANGED writers
      /\ UNCHANGED <<m_prompt, m_user_input, next_char, screen, log>>
  BY DEF PrintPrompt, Emit, Unlock, members
<1>3. m_console_mtx = "reader"
  BY <1>1, <1>2 DEF TypeOK
<1>4. AtBlankLine /\ m_user_input = << >> /\ m_prompt \in Text /\ line \in Text
  BY <1>1, <1>2 DEF ReaderState, TypeOK
<1>5. line' \in Text /\ Shows(line', m_prompt)
  BY <1>2, <1>4, OverBlank DEF AtBlankLine
<1>6. Current = m_prompt
  BY <1>4, NoInput
<1>7. col' = Len(m_prompt) /\ Len(m_prompt) \in Nat
  BY <1>2, <1>4 DEF AtBlankLine, Text
<1>8. AtPrompt'
  <2>1. Current' = m_prompt
    BY <1>2, <1>6 DEF Current
  <2> QED
    BY <1>5, <1>7, <2>1 DEF AtPrompt
<1>9. WriterState' /\ TypeOK'
  BY <1>1, <1>2, <1>3, <1>5, <1>7, ReaderHolds DEF TypeOK
<1>10. ReaderState' /\ FreeState'
  BY <1>2, <1>8 DEF ReaderState, FreeState
<1> QED
  BY <1>1, <1>2, <1>9, <1>10 DEF ConsoleInv, LinesAreWhole

LEMMA GetCharStep ==
  ASSUME ConsoleInv, GetChar
  PROVE  ConsoleInv'
<1>1. TypeOK /\ ReaderState /\ WriterState /\ FreeState /\ LinesAreWhole
  BY DEF ConsoleInv
<1>2. /\ read_pc = "getchar" /\ read_pc' = "got"
      /\ next_char' \in Chars \cup {Blank, "kDelete", "kNewLine"}
      /\ UNCHANGED <<m_console_mtx, m_prompt, m_user_input, write_pc, s, size,
                     line, col, screen, log>>
  BY DEF GetChar, members, writers, terminal
<1>3. TypeOK'
  BY <1>1, <1>2 DEF TypeOK
<1>4. Current' = Current /\ (AtPrompt' <=> AtPrompt) /\ (AtBlankLine' <=> AtBlankLine)
  BY <1>2 DEF Current, AtPrompt, AtBlankLine
<1>5. WriterState' /\ FreeState'
  BY <1>1, <1>2, <1>4 DEF WriterState, FreeState
<1>6. ReaderState'
  BY <1>2 DEF ReaderState
<1> QED
  BY <1>1, <1>2, <1>3, <1>5, <1>6 DEF ConsoleInv, LinesAreWhole


LEMMA TakeCharStep ==
  ASSUME ConsoleInv, TakeChar
  PROVE  ConsoleInv'
<1>1. TypeOK /\ ReaderState /\ FreeState /\ LinesAreWhole
  BY DEF ConsoleInv
<1>2. /\ read_pc = "got"
      /\ m_console_mtx = "free"
      /\ UNCHANGED writers
      /\ UNCHANGED <<m_prompt, next_char, line, col, screen, log>>
  BY DEF TakeChar, Lock, terminal
<1>3. AtPrompt /\ Current \in Text /\ Len(Current) \in Nat
  BY <1>1, <1>2, CurrentProperties DEF FreeState, Text
<1>4. /\ m_prompt \in Seq(Chars \cup {Blank}) /\ m_user_input \in Seq(Chars \cup {Blank})
      /\ next_char \in Chars \cup {Blank, "kDelete", "kNewLine"}
  BY <1>1 DEF TypeOK, Text
<1>5. /\ Shows(line, Current) /\ col = Len(Current)
      /\ LinesAreWhole'
  BY <1>1, <1>2, <1>3 DEF AtPrompt, LinesAreWhole
<1>6. ASSUME m_console_mtx' \in {"free", "reader"}
      PROVE  /\ WriterState'
             /\ write_pc' \in [Writers -> {"idle", "size", "erased", "text"}]
             /\ s' \in [Writers -> Text]
             /\ size' \in [Writers -> Nat]
             /\ \A w \in Writers : m_console_mtx' = w <=> write_pc'[w] # "idle"
  BY <1>1, <1>2, <1>6, ReaderHolds
<1>7. CASE /\ Typed /\ m_console_mtx' = "reader" /\ read_pc' = "echo"
           /\ m_user_input' = Append(m_user_input, next_char)
  <2>1. next_char \in Chars \cup {Blank}
    BY <1>4, <1>7 DEF Typed
  <2>2. m_user_input' \in Text
    BY <1>4, <1>7, <2>1, AppendProperties DEF Text
  <2>3. /\ Current' \in Text
        /\ Len(Current') = Len(Current) + 1
        /\ Current'[Len(Current) + 1] = next_char
        /\ SubSeq(Current', 1, Len(Current)) = Current
    <3>1. Current' = m_prompt \o Append(m_user_input, next_char)
      BY <1>2, <1>7 DEF Current
    <3> QED
      BY <1>4, <2>1, <3>1, PromptAndTyped DEF Current, Text
  <2>4. Len(Current') - 1 = Len(Current) /\ Current' # << >>
    BY <1>3, <2>3
  <2>5. BeforeEcho'
    BY <1>2, <1>3, <1>5, <2>3, <2>4 DEF BeforeEcho
  <2>6. Typed'
    BY <1>2, <1>7 DEF Typed
  <2>7. ReaderState'
    BY <1>7, <2>5, <2>6 DEF ReaderState
  <2>8. TypeOK' /\ WriterState' /\ FreeState'
    BY <1>1, <1>2, <1>6, <1>7, <2>2 DEF TypeOK, FreeState
  <2> QED
    BY <1>5, <2>7, <2>8 DEF ConsoleInv
<1>8. CASE /\ next_char = "kDelete" /\ m_user_input # << >>
           /\ m_console_mtx' = "reader" /\ read_pc' = "echo"
           /\ m_user_input' = SubSeq(m_user_input, 1, Len(m_user_input) - 1)
  <2>1. Len(m_user_input) > 0
    BY <1>4, <1>8
  <2>2. m_user_input' \in Text
    BY <1>4, <1>8, <2>1, FrontProperties DEF Text
  <2>3. /\ Len(Current) = Len(Current') + 1
        /\ \A i \in 1 .. Len(Current') : Current'[i] = Current[i]
    <3>1. Current' = m_prompt \o SubSeq(m_user_input, 1, Len(m_user_input) - 1)
      BY <1>2, <1>8 DEF Current
    <3>2. PICK p, u, d :
            /\ p = m_prompt /\ u = m_user_input
            /\ d = p \o SubSeq(u, 1, Len(u) - 1)
      OBVIOUS
    <3>3. p \in Seq(Chars \cup {Blank}) /\ u \in Seq(Chars \cup {Blank}) /\ u # << >>
      BY <1>4, <1>8, <3>2
    <3>4. Len(p \o u) = Len(d) + 1 /\ \A i \in 1 .. Len(d) : d[i] = (p \o u)[i]
      BY <3>2, <3>3, PromptAndDeleted
    <3>5. Current = p \o u /\ Current' = d
      BY <3>1, <3>2 DEF Current
    <3> QED
      BY <3>4, <3>5
  <2>4. Current' \in Text /\ Len(Current') \in Nat
    <3>1. m_user_input' \in Seq(Chars \cup {Blank}) /\ m_prompt' \in Seq(Chars \cup {Blank})
      BY <1>2, <1>4, <2>2 DEF Text
    <3> QED
      BY <3>1, ConcatProperties DEF Current, Text
  <2>5. /\ Len(line) \in Nat /\ Len(line) >= Len(Current)
        /\ \A i \in 1 .. Len(line) : line[i] = IF i <= Len(Current) THEN Current[i] ELSE Blank
    BY <1>1, <1>5 DEF Shows, TypeOK, Text
  <2>6. \A i \in 1 .. Len(line) : i # Len(Current') + 1 =>
          line[i] = IF i <= Len(Current') THEN Current'[i] ELSE Blank
    <3>1. SUFFICES ASSUME NEW i \in 1 .. Len(line), i # Len(Current') + 1
                   PROVE  line[i] = IF i <= Len(Current') THEN Current'[i] ELSE Blank
      OBVIOUS
    <3>2. CASE i <= Len(Current')
      <4>1. i \in 1 .. Len(Current') /\ i <= Len(Current)
        BY <2>3, <2>4, <3>2
      <4> QED
        BY <2>3, <2>5, <3>2, <4>1
    <3>3. CASE ~(i <= Len(Current'))
      <4>1. ~(i <= Len(Current))
        BY <2>3, <2>4, <2>5, <3>1, <3>3
      <4> QED
        BY <2>5, <3>3, <4>1
    <3> QED
      BY <3>2, <3>3
  <2>7. BeforeErase'
    <3>1. Len(line) > Len(Current') /\ col = Len(Current') + 1
      BY <1>5, <2>3, <2>4, <2>5
    <3> QED
      BY <1>2, <2>6, <3>1 DEF BeforeErase
  <2>8. ~Typed' /\ next_char' = "kDelete"
    BY <1>2, <1>8 DEF Typed
  <2>9. ReaderState'
    BY <1>8, <2>7, <2>8 DEF ReaderState
  <2>10. TypeOK' /\ WriterState' /\ FreeState'
    BY <1>1, <1>2, <1>6, <1>8, <2>2 DEF TypeOK, FreeState
  <2> QED
    BY <1>5, <2>9, <2>10 DEF ConsoleInv
<1>9. CASE m_console_mtx' = m_console_mtx /\ m_user_input' = m_user_input /\ read_pc' = "getchar"
  <2>1. AtPrompt'
    BY <1>2, <1>5, <1>9 DEF AtPrompt, Current
  <2>2. ReaderState' /\ FreeState'
    BY <1>9, <2>1 DEF ReaderState, FreeState
  <2>3. TypeOK' /\ WriterState'
    BY <1>1, <1>2, <1>6, <1>9 DEF TypeOK
  <2> QED
    BY <1>5, <2>2, <2>3 DEF ConsoleInv
<1>10. CASE m_console_mtx' = "reader" /\ m_user_input' = m_user_input /\ read_pc' = "done"
  <2>1. AtPrompt'
    BY <1>2, <1>5, <1>10 DEF AtPrompt, Current
  <2>2. ReaderState' /\ FreeState'
    BY <1>10, <2>1 DEF ReaderState, FreeState
  <2>3. TypeOK' /\ WriterState'
    BY <1>1, <1>2, <1>6, <1>10 DEF TypeOK
  <2> QED
    BY <1>5, <2>2, <2>3 DEF ConsoleInv
<1> QED
  BY <1>7, <1>8, <1>9, <1>10 DEF TakeChar, Lock


LEMMA EchoStep ==
  ASSUME ConsoleInv, Echo
  PROVE  ConsoleInv'
<1>1. TypeOK /\ ReaderState /\ LinesAreWhole
  BY DEF ConsoleInv
<1>2. /\ read_pc = "echo" /\ read_pc' = "getchar"
      /\ m_console_mtx' = "free"
      /\ UNCHANGED writers
      /\ UNCHANGED <<m_prompt, m_user_input, next_char, screen, log>>
  BY DEF Echo, Emit, Unlock, members
<1>3. m_console_mtx = "reader" /\ line \in Text
  BY <1>1, <1>2 DEF TypeOK
<1>4. Current \in Text /\ Len(Current) \in Nat /\ Current' = Current
  BY <1>1, <1>2, CurrentProperties DEF Current, Text
<1>5. line' \in Text /\ Shows(line', Current) /\ col' = Len(Current)
  <2>1. CASE Typed /\ Emit(<<next_char>>)
    <3>1. BeforeEcho
      BY <1>1, <1>2, <2>1 DEF ReaderState
    <3>2. line' = Over(line, col, <<next_char>>) /\ col' = col + 1
      BY <2>1 DEF Emit
    <3>3. Len(Current) > 0 /\ col = Len(Current) - 1 /\ next_char = Current[Len(Current)]
      BY <1>4, <3>1 DEF BeforeEcho, Text
    <3>4. Shows(line, SubSeq(Current, 1, Len(Current) - 1))
      BY <3>1 DEF BeforeEcho
    <3>5. /\ Over(line, Len(Current) - 1, <<Current[Len(Current)]>>) \in Text
          /\ Shows(Over(line, Len(Current) - 1, <<Current[Len(Current)]>>), Current)
      BY <1>3, <1>4, <3>3, <3>4, OverTyped
    <3>6. line' = Over(line, Len(Current) - 1, <<Current[Len(Current)]>>)
      BY <3>2, <3>3
    <3>7. col' = Len(Current)
      BY <1>4, <3>2, <3>3
    <3> QED
      BY <3>5, <3>6, <3>7
  <2>2. CASE /\ next_char = "kDelete"
             /\ line' = Over(line, col - 1, <<Blank>>) /\ col' = col - 1
    <3>1. BeforeErase
      BY <1>1, <1>2, <2>2 DEF ReaderState, Typed
    <3>2. col - 1 = Len(Current)
      BY <1>4, <3>1 DEF BeforeErase
    <3>3. /\ Len(line) > Len(Current)
          /\ \A i \in 1 .. Len(line) : i # Len(Current) + 1 =>
               line[i] = IF i <= Len(Current) THEN Current[i] ELSE Blank
      BY <3>1 DEF BeforeErase
    <3>4. /\ Over(line, Len(Current), <<Blank>>) \in Text
          /\ Shows(Over(line, Len(Current), <<Blank>>), Current)
      BY <1>3, <1>4, <3>3, OverDeleted
    <3> QED
      BY <2>2, <3>2, <3>4
  <2> QED
    BY <2>1, <2>2 DEF Echo
<1>6. AtPrompt'
  BY <1>4, <1>5 DEF AtPrompt
<1>7. TypeOK' /\ WriterState'
  BY <1>1, <1>2, <1>3, <1>4, <1>5, ReaderHolds DEF TypeOK
<1>8. ReaderState' /\ FreeState'
  BY <1>2, <1>6 DEF ReaderState, FreeState
<1> QED
  BY <1>1, <1>2, <1>7, <1>8 DEF ConsoleInv, LinesAreWhole

LEMMA ReturnInputStep ==
  ASSUME ConsoleInv, ReturnInput
  PROVE  ConsoleInv'
<1>1. TypeOK /\ ReaderState /\ LinesAreWhole
  BY DEF ConsoleInv
<1> DEFINE e == << >>
<1>2. /\ read_pc = "done" /\ read_pc' = "idle"
      /\ m_console_mtx' = "free"
      /\ m_prompt' = e /\ m_user_input' = e /\ line' = e /\ col' = 0
      /\ screen' = Append(screen, Over(line, col, e))
      /\ log' = Append(log, Current)
      /\ UNCHANGED writers /\ UNCHANGED next_char
  BY DEF ReturnInput, EmitLine, Unlock, Current
<1>3. e \in Text /\ Len(e) = 0 /\ Shows(e, e)
  BY EmptySeq DEF Text, Shows
<1>4. /\ m_console_mtx = "reader" /\ line \in Text /\ Len(line) \in Nat
      /\ Current \in Text /\ Len(Current) \in Nat
  BY <1>1, <1>2, CurrentProperties DEF TypeOK, Text
<1>5. Shows(line, Current) /\ col = Len(Current) /\ Len(line) >= Len(Current)
  BY <1>1, <1>2 DEF ReaderState, AtPrompt, Shows
<1>6. Current' = e
  BY <1>2, <1>3, ConcatEmptySeq DEF Current, Text
<1> HIDE DEF e
<1>7. Over(line, col, e) = line
  <2>1. col \in 0 .. Len(line)
    BY <1>4, <1>5
  <2> QED
    BY <1>3, <1>4, <2>1, OverNothing
<1>8. screen' \in Seq(Text) /\ log' \in Seq(Text) /\ LinesAreWhole'
  BY <1>1, <1>2, <1>4, <1>5, <1>7, LineFinished
<1>9. AtPrompt'
  BY <1>2, <1>3, <1>6 DEF AtPrompt
<1>10. TypeOK' /\ WriterState'
  BY <1>1, <1>2, <1>3, <1>4, <1>8, ReaderHolds DEF TypeOK
<1>11. ReaderState' /\ FreeState'
  BY <1>2, <1>9 DEF ReaderState, FreeState, e
<1> QED
  BY <1>8, <1>10, <1>11 DEF ConsoleInv

\* The reader is outside of its critical section during a step of a writer,
\* and the members stay as they are.
LEMMA WriterHolds ==
  ASSUME TypeOK, ReaderState, NEW w \in Writers,
         m_console_mtx \in {"free", w}, m_console_mtx' \in {"free", w},
         UNCHANGED <<members, reader>>
  PROVE  /\ ReaderState'
         /\ Current' = Current
         /\ m_prompt' \in Text /\ m_user_input' \in Text
         /\ read_pc' \in {"idle", "getchar", "got"}
         /\ next_char' \in Chars \cup {Blank, "kDelete", "kNewLine"}
         /\ m_console_mtx' = "reader" <=> read_pc' \in {"prompt", "echo", "done"}
         /\ \A v \in Writers \ {w} : write_pc[v] = "idle"
<1>1. /\ read_pc \in {"idle", "getchar", "got"} /\ read_pc' = read_pc
      /\ m_prompt' = m_prompt /\ m_user_input' = m_user_input /\ next_char' = next_char
      /\ \A v \in Writers \ {w} : write_pc[v] = "idle"
  BY Exclusion DEF members, reader
<1>2. ReaderState'
  BY <1>1 DEF ReaderState
<1> QED
  BY <1>1, <1>2, WriterAssumption DEF TypeOK, Current

LEMMA WriteStep ==
  ASSUME ConsoleInv, NEW w \in Writers, Write(w)
  PROVE  ConsoleInv'
<1>1. TypeOK /\ ReaderState /\ FreeState /\ LinesAreWhole
  BY DEF ConsoleInv
<1>2. PICK t \in Strings : s' = [s EXCEPT ![w] = t]
  BY DEF Write
<1>3. /\ m_console_mtx = "free" /\ m_console_mtx' = w
      /\ size' = [size EXCEPT ![w] = Len(m_prompt) + Len(m_user_input)]
      /\ write_pc' = [write_pc EXCEPT ![w] = "size"]
      /\ UNCHANGED <<members, reader>>
      /\ UNCHANGED <<line, col, screen, log>>
  BY DEF Write, Lock, terminal
<1>4. /\ ReaderState' /\ Current' = Current
      /\ m_prompt' \in Text /\ m_user_input' \in Text
      /\ read_pc' \in {"idle", "getchar", "got"}
      /\ next_char' \in Chars \cup {Blank, "kDelete", "kNewLine"}
      /\ m_console_mtx' = "reader" <=> read_pc' \in {"prompt", "echo", "done"}
      /\ \A v \in Writers \ {w} : write_pc[v] = "idle"
  BY <1>1, <1>3, WriterHolds
<1>5. Len(Current) = Len(m_prompt) + Len(m_user_input) /\ Len(Current) \in Nat
  BY <1>1, CurrentProperties DEF Text
<1>6. TypeOK'
  <2>1. s' \in [Writers -> Text] /\ size' \in [Writers -> Nat]
    BY <1>1, <1>2, <1>3, <1>5, ConsoleAssumption DEF TypeOK
  <2>2. /\ write_pc' \in [Writers -> {"idle", "size", "erased", "text"}]
        /\ \A v \in Writers : m_console_mtx' = v <=> write_pc'[v] # "idle"
    BY <1>1, <1>3, <1>4 DEF TypeOK
  <2> QED
    BY <1>1, <1>3, <1>4, <2>1, <2>2 DEF TypeOK
<1>7. AtPrompt'
  BY <1>1, <1>3, <1>4 DEF FreeState, AtPrompt
<1>8. size'[w] = Len(Current)' /\ write_pc'[w] = "size"
  BY <1>1, <1>3, <1>4, <1>5 DEF TypeOK
<1>9. WriterState'
  BY <1>1, <1>3, <1>4, <1>7, <1>8 DEF WriterState, TypeOK
<1>10. FreeState'
  BY <1>3, WriterAssumption DEF FreeState
<1> QED
  BY <1>1, <1>3, <1>4, <1>6, <1>9, <1>10 DEF ConsoleInv, LinesAreWhole


\* The end of write: no writer is left inside of a critical section.
LEMMA EndWriteStep ==
  ASSUME TypeOK, NEW w \in Writers, EndWrite(w), m_console_mtx' = "free",
         \A v \in Writers \ {w} : write_pc[v] = "idle"
  PROVE  /\ WriterState'
         /\ write_pc' \in [Writers -> {"idle", "size", "erased", "text"}]
         /\ s' \in [Writers -> Text]
         /\ size' \in [Writers -> Nat]
         /\ \A v \in Writers : m_console_mtx' = v <=> write_pc'[v] # "idle"
<1>1. << >> \in Text
  BY EmptySeq DEF Text
<1>2. s' \in [Writers -> Text] /\ size' \in [Writers -> Nat]
  BY <1>1 DEF EndWrite, TypeOK
<1>3. /\ write_pc' \in [Writers -> {"idle", "size", "erased", "text"}]
      /\ \A v \in Writers : write_pc'[v] = "idle"
  BY DEF EndWrite, TypeOK
<1> QED
  BY <1>2, <1>3, WriterAssumption DEF WriterState

LEMMA WritePlainStep ==
  ASSUME ConsoleInv, NEW w \in Writers, WritePlain(w)
  PROVE  ConsoleInv'
<1>1. TypeOK /\ ReaderState /\ WriterState /\ LinesAreWhole
  BY DEF ConsoleInv
<1> DEFINE e == << >>
<1>2. /\ write_pc[w] = "size" /\ size[w] = 0
      /\ m_console_mtx' = "free"
      /\ line' = e /\ col' = 0
      /\ screen' = Append(screen, Over(line, col, s[w]))
      /\ log' = Append(log, s[w])
      /\ EndWrite(w)
      /\ UNCHANGED <<members, reader>>
  BY DEF WritePlain, EmitLine, Unlock
<1>3. m_console_mtx = w /\ line \in Text /\ s[w] \in Text
  BY <1>1, <1>2 DEF TypeOK
<1>4. /\ ReaderState' /\ Current' = Current
      /\ m_prompt' \in Text /\ m_user_input' \in Text
      /\ read_pc' \in {"idle", "getchar", "got"}
      /\ next_char' \in Chars \cup {Blank, "kDelete", "kNewLine"}
      /\ m_console_mtx' = "reader" <=> read_pc' \in {"prompt", "echo", "done"}
      /\ \A v \in Writers \ {w} : write_pc[v] = "idle"
  BY <1>1, <1>2, <1>3, WriterHolds
<1>5. Current \in Text /\ Len(Current) = 0 /\ AtPrompt
  BY <1>1, <1>2, CurrentProperties DEF WriterState
<1>6. e \in Text /\ Len(e) = 0 /\ Shows(e, e)
  BY EmptySeq DEF Text, Shows
<1>7. Current = e
  BY <1>5, EmptySeq DEF Text
<1> HIDE DEF e
<1>8. Shows(line, << >>) /\ col = 0
  BY <1>5, <1>7 DEF AtPrompt, e
<1>9. Over(line, col, s[w]) \in Text /\ Shows(Over(line, col, s[w]), s[w])
  BY <1>3, <1>8, OverBlank
<1>10. screen' \in Seq(Text) /\ log' \in Seq(Text) /\ LinesAreWhole'
  BY <1>1, <1>2, <1>3, <1>9, LineFinished
<1>11. /\ WriterState'
       /\ write_pc' \in [Writers -> {"idle", "size", "erased", "text"}]
       /\ s' \in [Writers -> Text]
       /\ size' \in [Writers -> Nat]
       /\ \A v \in Writers : m_console_mtx' = v <=> write_pc'[v] # "idle"
  BY <1>1, <1>2, <1>4, EndWriteStep
<1>12. TypeOK'
  BY <1>2, <1>4, <1>6, <1>10, <1>11 DEF TypeOK
<1>13. FreeState'
  BY <1>2, <1>4, <1>6, <1>7 DEF FreeState, AtPrompt
<1> QED
  BY <1>4, <1>10, <1>11, <1>12, <1>13 DEF ConsoleInv

LEMMA EraseLineStep ==
  ASSUME ConsoleInv, NEW w \in Writers, EraseLine(w)
  PROVE  ConsoleInv'
<1>1. TypeOK /\ ReaderState /\ WriterState /\ LinesAreWhole
  BY DEF ConsoleInv
<1>2. /\ write_pc[w] = "size"
      /\ line' = Over(line, 0, Blanks(size[w])) /\ col' = 0
      /\ write_pc' = [write_pc EXCEPT ![w] = "erased"]
      /\ UNCHANGED <<members, reader>>
      /\ UNCHANGED <<m_console_mtx, s, size, screen, log>>
  BY DEF EraseLine
<1>3. m_console_mtx = w /\ line \in Text
  BY <1>1, <1>2 DEF TypeOK
<1>4. /\ ReaderState' /\ Current' = Current
      /\ m_prompt' \in Text /\ m_user_input' \in Text
      /\ read_pc' \in {"idle", "getchar", "got"}
      /\ next_char' \in Chars \cup {Blank, "kDelete", "kNewLine"}
      /\ m_console_mtx' = "reader" <=> read_pc' \in {"prompt", "echo", "done"}
      /\ \A v \in Writers \ {w} : write_pc[v] = "idle"
  BY <1>1, <1>2, <1>3, WriterHolds
<1>5. Current \in Text /\ size[w] = Len(Current) /\ Shows(line, Current)
  BY <1>1, <1>2, CurrentProperties DEF WriterState, AtPrompt
<1>6. line' \in Text /\ Shows(line', << >>)
  BY <1>2, <1>3, <1>5, OverErase
<1>7. TypeOK'
  <2>1. /\ write_pc' \in [Writers -> {"idle", "size", "erased", "text"}]
        /\ \A v \in Writers : m_console_mtx' = v <=> write_pc'[v] # "idle"
    BY <1>1, <1>2, <1>3, <1>4 DEF TypeOK
  <2> QED
    BY <1>1, <1>2, <1>4, <1>6, <2>1 DEF TypeOK
<1>8. WriterState'
  <2>1. AtBlankLine' /\ write_pc'[w] = "erased"
    BY <1>1, <1>2, <1>6 DEF AtBlankLine, TypeOK
  <2> QED
    BY <1>1, <1>2, <1>4, <2>1 DEF WriterState, TypeOK
<1>9. FreeState'
  BY <1>2, <1>3, WriterAssumption DEF FreeState
<1> QED
  BY <1>1, <1>2, <1>4, <1>7, <1>8, <1>9 DEF ConsoleInv, LinesAreWhole

LEMMA WriteTextStep ==
  ASSUME ConsoleInv, NEW w \in Writers, WriteText(w)
  PROVE  ConsoleInv'
<1>1. TypeOK /\ ReaderState /\ WriterState /\ LinesAreWhole
  BY DEF ConsoleInv
<1>2. /\ write_pc[w] = "erased"
      /\ line' = << >> /\ col' = 0
      /\ screen' = Append(screen, Over(line, col, s[w]))
      /\ log' = Append(log, s[w])
      /\ write_pc' = [write_pc EXCEPT ![w] = "text"]
      /\ UNCHANGED <<members, reader>>
      /\ UNCHANGED <<m_console_mtx, s, size>>
  BY DEF WriteText, EmitLine
<1>3. m_console_mtx = w /\ line \in Text /\ s[w] \in Text
  BY <1>1, <1>2 DEF TypeOK
<1>4. /\ ReaderState' /\ Current' = Current
      /\ m_prompt' \in Text /\ m_user_input' \in Text
      /\ read_pc' \in {"idle", "getchar", "got"}
      /\ next_char' \in Chars \cup {Blank, "kDelete", "kNewLine"}
      /\ m_console_mtx' = "reader" <=> read_pc' \in {"prompt", "echo", "done"}
      /\ \A v \in Writers \ {w} : write_pc[v] = "idle"
  BY <1>1, <1>2, <1>3, WriterHolds
<1>5. Shows(line, << >>) /\ col = 0
  BY <1>1, <1>2 DEF WriterState, AtBlankLine
<1>6. Over(line, col, s[w]) \in Text /\ Shows(Over(line, col, s[w]), s[w])
  BY <1>3, <1>5, OverBlank
<1>7. screen' \in Seq(Text) /\ log' \in Seq(Text) /\ LinesAreWhole'
  BY <1>1, <1>2, <1>3, <1>6, LineFinished
<1>8. TypeOK'
  <2>1. /\ write_pc' \in [Writers -> {"idle", "size", "erased", "text"}]
        /\ \A v \in Writers : m_console_mtx' = v <=> write_pc'[v] # "idle"
    BY <1>1, <1>2, <1>3, <1>4 DEF TypeOK
  <2>2. line' \in Text
    BY <1>2, EmptySeq DEF Text
  <2> QED
    BY <1>1, <1>2, <1>4, <1>7, <2>1, <2>2 DEF TypeOK
<1>9. WriterState'
  BY <1>1, <1>2, <1>4 DEF WriterState, TypeOK
<1>10. FreeState'
  BY <1>2, <1>3, WriterAssumption DEF FreeState
<1> QED
  BY <1>4, <1>7, <1>8, <1>9, <1>10 DEF ConsoleInv

LEMMA ReprintInputStep ==
  ASSUME ConsoleInv, NEW w \in Writers, ReprintInput(w)
  PROVE  ConsoleInv'
<1>1. TypeOK /\ ReaderState /\ WriterState /\ LinesAreWhole
  BY DEF ConsoleInv
<1>2. /\ write_pc[w] = "text"
      /\ m_console_mtx' = "free"
      /\ line' = Over(line, col, Current) /\ col' = col + Len(Current)
      /\ EndWrite(w)
      /\ UNCHANGED <<members, reader>>
      /\ UNCHANGED <<screen, log>>
  BY DEF ReprintInput, Emit, Unlock, Current
<1>3. m_console_mtx = w /\ line \in Text
  BY <1>1, <1>2 DEF TypeOK
<1>4. /\ ReaderState' /\ Current' = Current
      /\ m_prompt' \in Text /\ m_user_input' \in Text
      /\ read_pc' \in {"idle", "getchar", "got"}
      /\ next_char' \in Chars \cup {Blank, "kDelete", "kNewLine"}
      /\ m_console_mtx' = "reader" <=> read_pc' \in {"prompt", "echo", "done"}
      /\ \A v \in Writers \ {w} : write_pc[v] = "idle"
  BY <1>1, <1>2, <1>3, WriterHolds
<1>5. Current \in Text /\ Len(Current) \in Nat
  BY <1>1, CurrentProperties DEF Text
<1>6. Shows(line, << >>) /\ col = 0
  BY <1>1, <1>2 DEF WriterState, Shows
<1>7. line' \in Text /\ Shows(line', Current) /\ col' = Len(Current)
  BY <1>2, <1>3, <1>5, <1>6, OverBlank
<1>8. /\ WriterState'
      /\ write_pc' \in [Writers -> {"idle", "size", "erased", "text"}]
      /\ s' \in [Writers -> Text]
      /\ size' \in [Writers -> Nat]
      /\ \A v \in Writers : m_console_mtx' = v <=> write_pc'[v] # "idle"
  BY <1>1, <1>2, <1>4, EndWriteStep
<1>9. TypeOK'
  BY <1>1, <1>2, <1>4, <1>5, <1>7, <1>8 DEF TypeOK
<1>10. FreeState'
  BY <1>4, <1>7 DEF FreeState, AtPrompt
<1> QED
  BY <1>1, <1>2, <1>4, <1>8, <1>9, <1>10 DEF ConsoleInv, LinesAreWhole

-----------------------------------------------------------------------------
LEMMA ConsoleInvariance == Spec => []ConsoleInv
<1>1. ConsoleInv /\ [Next]_vars => ConsoleInv'
  <2>1. SUFFICES ASSUME ConsoleInv, [Next]_vars PROVE ConsoleInv'
    OBVIOUS
  <2>2. CASE Reader
    BY <2>1, <2>2, ReadStep, PrintPromptStep, GetCharStep, TakeCharStep, EchoStep,
       ReturnInputStep DEF Reader
  <2>3. ASSUME NEW w \in Writers, Writer(w) PROVE ConsoleInv'
    BY <2>1, <2>3, WriteStep, WritePlainStep, EraseLineStep, WriteTextStep,
       ReprintInputStep DEF Writer
  <2>4. CASE UNCHANGED vars
    BY <2>1, <2>4 DEF ConsoleInv, TypeOK, ReaderState, WriterState, FreeState,
       LinesAreWhole, AtPrompt, AtBlankLine, BeforeEcho, BeforeErase, Current,
       Typed, vars, members, reader, writers, terminal
  <2> QED
    BY <2>1, <2>2, <2>3, <2>4 DEF Next
<1> QED
  BY <1>1, InitConsole, PTL DEF Spec

\* The members and the terminal keep their types, and a thread is inside of a
\* critical section of Console::read or Console::write exactly when it holds
\* m_console_mtx, whatever the writers and the texts are.
THEOREM ConsoleTypeCorrect == Spec => []TypeOK
BY ConsoleInvariance, PTL DEF ConsoleInv

\* Whenever m_console_mtx is free the current line of the terminal is the
\* prompt and the characters typed, and the cursor is behind them.
THEOREM PromptIsLastLineTheorem == Spec => []PromptIsLastLine
<1>1. ConsoleInv => PromptIsLastLine
  BY CurrentProperties DEF ConsoleInv, FreeState, AtPrompt, PromptIsLastLine, Current
<1> QED
  BY <1>1, ConsoleInvariance, PTL

\* The finished lines are the texts given to Console::write and the inputs
\* returned by Console::read, whole and in the order of the calls.
THEOREM LinesAreWholeTheorem == Spec => []LinesAreWhole
BY ConsoleInvariance, PTL DEF ConsoleInv

=============================================================================
