------------------------- MODULE GhostSessionProofs ------------------------
(***************************************************************************)
(* A command of a WebDriver session is answered at most once, and with     *)
(* success only when its load has ended, for every number of commands,     *)
(* windows and nested evaluations.  The arguments: while the code of a     *)
(* command that loads runs, the command has no timer and no answer, and    *)
(* the timer of a script, which answers without looking, is set only while *)
(* the script is unanswered (Settled); and a window begins to load for a   *)
(* command only while the code of the command runs, so that a window which *)
(* does not load for a command that has succeeded never will (Followed).   *)
(***************************************************************************)
EXTENDS GhostSession, SequenceTheorems, TLAPS

Answers == {"success", "error", "reply"}
Command == [kind : Kinds, window : Windows, timer : BOOLEAN, polls : 0..MaxPolls,
            missing : BOOLEAN, aborted : BOOLEAN, answers : Seq(Answers)]
Evaluation == [who : 1..ByPage, window : Windows]

\* Evaluations nest, each for another command or for a timer of a page.
Nested(st, n) ==
    /\ st \in Seq(Evaluation)
    /\ \A i \in 1..Len(st) : st[i].who = ByPage \/ st[i].who <= n
    /\ \A i, j \in 1..Len(st) : st[i].who = st[j].who => i = j

Runs(st, c) == \E i \in 1..Len(st) : st[i].who = c
Within(st, S) == \A i \in 1..Len(st) : st[i].window \in S
Existing == {w \in Windows : Alive(w)}

Typed ==
    /\ commands \in Seq(Command) /\ Len(commands) <= MaxCommands
    /\ Nested(stack, Len(commands)) /\ suspended \subseteq 1..Len(commands)
    /\ callback \in [Windows -> 0..Len(commands)]
    /\ \A w \in Windows : callback[w] # 0 => commands[callback[w]].kind = "async"

\* The session knows pages that exist, and only these load and run code.
PagesExist ==
    /\ session \in {"live", "deleted"} /\ crashed \in BOOLEAN /\ current \in Windows
    /\ window \in [Windows -> {"unborn", "open", "closing", "deleted"}]
    /\ known \subseteq Existing /\ (crashed \/ Within(stack, Existing))
    /\ load \in [Windows -> 0..ByPage]
    /\ \A w \in Windows : load[w] # 0 => Alive(w)
    /\ \A w \in Windows : load[w] = ByPage \/ load[w] <= Len(commands)

\* What holds of a command, whose code runs or not.
Settled(d, runs) ==
    /\ \/ Len(d.answers) <= 1
       \/ d.kind = "execute" /\ d.missing
       \/ d.kind = "async" /\ d.answers = <<"error", "error">>
    /\ d.kind \in Loading =>
           /\ runs => d.answers = <<>> /\ ~d.timer /\ ~d.aborted
           /\ d.timer => d.answers = <<>> \/ d.aborted
           /\ d.aborted => d.answers = <<"error">>
    /\ d.kind = "execute" =>
           /\ runs => ~d.missing
           /\ d.timer => d.answers = <<>> \/ d.missing

\* A command that loads has reported that its load has ended.
Succeeded(d) ==
    /\ d.kind \in Loading /\ d.answers = <<"success">>
    /\ d.kind = "history" => d.polls = 0

Followed ==
    \A c \in 1..Len(commands) : Succeeded(commands[c]) => \A w \in known : load[w] # c

IInv ==
    /\ Typed /\ PagesExist /\ Followed
    /\ \A c \in 1..Len(commands) : Settled(commands[c], Runs(stack, c))

-----------------------------------------------------------------------------
(* Answers, and evaluations that begin and return *)

LEMMA FirstAnswer ==
    ASSUME NEW a \in Answers
    PROVE  /\ Append(<<>>, a) = <<a>> /\ <<a>> \in Seq(Answers)
           /\ Len(<<a>>) = 1 /\ <<a>>[1] = a
OBVIOUS

LEMMA Numbers ==
    /\ MaxCommands \in Nat /\ ByPage = MaxCommands + 1 /\ ByPage \in Nat
    /\ MaxPolls \in Nat /\ 0 \in 0..MaxPolls /\ First \in Windows
    /\ Offered \subseteq Kinds
BY GhostSessionAssumption DEF GhostSessionAssumption, ByPage, Kinds, Loading

\* An evaluation begins for a command or timer for which none runs.
LEMMA Begins ==
    ASSUME NEW st, NEW n \in Nat, NEW m \in Nat, n <= m, Nested(st, n),
           NEW e \in Evaluation, e.who = ByPage \/ e.who <= m, ~Runs(st, e.who)
    PROVE  /\ Nested(Append(st, e), m)
           /\ \A c : Runs(Append(st, e), c) => Runs(st, c) \/ c = e.who
           /\ \A S : Within(st, S) /\ e.window \in S => Within(Append(st, e), S)
<1> DEFINE s == Append(st, e)
<1>1. /\ st \in Seq(Evaluation) /\ s \in Seq(Evaluation)
      /\ Len(st) \in Nat /\ Len(s) = Len(st) + 1 /\ s[Len(st) + 1] = e
      /\ \A i \in 1..Len(st) : s[i] = st[i]
  BY AppendProperties, LenProperties DEF Nested
<1> HIDE DEF s
<1>2. \A i \in 1..Len(s) : i \in 1..Len(st) \/ (i = Len(st) + 1 /\ s[i].who = e.who)
  BY <1>1
<1>3. \A i \in 1..Len(st) : st[i].who # e.who /\ (st[i].who = ByPage \/ st[i].who <= m)
  <2> TAKE i \in 1..Len(st)
  <2>1. st[i].who # e.who
    BY DEF Runs
  <2>2. st[i] \in Evaluation /\ (st[i].who = ByPage \/ st[i].who <= n)
    BY <1>1, ElementOfSeq DEF Nested
  <2>3. st[i].who \in Nat
    BY <2>2, Numbers DEF Evaluation
  <2> QED BY <2>1, <2>2, <2>3
<1>4. \A i \in 1..Len(s) : s[i].who = ByPage \/ s[i].who <= m
  BY <1>1, <1>2, <1>3
<1>5. ASSUME NEW i \in 1..Len(s), NEW j \in 1..Len(s), s[i].who = s[j].who
      PROVE  i = j
  <2>1. CASE i \in 1..Len(st) /\ j \in 1..Len(st)
    BY <1>1, <1>5, <2>1 DEF Nested
  <2>2. CASE i \notin 1..Len(st) \/ j \notin 1..Len(st)
    BY <1>1, <1>2, <1>3, <1>5, <2>2
  <2> QED BY <2>1, <2>2
<1>6. ASSUME NEW c, Runs(s, c) PROVE Runs(st, c) \/ c = e.who
  BY <1>1, <1>2, <1>6 DEF Runs
<1>7. ASSUME NEW S, Within(st, S), e.window \in S PROVE Within(s, S)
  <2> SUFFICES ASSUME NEW i \in 1..Len(s) PROVE s[i].window \in S
    BY DEF Within
  <2>1. CASE i \in 1..Len(st)
    BY <1>1, <1>7, <2>1 DEF Within
  <2>2. CASE i = Len(st) + 1
    BY <1>1, <1>7, <2>2
  <2> QED BY <1>2, <2>1, <2>2
<1> QED BY <1>1, <1>4, <1>5, <1>6, <1>7 DEF Nested, s

\* The innermost evaluation returns.
LEMMA Returns ==
    ASSUME NEW st, NEW n \in Nat, Nested(st, n), st # <<>>
    PROVE  /\ Last(st) \in Evaluation /\ Runs(st, Last(st).who)
           /\ \A S : Within(st, S) => Last(st).window \in S /\ Within(Front(st), S)
           /\ Last(st).who = ByPage \/ Last(st).who \in 1..n
           /\ Nested(Front(st), n)
           /\ \A c : Runs(Front(st), c) => Runs(st, c) /\ c # Last(st).who
<1> DEFINE k == Len(st)
           s == SubSeq(st, 1, k - 1)
<1>1. st \in Seq(Evaluation) /\ k \in Nat /\ k >= 1
  BY DEF Nested
<1>2. Last(st) = st[k] /\ Front(st) = s
  BY DEF Last, Front
<1>3. /\ s \in Seq(Evaluation) /\ Len(s) = k - 1
      /\ \A i \in 1..k - 1 : s[i] = st[i]
  BY <1>1
<1>4. st[k] \in Evaluation /\ k \in 1..k
  BY <1>1, ElementOfSeq
<1>5. st[k].who = ByPage \/ st[k].who \in 1..n
  BY <1>1, <1>4, Numbers DEF Nested, Evaluation
<1>6. \A i \in 1..k - 1 : i \in 1..k /\ i # k
  BY <1>1
<1>7. Nested(s, n)
  <2> HIDE DEF s, k
  <2> QED BY <1>3, <1>6 DEF Nested, k
<1>8. \A c : Runs(s, c) => Runs(st, c) /\ c # st[k].who
  <2> HIDE DEF s
  <2> QED BY <1>3, <1>4, <1>6 DEF Runs, Nested
<1>9. ASSUME NEW S, Within(st, S) PROVE st[k].window \in S /\ Within(s, S)
  <2> HIDE DEF s
  <2> QED BY <1>3, <1>4, <1>6, <1>9 DEF Within
<1> QED BY <1>2, <1>4, <1>5, <1>7, <1>8, <1>9 DEF Runs

-----------------------------------------------------------------------------
(* What becomes of the invariant when commands arrive and change *)

\* What holds of a command while its code runs holds when it has returned.
LEMMA SettledReturns ==
    ASSUME NEW d, NEW before \in BOOLEAN, NEW after \in BOOLEAN,
           Settled(d, before), after => before
    PROVE  Settled(d, after)
BY DEF Settled

\* No window begins to load for a command that has succeeded.
NoNewLoads ==
    \A w \in known' : \A c \in 1..Len(commands) :
        load'[w] = c /\ Succeeded(commands[c]) => w \in known /\ load[w] = c

\* The steps that leave the commands alone.
LEMMA CommandsStay ==
    ASSUME IInv, UNCHANGED commands, PagesExist', NoNewLoads,
           Nested(stack', Len(commands)), suspended' \subseteq 1..Len(commands),
           \A c \in 1..Len(commands) : Runs(stack', c) => Runs(stack, c),
           callback' \in [Windows -> 0..Len(commands)],
           \A w \in Windows : callback'[w] \in {0, callback[w]}
    PROVE  IInv'
<1>1. Typed'
  BY DEF IInv, Typed
<1>2. Followed'
  BY DEF IInv, Followed, NoNewLoads
<1>3. \A c \in 1..Len(commands) : Settled(commands[c], Runs(stack', c))
  <2> TAKE c \in 1..Len(commands)
  <2>1. Runs(stack, c) \in BOOLEAN /\ Runs(stack', c) \in BOOLEAN
    BY DEF Runs
  <2>2. Settled(commands[c], Runs(stack, c))
    BY DEF IInv
  <2> QED BY <2>1, <2>2, SettledReturns
<1> QED BY <1>1, <1>2, <1>3 DEF IInv

\* One command is replaced by another of its kind, and no load changes.
LEMMA OneCommand ==
    ASSUME IInv, NEW c \in 1..Len(commands), NEW d \in Command,
           commands' = [commands EXCEPT ![c] = d], d.kind = commands[c].kind,
           Settled(d, Runs(stack', c)),
           Succeeded(d) => Succeeded(commands[c]) \/ ~IsLoading,
           UNCHANGED <<windows, load, crashed>>, crashed \/ Within(stack', Existing),
           Nested(stack', Len(commands)), suspended' \subseteq 1..Len(commands),
           \A e \in 1..Len(commands) : Runs(stack', e) => Runs(stack, e),
           callback' \in [Windows -> 0..Len(commands)],
           \A w \in Windows : callback'[w] \in {0, callback[w]}
    PROVE  IInv'
<1> DEFINE n == Len(commands)
<1>1. /\ commands \in Seq(Command) /\ n \in Nat /\ n <= MaxCommands
      /\ callback \in [Windows -> 0..n]
  BY DEF IInv, Typed
<1>2. /\ commands' \in Seq(Command) /\ Len(commands') = n /\ commands'[c] = d
      /\ \A e \in 1..n : e # c => commands'[e] = commands[e]
  BY <1>1
<1>3. Typed'
  <2>1. ASSUME NEW w \in Windows, callback'[w] # 0
        PROVE  commands'[callback'[w]].kind = "async"
    <3>1. callback'[w] = callback[w] /\ callback[w] \in 1..n
      BY <1>1, <2>1
    <3>2. commands[callback[w]].kind = "async"
      BY <2>1, <3>1 DEF IInv, Typed
    <3> QED BY <1>2, <3>1, <3>2
  <2> QED BY <1>1, <1>2, <2>1 DEF Typed
<1>4. PagesExist'
  <2>1. Existing' = Existing
    BY DEF Existing, Alive, windows
  <2> QED BY <1>2, <2>1 DEF IInv, PagesExist, Alive, windows
<1>5. Followed'
  <2> SUFFICES ASSUME NEW e \in 1..n, Succeeded(commands'[e]), NEW w \in known
               PROVE  load[w] # e
    BY <1>2 DEF Followed, windows
  <2>1. CASE Succeeded(commands[e])
    BY <2>1 DEF IInv, Followed
  <2>2. CASE ~Succeeded(commands[e])
    <3>1. e = c /\ ~IsLoading
      BY <1>2, <2>2
    <3> QED BY <1>1, <3>1 DEF IsLoading
  <2> QED BY <2>1, <2>2
<1>6. \A e \in 1..n : Settled(commands'[e], Runs(stack', e))
  <2> TAKE e \in 1..n
  <2>1. CASE e = c
    BY <1>2, <2>1
  <2>2. CASE e # c
    <3>1. Runs(stack, e) \in BOOLEAN /\ Runs(stack', e) \in BOOLEAN
      BY DEF Runs
    <3>2. Settled(commands[e], Runs(stack, e))
      BY DEF IInv
    <3>3. Settled(commands[e], Runs(stack', e))
      BY <3>1, <3>2, SettledReturns
    <3> QED BY <1>2, <2>2, <3>3
  <2> QED BY <2>1, <2>2
<1> QED BY <1>2, <1>3, <1>4, <1>5, <1>6 DEF IInv

\* A command arrives; no window loads for it yet.
LEMMA OneMoreCommand ==
    ASSUME IInv, NEW kind \in Kinds, NEW timer \in BOOLEAN,
           NEW answers \in {<<>>, <<"success">>, <<"error">>},
           Arrives(kind, timer, answers),
           answers = <<>> => kind = "execute" \/ ~timer,
           answers # <<>> => ~timer \/ (kind = "execute" /\ current \notin known),
           Runs(stack', NewCommand) => answers = <<>> /\ current \in known
                                       /\ (kind \in Loading => ~timer),
           UNCHANGED <<load, crashed>>,
           UNCHANGED windows, crashed \/ Within(stack', Existing),
           Nested(stack', NewCommand), suspended' \subseteq 1..NewCommand,
           \A c \in 1..Len(commands) : Runs(stack', c) => Runs(stack, c),
           callback' \in [Windows -> 0..NewCommand],
           \A w \in Windows : callback'[w] # callback[w]
               => callback'[w] = NewCommand /\ kind = "async"
    PROVE  IInv'
<1> DEFINE n == Len(commands)
           d == [kind |-> kind, window |-> current, timer |-> timer, polls |-> 0,
                 missing |-> current \notin known, aborted |-> FALSE,
                 answers |-> answers]
<1>1. /\ commands \in Seq(Command) /\ n \in Nat /\ NewCommand = n + 1
      /\ n + 1 <= MaxCommands /\ callback \in [Windows -> 0..n]
      /\ current \in Windows /\ commands' = Append(commands, d)
  BY Numbers DEF IInv, Typed, PagesExist, Arrives, NewCommand, Commands
<1>2. /\ answers \in Seq(Answers) /\ Len(answers) <= 1
      /\ answers # <<"error", "error">>
  <2>1. "success" \in Answers /\ "error" \in Answers
    BY DEF Answers
  <2>2. Len(<<"error", "error">>) = 2 /\ Len(<<>>) = 0
    OBVIOUS
  <2>3. CASE answers = <<>>
    BY <2>2, <2>3
  <2>4. CASE answers = <<"success">>
    BY <2>1, <2>2, <2>4
  <2>5. CASE answers = <<"error">>
    BY <2>1, <2>2, <2>5
  <2> QED BY <2>3, <2>4, <2>5
<1>3. d \in Command
  BY <1>1, <1>2, Numbers DEF Command
<1>4. Settled(d, Runs(stack', NewCommand))
  <2>1. "execute" \notin Loading
    BY DEF Loading
  <2> QED BY <1>2, <2>1 DEF Settled
<1>5. d.kind = kind
  OBVIOUS
<1> HIDE DEF d
<1>6. /\ commands' \in Seq(Command) /\ Len(commands') = n + 1 /\ commands'[n + 1] = d
      /\ \A c \in 1..n : commands'[c] = commands[c]
  BY <1>1, <1>3, AppendProperties
<1>7. \A c \in 1..n + 1 : c \in 1..n \/ c = n + 1
  BY <1>1
<1>8. Typed'
  <2>1. ASSUME NEW w \in Windows, callback'[w] # 0
        PROVE  commands'[callback'[w]].kind = "async"
    <3>1. CASE callback'[w] = callback[w]
      <4>1. callback[w] \in 1..n
        BY <1>1, <2>1, <3>1
      <4>2. commands[callback[w]].kind = "async"
        BY <2>1, <3>1 DEF IInv, Typed
      <4> QED BY <1>6, <3>1, <4>1, <4>2
    <3>2. CASE callback'[w] # callback[w]
      BY <1>1, <1>5, <1>6, <3>2
    <3> QED BY <3>1, <3>2
  <2> QED BY <1>1, <1>6, <2>1 DEF Typed
<1>9. \A w \in Windows : load[w] = ByPage \/ load[w] <= n
  BY DEF IInv, PagesExist
<1>10. load \in [Windows -> 0..ByPage] /\ known \subseteq Windows
  BY DEF IInv, PagesExist, Existing
<1>11. PagesExist'
  <2>1. \A w \in Windows : load[w] = ByPage \/ load[w] <= n + 1
    BY <1>1, <1>9, <1>10, Numbers
  <2>2. Existing' = Existing
    BY DEF Existing, Alive, windows
  <2> QED BY <1>6, <2>1, <2>2 DEF IInv, PagesExist, Alive, windows
<1>12. Followed'
  <2> SUFFICES ASSUME NEW c \in 1..n + 1, Succeeded(commands'[c]), NEW w \in known
               PROVE  load[w] # c
    BY <1>6 DEF Followed, windows
  <2>1. CASE c \in 1..n
    BY <1>6, <2>1 DEF IInv, Followed
  <2>2. CASE c = n + 1
    BY <1>1, <1>9, <1>10, <2>2, Numbers
  <2> QED BY <1>7, <2>1, <2>2
<1>13. \A c \in 1..n + 1 : Settled(commands'[c], Runs(stack', c))
  <2> TAKE c \in 1..n + 1
  <2>1. CASE c = n + 1
    BY <1>1, <1>4, <1>6, <2>1
  <2>2. CASE c \in 1..n
    <3>1. Runs(stack, c) \in BOOLEAN /\ Runs(stack', c) \in BOOLEAN
      BY DEF Runs
    <3>2. Settled(commands[c], Runs(stack, c))
      BY <2>2 DEF IInv
    <3>3. Settled(commands[c], Runs(stack', c))
      BY <2>2, <3>1, <3>2, SettledReturns
    <3> QED BY <1>6, <2>2, <3>3
  <2> QED BY <1>7, <2>1, <2>2
<1> QED BY <1>6, <1>8, <1>11, <1>12, <1>13 DEF IInv

-----------------------------------------------------------------------------
(* Commands that arrive *)

\* A session starts with one window and no commands.
LEMMA InitIInv == Init => IInv
<1> SUFFICES ASSUME Init PROVE IInv
  OBVIOUS
<1>1. commands = <<>> /\ stack = <<>> /\ Len(commands) = 0 /\ Len(stack) = 0
  BY DEF Init
<1>2. Typed
  <2>1. commands \in Seq(Command) /\ stack \in Seq(Evaluation)
    BY <1>1, EmptySeq
  <2> QED BY <1>1, <2>1, Numbers DEF Init, Typed, Nested
<1>3. PagesExist
  <2>1. known \subseteq Existing
    BY Numbers DEF Init, Existing, Alive
  <2>2. load \in [Windows -> 0..ByPage]
    BY Numbers DEF Init
  <2>3. crashed \in BOOLEAN
    BY DEF Init
  <2>4. Within(stack, Existing)
    BY <1>1 DEF Within
  <2>5. \A w \in Windows : load[w] = 0
    BY DEF Init
  <2>6. /\ current \in Windows /\ session \in {"live", "deleted"}
        /\ window \in [Windows -> {"unborn", "open", "closing", "deleted"}]
    BY Numbers DEF Init
  <2>7. \A w \in Windows : load[w] = ByPage \/ load[w] <= Len(commands)
    BY <1>1, <2>5
  <2> QED BY <2>1, <2>2, <2>3, <2>4, <2>5, <2>6, <2>7 DEF PagesExist
<1> QED BY <1>1, <1>2, <1>3 DEF IInv, Followed

\* A larger number of commands bounds what a smaller one does.
LEMMA MoreCommands ==
    ASSUME IInv
    PROVE  /\ Len(commands) \in Nat /\ NewCommand = Len(commands) + 1
           /\ Nested(stack, NewCommand) /\ suspended \subseteq 1..NewCommand
           /\ callback \in [Windows -> 0..NewCommand]
           /\ ~Runs(stack, NewCommand) \/ NewCommand = ByPage
           /\ crashed \/ Within(stack, Existing)
<1> DEFINE n == Len(commands)
<1>1. /\ n \in Nat /\ NewCommand = n + 1 /\ Nested(stack, n)
      /\ suspended \subseteq 1..n /\ callback \in [Windows -> 0..n]
  BY DEF IInv, Typed, NewCommand
<1>2. \A i \in 1..Len(stack) : stack[i] \in Evaluation
  BY <1>1, ElementOfSeq DEF Nested
<1>3. \A i \in 1..Len(stack) : stack[i].who = ByPage \/ stack[i].who <= n
  BY <1>1 DEF Nested
<1>4. \A i \in 1..Len(stack) :
          stack[i].who = ByPage \/ (stack[i].who <= n + 1 /\ stack[i].who # n + 1)
  BY <1>1, <1>2, <1>3, Numbers DEF Evaluation
<1>5. Nested(stack, n + 1)
  BY <1>1, <1>4 DEF Nested
<1>6. ~Runs(stack, n + 1) \/ n + 1 = ByPage
  BY <1>4 DEF Runs
<1>7. 1..n \subseteq 1..n + 1 /\ 0..n \subseteq 0..n + 1
  BY <1>1
<1> QED BY <1>1, <1>5, <1>6, <1>7 DEF IInv, PagesExist

\* Commands that are answered as they arrive.
LEMMA AnsweredStep ==
    ASSUME IInv, (\E kind \in Offered : NoSuchWindow(kind)) \/ NowhereToGo
    PROVE  IInv'
<1>1. NewCommand # ByPage
  <2>1. NewCommand \in Commands
    BY DEF NoSuchWindow, NowhereToGo, Arrives
  <2> QED BY <2>1, Numbers DEF Commands
<1>2. \A c : <<c>> # <<>>
  <2> TAKE c
  <2>1. Len(<<c>>) = 1 /\ Len(<<>>) = 0
    OBVIOUS
  <2> QED BY <2>1
<1>3. ASSUME NEW kind \in Offered, NoSuchWindow(kind) PROVE IInv'
  <2>1. kind \in Kinds /\ (kind = "execute") \in BOOLEAN
    BY Numbers
  <2> QED BY <1>1, <1>2, <1>3, <2>1, MoreCommands, OneMoreCommand DEF NoSuchWindow, windows
<1>4. CASE NowhereToGo
  <2>1. "history" \in Kinds
    BY DEF Kinds, Loading
  <2> QED BY <1>1, <1>2, <1>4, <2>1, MoreCommands, OneMoreCommand DEF NowhereToGo, windows
<1> QED BY <1>3, <1>4

\* Commands that run code.
LEMMA RunCodeStep ==
    ASSUME IInv, NEW kind \in Offered, RunCode(kind)
    PROVE  IInv'
<1> DEFINE n == Len(commands)
           e == [who |-> NewCommand, window |-> current]
<1>1. /\ n \in Nat /\ NewCommand = n + 1 /\ NewCommand # ByPage /\ NewCommand \in 1..ByPage
      /\ Nested(stack, n) /\ ~Runs(stack, NewCommand) /\ n <= NewCommand
      /\ current \in Windows /\ current \in Existing
  <2>1. NewCommand \in Commands
    BY DEF RunCode, Arrives
  <2>2. current \in Existing
    BY DEF RunCode, IInv, PagesExist
  <2> QED BY <2>1, <2>2, MoreCommands, Numbers DEF IInv, Typed, PagesExist, Commands
<1>2. e \in Evaluation /\ e.who = NewCommand /\ e.window = current
  BY <1>1 DEF Evaluation
<1>3. stack' = Append(stack, e)
  BY DEF RunCode, Evaluate
<1> HIDE DEF e
<1>4. Nested(stack', NewCommand) /\ \A c : Runs(stack', c) => Runs(stack, c) \/ c = NewCommand
  BY <1>1, <1>2, <1>3, Begins
<1>5. /\ \A c \in 1..n : Runs(stack', c) => Runs(stack, c)
      /\ crashed \/ Within(stack', Existing)
  BY <1>1, <1>2, <1>3, <1>4, Begins, MoreCommands
<1>6. suspended' \subseteq 1..NewCommand
  <2> DEFINE own == {c \in {NewCommand} : kind = "execute"}
  <2>1. Armed \subseteq 1..n /\ suspended \subseteq 1..n
    BY <1>1 DEF Armed, IInv, Typed
  <2>2. 1..n \subseteq 1..n + 1 /\ own \subseteq 1..n + 1
    BY <1>1
  <2>3. suspended' = IF stack = <<>> THEN Armed \cup own ELSE suspended
    BY DEF RunCode, Evaluate
  <2> HIDE DEF own
  <2> QED BY <1>1, <2>1, <2>2, <2>3
<1>7. callback' \in [Windows -> 0..NewCommand]
  BY <1>1, MoreCommands DEF RunCode
<1>8. \A w \in Windows : callback'[w] # callback[w]
          => callback'[w] = NewCommand /\ kind = "async"
  BY <1>1, MoreCommands DEF RunCode
<1>9. kind \in Kinds /\ (kind = "execute") \in BOOLEAN /\ "execute" \notin Loading
  BY Numbers DEF Loading
<1> QED BY <1>1, <1>4, <1>5, <1>6, <1>7, <1>8, <1>9, OneMoreCommand DEF RunCode, windows

-----------------------------------------------------------------------------
(* Evaluations that begin, load and return *)

\* The invariant's part on windows depends on no timer and no evaluation.
LEMMA WindowsStay ==
    ASSUME IInv, UNCHANGED <<commands, windows, load, crashed>>,
           crashed \/ Within(stack', Existing)
    PROVE  PagesExist' /\ NoNewLoads
<1>1. Existing' = Existing
  BY DEF Existing, Alive, windows
<1> QED BY <1>1 DEF IInv, PagesExist, Alive, windows, NoNewLoads

\* A page's timer runs a script, or a long script has more timers suspended.
LEMMA PageTimerStep ==
    ASSUME IInv, Interrupt \/ \E w \in Windows : PageTimer(w)
    PROVE  IInv'
<1> DEFINE n == Len(commands)
<1>1. /\ n \in Nat /\ Nested(stack, n) /\ suspended \subseteq 1..n /\ Armed \subseteq 1..n
      /\ callback \in [Windows -> 0..n] /\ n # ByPage /\ ByPage \notin 1..n
  BY Numbers DEF IInv, Typed, Armed
<1>2. UNCHANGED <<commands, windows, load, crashed, callback>>
  BY DEF Interrupt, PageTimer
<1>3. crashed \/ Within(stack, Existing)
  BY DEF IInv, PagesExist
<1>4. CASE Interrupt
  <2>1. stack' = stack /\ suspended' = Armed
    BY <1>4 DEF Interrupt
  <2> QED BY <1>1, <1>2, <1>3, <2>1, WindowsStay, CommandsStay
<1>5. ASSUME NEW w \in Windows, PageTimer(w) PROVE IInv'
  <2> DEFINE e == [who |-> ByPage, window |-> w]
  <2>1. e \in Evaluation /\ e.who = ByPage /\ e.window \in Existing
    BY <1>5, Numbers DEF Evaluation, Existing, PageTimer
  <2>2. ~Runs(stack, ByPage) /\ stack' = Append(stack, e) /\ suspended' \subseteq 1..n
    <3>1. DOMAIN stack = 1..Len(stack)
      BY <1>1 DEF Nested
    <3> QED BY <1>1, <1>5, <3>1 DEF PageTimer, Firing, Runs, Evaluate
  <2> HIDE DEF e
  <2>3. Nested(stack', n) /\ \A c : Runs(stack', c) => Runs(stack, c) \/ c = ByPage
    BY <1>1, <2>1, <2>2, Begins
  <2>4. /\ \A c \in 1..n : Runs(stack', c) => Runs(stack, c)
        /\ crashed \/ Within(stack', Existing)
    BY <1>1, <1>3, <2>1, <2>2, <2>3, Begins
  <2> QED BY <1>1, <1>2, <2>2, <2>3, <2>4, WindowsStay, CommandsStay
<1> QED BY <1>4, <1>5

\* The code of a command makes its window load: the command has not succeeded.
LEMMA LoadStartsStep ==
    ASSUME IInv, LoadStarts
    PROVE  IInv'
<1> DEFINE n == Len(commands)
           top == Last(stack)
<1>1. /\ n \in Nat /\ Nested(stack, n) /\ suspended \subseteq 1..n /\ stack # <<>>
      /\ callback \in [Windows -> 0..n] /\ top.who # ByPage
      /\ commands[top.who].kind \in Loading
      /\ load' = [load EXCEPT ![top.window] = top.who]
      /\ UNCHANGED <<windows, callback, commands, stack, suspended, crashed>>
  BY DEF IInv, Typed, LoadStarts
<1>2. top \in Evaluation /\ Runs(stack, top.who) /\ top.who \in 1..n
  BY <1>1, Returns
<1>3. ~Succeeded(commands[top.who])
  <2>1. Settled(commands[top.who], Runs(stack, top.who))
    BY <1>2 DEF IInv
  <2>2. <<>> # <<"success">>
    <3>1. Len(<<>>) = 0 /\ Len(<<"success">>) = 1
      OBVIOUS
    <3> QED BY <3>1
  <2> QED BY <1>1, <1>2, <2>1, <2>2 DEF Settled, Succeeded
<1>4. top.window \in Windows /\ Alive(top.window)
  <2>1. Within(stack, Existing)
    BY DEF LoadStarts, IInv, PagesExist
  <2>2. top.window \in Existing
    BY <1>1, <2>1, Returns
  <2> QED BY <2>2 DEF Existing
<1>5. top.who \in 0..ByPage /\ top.who <= n
  BY <1>2, Numbers DEF Evaluation
<1> HIDE DEF top
<1>6. /\ load \in [Windows -> 0..ByPage] /\ load' \in [Windows -> 0..ByPage]
      /\ \A w \in Windows : w # top.window => load'[w] = load[w]
      /\ load'[top.window] = top.who
  BY <1>1, <1>4, <1>5 DEF IInv, PagesExist
<1>7. PagesExist'
  <2>1. Existing' = Existing
    BY <1>1 DEF Existing, Alive, windows
  <2>2. \A w \in Windows : load'[w] # 0 => Alive(w)
    BY <1>4, <1>6 DEF IInv, PagesExist
  <2>3. \A w \in Windows : load'[w] = ByPage \/ load'[w] <= n
    BY <1>5, <1>6 DEF IInv, PagesExist
  <2> QED BY <1>1, <1>6, <2>1, <2>2, <2>3 DEF IInv, PagesExist, Alive, windows
<1>8. NoNewLoads
  BY <1>1, <1>3, <1>6 DEF NoNewLoads, windows, IInv, PagesExist, Existing
<1> QED BY <1>1, <1>7, <1>8, CommandsStay

-----------------------------------------------------------------------------
(* Code that returns, timers that fire, pages that call back *)

\* A command that differs in its timer, polls, failure or answers.
With(b, timer, polls, aborted, answers) ==
    [b EXCEPT !.timer = timer, !.polls = polls, !.aborted = aborted, !.answers = answers]

LEMMA WithFields ==
    ASSUME NEW b \in Command, NEW timer \in BOOLEAN, NEW polls \in 0..MaxPolls,
           NEW aborted \in BOOLEAN, NEW answers \in Seq(Answers)
    PROVE  /\ With(b, timer, polls, aborted, answers) \in Command
           /\ With(b, timer, polls, aborted, answers).kind = b.kind
           /\ With(b, timer, polls, aborted, answers).missing = b.missing
           /\ With(b, timer, polls, aborted, answers).timer = timer
           /\ With(b, timer, polls, aborted, answers).polls = polls
           /\ With(b, timer, polls, aborted, answers).aborted = aborted
           /\ With(b, timer, polls, aborted, answers).answers = answers
BY DEF Command, With

\* The first answer of a command, and the one after it.
LEMMA Appended ==
    ASSUME NEW answers \in Seq(Answers), NEW a \in Answers
    PROVE  /\ Append(answers, a) \in Seq(Answers)
           /\ answers = <<>> => Append(answers, a) = <<a>> /\ Len(<<a>>) = 1
           /\ a # "success" => Append(answers, a) # <<"success">>
           /\ a # "error" => <<a>> # <<"error">>
           /\ answers # <<>> => Append(answers, a) # <<"success">>
<1>1. /\ Append(answers, a) \in Seq(Answers) /\ Len(Append(answers, a)) = Len(answers) + 1
      /\ Append(answers, a)[Len(answers) + 1] = a
  OBVIOUS
<1>2. <<"success">>[1] = "success" /\ Len(<<"success">>) = 1
      /\ <<"error">>[1] = "error" /\ <<a>>[1] = a /\ Len(answers) \in Nat
  OBVIOUS
<1>3. answers # <<>> => Len(answers) # 0
  OBVIOUS
<1>4. answers = <<>> => Append(answers, a) = <<a>> /\ Len(<<a>>) = 1
  OBVIOUS
<1> QED BY <1>1, <1>2, <1>3, <1>4

LEMMA Unsuccessful ==
    <<>> # <<"success">> /\ <<"error">> # <<"success">> /\ <<>> # <<"error">>
<1>1. /\ Len(<<>>) = 0 /\ Len(<<"success">>) = 1 /\ Len(<<"error">>) = 1
      /\ <<"success">>[1] = "success" /\ <<"error">>[1] = "error"
  OBVIOUS
<1> QED BY <1>1

\* The code of the innermost evaluation returns.
LEMMA CodeReturnsStep ==
    ASSUME IInv, CodeReturns
    PROVE  IInv'
<1> DEFINE n == Len(commands)
           c == Last(stack).who
           b == commands[c]
<1>1. /\ commands \in Seq(Command) /\ n \in Nat /\ Nested(stack, n) /\ stack # <<>>
      /\ suspended' \subseteq 1..n /\ callback \in [Windows -> 0..n]
      /\ stack' = Front(stack) /\ UNCHANGED <<windows, load, callback, crashed>>
      /\ Within(stack, Existing)
  <2>1. crashed \/ Within(stack, Existing)
    BY DEF IInv, PagesExist
  <2>2. /\ ~crashed /\ stack # <<>> /\ stack' = Front(stack)
        /\ suspended' = {} \/ suspended' = suspended
        /\ UNCHANGED <<windows, load, callback, crashed>>
    BY DEF CodeReturns, Return
  <2>3. /\ commands \in Seq(Command) /\ n \in Nat /\ Nested(stack, n)
        /\ suspended \subseteq 1..n /\ callback \in [Windows -> 0..n]
    BY DEF IInv, Typed
  <2> HIDE DEF n
  <2> QED BY <2>1, <2>2, <2>3
<1>2. /\ Runs(stack, c) /\ (c = ByPage \/ c \in 1..n) /\ Nested(stack', n)
      /\ Within(stack', Existing)
      /\ \A e : Runs(stack', e) => Runs(stack, e) /\ e # c
  BY <1>1, Returns
<1>3. CASE UNCHANGED commands
  <2>1. PagesExist' /\ NoNewLoads
    BY <1>1, <1>2, <1>3, WindowsStay
  <2> QED BY <1>1, <1>2, <1>3, <2>1, CommandsStay
<1>4. CASE c # ByPage /\ AfterCode(c)
  <2>1. /\ c \in 1..n /\ b \in Command /\ ~Runs(stack', c)
        /\ Settled(b, TRUE)
    <3>1. c \in 1..n /\ ~Runs(stack', c) /\ Runs(stack, c)
      BY <1>2, <1>4
    <3>2. Settled(b, Runs(stack, c)) /\ Runs(stack, c) = TRUE
      BY <3>1 DEF IInv, Runs
    <3> QED BY <1>1, <3>1, <3>2, ElementOfSeq
  <2>2. /\ b.timer \in BOOLEAN /\ b.polls \in 0..MaxPolls /\ b.aborted \in BOOLEAN
        /\ b.answers \in Seq(Answers)
        /\ "error" \in Answers /\ "reply" \in Answers
    BY <2>1 DEF Command, Answers
  <2> HIDE DEF b, c
  <2>3. ASSUME NEW timer \in BOOLEAN, NEW aborted \in BOOLEAN, NEW answers \in Seq(Answers),
               commands' = [commands EXCEPT ![c] = With(b, timer, b.polls, aborted, answers)],
               Settled(With(b, timer, b.polls, aborted, answers), FALSE),
               b.kind \in Loading => answers # <<"success">>
        PROVE  IInv'
    <3> DEFINE d == With(b, timer, b.polls, aborted, answers)
    <3>1. d \in Command /\ d.kind = b.kind /\ d.answers = answers
      BY <2>1, <2>2, WithFields
    <3>2. Runs(stack', c) = FALSE
      BY <2>1 DEF Runs
    <3>3. ~Succeeded(d)
      BY <2>3, <3>1 DEF Succeeded
    <3>4. Settled(d, Runs(stack', c))
      BY <2>3, <3>2
    <3>5. commands' = [commands EXCEPT ![c] = d] /\ d.kind = commands[c].kind
      BY <2>3, <3>1 DEF b
    <3>6. /\ \A e \in 1..n : Runs(stack', e) => Runs(stack, e)
          /\ \A w \in Windows : callback'[w] \in {0, callback[w]}
          /\ callback' \in [Windows -> 0..n] /\ (crashed \/ Within(stack', Existing))
      BY <1>1, <1>2
    <3> HIDE DEF d
    <3> QED BY <1>1, <1>2, <2>1, <3>1, <3>3, <3>4, <3>5, <3>6, OneCommand
  <2>4. CASE b.kind \in Loading /\ \E timer \in BOOLEAN :
                 commands' = [commands EXCEPT ![c].timer = timer]
    <3>0. PICK timer \in BOOLEAN : commands' = [commands EXCEPT ![c].timer = timer]
      BY <2>4
    <3> DEFINE d == With(b, timer, b.polls, b.aborted, b.answers)
    <3>1. b.answers = <<>> /\ ~b.aborted /\ <<>> # <<"success">>
      BY <2>1, <2>2, <2>4, Unsuccessful DEF Settled
    <3>2. Settled(d, FALSE)
      <4>1. /\ d.kind = b.kind /\ d.missing = b.missing
            /\ d.aborted = b.aborted /\ d.answers = b.answers
        BY <2>1, <2>2, WithFields
      <4> QED BY <2>1, <2>4, <3>1, <4>1 DEF Settled, Loading
    <3>3. commands' = [commands EXCEPT ![c] = d]
      BY <1>1, <2>1, <3>0 DEF With, Command, b
    <3> QED BY <2>2, <2>3, <3>1, <3>2, <3>3
  <2>5. CASE /\ b.kind = "load"
             /\ \E report \in BOOLEAN :
                    commands' = [commands EXCEPT ![c].timer = report, ![c].aborted = TRUE,
                                                 ![c].answers = Append(@, "error")]
    <3>0. PICK report, aborted \in BOOLEAN :
              /\ aborted = TRUE
              /\ commands' = [commands EXCEPT ![c].timer = report, ![c].aborted = aborted,
                                              ![c].answers = Append(@, "error")]
      BY <2>5
    <3> DEFINE answers == Append(b.answers, "error")
               d == With(b, report, b.polls, aborted, answers)
    <3>1. /\ answers = <<"error">> /\ Len(answers) = 1
          /\ answers # <<"success">> /\ "load" \in Loading
      BY <2>1, <2>2, <2>5, Appended DEF Settled, Loading
    <3>2. answers \in Seq(Answers) /\ commands' = [commands EXCEPT ![c] = d]
      BY <1>1, <2>1, <2>2, <3>0, Appended DEF With, Command, b
    <3> HIDE DEF answers
    <3>3. Settled(d, FALSE)
      <4>1. d.kind = b.kind /\ d.answers = answers
        BY <2>1, <2>2, <3>2, WithFields
      <4>2. d.aborted = aborted
        BY <2>1 DEF With, Command
      <4> HIDE DEF d
      <4>3. Len(d.answers) <= 1 /\ d.answers = <<"error">> /\ d.kind # "execute" /\ d.aborted
        BY <2>5, <3>0, <3>1, <4>1, <4>2
      <4> QED BY <4>3 DEF Settled
    <3> QED BY <2>2, <2>3, <3>1, <3>2, <3>3
  <2>6. ASSUME b.kind = "execute",
               commands' = [commands EXCEPT ![c].timer = FALSE,
                   ![c].answers = IF TimedOut(c) THEN @ ELSE Append(@, "reply")]
        PROVE  IInv'
    <3>0. PICK timer \in BOOLEAN : timer = FALSE
      OBVIOUS
    <3> DEFINE answers == IF TimedOut(c) THEN b.answers ELSE Append(b.answers, "reply")
               d == With(b, timer, b.polls, b.aborted, answers)
    <3>1. ~b.missing /\ "execute" \notin Loading /\ Len(b.answers) <= 1
      BY <2>1, <2>6 DEF Settled, Loading
    <3>2. answers \in Seq(Answers) /\ Len(answers) <= 1
      <4>1. CASE ~TimedOut(c)
        <5>1. b.answers = <<>>
          BY <2>1, <2>6, <3>1, <4>1 DEF Settled, TimedOut, b
        <5> QED BY <2>2, <4>1, <5>1, Appended
      <4>2. CASE TimedOut(c)
        BY <2>2, <3>1, <4>2
      <4> QED BY <4>1, <4>2
    <3>3. commands' = [commands EXCEPT ![c] = d]
      BY <1>1, <2>1, <2>6, <3>0 DEF With, Command, b
    <3> HIDE DEF answers
    <3>4. Settled(d, FALSE)
      <4>1. d.kind = b.kind /\ d.timer = timer /\ d.missing = b.missing /\ d.answers = answers
        BY <2>1, <2>2, <3>2, WithFields
      <4> QED BY <2>6, <3>0, <3>1, <3>2, <4>1 DEF Settled
    <3> QED BY <2>2, <2>3, <2>6, <3>1, <3>2, <3>3, <3>4
  <2>7. CASE b.kind \in Loading /\ commands' = [commands EXCEPT ![c].timer = TRUE]
    <3>1. TRUE \in BOOLEAN
      OBVIOUS
    <3> QED BY <2>4, <2>7, <3>1, Zenon
  <2> QED BY <1>3, <1>4, <2>5, <2>6, <2>7 DEF AfterCode, b
<1> QED BY <1>3, <1>4 DEF CodeReturns, c

\* One command is replaced, and all else stays.
LEMMA OnlyCommand ==
    ASSUME IInv, NEW c \in 1..Len(commands), NEW d \in Command,
           commands' = [commands EXCEPT ![c] = d], d.kind = commands[c].kind,
           Settled(d, Runs(stack, c)),
           Succeeded(d) => Succeeded(commands[c]) \/ ~IsLoading,
           UNCHANGED <<windows, load, crashed, stack, suspended>>,
           callback' \in [Windows -> 0..Len(commands)],
           \A w \in Windows : callback'[w] \in {0, callback[w]}
    PROVE  IInv'
<1>1. /\ Nested(stack, Len(commands)) /\ suspended \subseteq 1..Len(commands)
      /\ crashed \/ Within(stack, Existing)
  BY DEF IInv, Typed, PagesExist
<1> QED BY <1>1, OneCommand

\* A command whose timer fires is not the one whose code runs.
LEMMA FiringCommand ==
    ASSUME IInv, NEW c, Fires(c), commands[c].kind \in Loading
    PROVE  ~Runs(stack, c)
<1>1. c \in 1..Len(commands) /\ commands[c].timer
  BY DEF Fires, Armed, IInv, Typed
<1>2. Settled(commands[c], Runs(stack, c))
  BY <1>1 DEF IInv
<1> QED BY <1>1, <1>2 DEF Settled

\* The timer of a command fires, and is not set again.
LEMMA StoppedStep ==
    ASSUME IInv, NEW c, Fires(c), NEW answers \in Seq(Answers),
           commands' = [commands EXCEPT ![c].timer = FALSE, ![c].answers = answers],
           commands[c].kind \in Loading \cup {"execute"},
           answers = commands[c].answers
               \/ \E a \in Answers : answers = Append(commands[c].answers, a),
           commands[c].kind \in Loading /\ answers # commands[c].answers
               => ~commands[c].aborted,
           commands[c].kind \in Loading /\ answers = <<"success">>
               => \/ commands[c].answers = <<"success">> \/ ~IsLoading
                  \/ commands[c].kind = "history" /\ commands[c].polls > 0
    PROVE  IInv'
<1> DEFINE n == Len(commands)
           b == commands[c]
<1>1. /\ commands \in Seq(Command) /\ n \in Nat /\ c \in 1..n /\ b.timer
      /\ callback \in [Windows -> 0..n]
      /\ UNCHANGED <<windows, load, callback, stack, suspended, crashed>>
  BY DEF Fires, Armed, IInv, Typed
<1>2. b \in Command /\ Settled(b, Runs(stack, c)) /\ b.answers \in Seq(Answers)
      /\ b.polls \in 0..MaxPolls /\ b.aborted \in BOOLEAN
  <2>1. b \in Command
    BY <1>1, ElementOfSeq
  <2> QED BY <1>1, <2>1 DEF IInv, Command
<1>3. PICK timer \in BOOLEAN : timer = FALSE
  OBVIOUS
<1> DEFINE d == With(b, timer, b.polls, b.aborted, answers)
<1>4. commands' = [commands EXCEPT ![c] = d]
  BY <1>1, <1>2, <1>3 DEF With, Command
<1>5. b.answers = <<>> =>
          answers = b.answers \/ \E a \in Answers : answers = <<a>> /\ Len(<<a>>) = 1
  BY <1>2, Appended
<1> HIDE DEF b
<1>6. d \in Command /\ d.kind = b.kind /\ d.missing = b.missing
      /\ d.polls = b.polls /\ d.answers = answers
  BY <1>2, WithFields
<1>7. d.timer = timer /\ d.aborted = b.aborted
  BY <1>2 DEF With, Command
<1>8. Len(<<>>) = 0
  OBVIOUS
<1> HIDE DEF d
<1>9. Settled(d, Runs(stack, c))
  <2>1. CASE b.kind \in Loading
    <3>1. ~Runs(stack, c) /\ b.kind # "execute"
      BY <2>1, FiringCommand DEF b, Loading
    <3>2. b.answers = <<>> \/ (b.aborted /\ answers = <<"error">> /\ Len(answers) = 1)
      BY <1>1, <1>2, <2>1, FirstAnswer DEF Settled, b, Answers
    <3>3. Len(answers) <= 1 /\ (b.aborted => answers = <<"error">>)
      <4>1. CASE b.answers = <<>>
        <5>1. ~b.aborted
          BY <1>2, <2>1, <4>1, Unsuccessful DEF Settled
        <5>2. answers = <<>> \/ \E a \in Answers : answers = <<a>> /\ Len(<<a>>) = 1
          BY <1>5, <4>1
        <5>3. Len(answers) <= 1
          <6>1. CASE answers = <<>>
            BY <1>8, <6>1
          <6>2. ASSUME NEW a \in Answers, answers = <<a>>, Len(<<a>>) = 1
                PROVE  Len(answers) <= 1
            BY <6>2
          <6> QED BY <5>2, <6>1, <6>2
        <5> QED BY <5>1, <5>3, Zenon
      <4>2. CASE b.answers # <<>>
        <5>1. answers = <<"error">> /\ Len(answers) = 1
          BY <3>2, <4>2
        <5>2. Len(answers) <= 1
          BY <5>1
        <5> QED BY <5>1, <5>2, Zenon
      <4> QED BY <4>1, <4>2
    <3> QED BY <1>3, <1>6, <1>7, <2>1, <3>1, <3>3 DEF Settled
  <2>2. CASE b.kind = "execute"
    <3>1. b.kind \notin Loading
      BY <2>2 DEF Loading
    <3>2. b.missing \/ Len(answers) <= 1
      BY <1>1, <1>2, <1>5, <1>8, <2>2 DEF Settled, b
    <3>3. Runs(stack, c) => ~b.missing
      BY <1>2, <2>2 DEF Settled
    <3> QED BY <1>3, <1>6, <1>7, <2>2, <3>1, <3>2, <3>3 DEF Settled
  <2> QED BY <2>1, <2>2 DEF b
<1>10. Succeeded(d) => Succeeded(b) \/ ~IsLoading
  <2>1. b.kind = "history" /\ b.polls > 0 => ~Succeeded(d)
    BY <1>2, <1>6, Numbers DEF Succeeded
  <2>2. Succeeded(d) => b.kind \in Loading /\ answers = <<"success">>
    BY <1>6 DEF Succeeded
  <2>3. Succeeded(d) /\ b.answers = <<"success">> => Succeeded(b)
    BY <1>6 DEF Succeeded
  <2> QED BY <2>1, <2>2, <2>3 DEF b
<1> QED BY <1>1, <1>4, <1>6, <1>9, <1>10, OnlyCommand DEF b

\* The polls of checkLoadingFinished: success only when nothing loads, or when a
\* history command has polled before.
LEMMA CheckLoadingFinishedStep ==
    ASSUME IInv, NEW c \in Commands, CheckLoadingFinished(c)
    PROVE  IInv'
<1> DEFINE n == Len(commands)
           b == commands[c]
<1>1. /\ commands \in Seq(Command) /\ n \in Nat /\ c \in 1..n
      /\ callback \in [Windows -> 0..n] /\ Fires(c) /\ b.kind \in Loading
      /\ UNCHANGED <<windows, load, callback, stack, suspended, crashed>>
  BY DEF CheckLoadingFinished, Fires, Armed, IInv, Typed
<1>2. b \in Command /\ Settled(b, Runs(stack, c)) /\ b.answers \in Seq(Answers)
      /\ b.timer \in BOOLEAN /\ b.polls \in 0..MaxPolls /\ b.aborted \in BOOLEAN
  <2>1. b \in Command
    BY <1>1, ElementOfSeq
  <2> QED BY <1>1, <2>1 DEF IInv, Command
<1>3. ASSUME NEW a \in Answers, commands' = Stopped(c, a),
             a = "success" => ~IsLoading \/ (b.kind = "history" /\ b.polls > 0)
      PROVE  IInv'
  <2> DEFINE answers == IF b.aborted THEN b.answers ELSE Append(b.answers, a)
  <2>1. commands' = [commands EXCEPT ![c].timer = FALSE, ![c].answers = answers]
    BY <1>1, <1>3 DEF Stopped
  <2>2. /\ answers \in Seq(Answers)
        /\ answers = b.answers \/ \E e \in Answers : answers = Append(b.answers, e)
        /\ answers # b.answers => ~b.aborted
        /\ answers = <<"success">> => b.answers = <<"success">> \/ a = "success"
    BY <1>2, Appended
  <2> HIDE DEF answers
  <2> QED BY <1>1, <1>3, <2>1, <2>2, StoppedStep
<1>4. CASE ~IsLoading /\ commands' = Stopped(c, "success")
  BY <1>3, <1>4 DEF Answers
<1>5. CASE commands' = Retry(c) /\ b.polls < MaxPolls
  <2> DEFINE polls == b.polls + 1
             d == With(b, b.timer, polls, b.aborted, b.answers)
  <2>1. polls \in 0..MaxPolls /\ polls # 0
    BY <1>2, <1>5, Numbers
  <2>2. commands' = [commands EXCEPT ![c] = d]
    BY <1>1, <1>2, <1>5 DEF Retry, With, Command
  <2> HIDE DEF polls, b
  <2>3. /\ d \in Command /\ d.kind = b.kind /\ d.missing = b.missing
        /\ d.polls = polls /\ d.answers = b.answers
    BY <1>2, <2>1, WithFields
  <2>4. d.timer = b.timer /\ d.aborted = b.aborted
    BY <1>2 DEF With, Command
  <2> HIDE DEF d
  <2>5. Settled(d, Runs(stack, c))
    BY <1>2, <2>3, <2>4 DEF Settled
  <2>6. Succeeded(d) => Succeeded(b)
    BY <2>1, <2>3 DEF Succeeded
  <2> QED BY <1>1, <2>2, <2>3, <2>5, <2>6, OnlyCommand DEF b
<1>6. CASE commands' = [commands EXCEPT ![c].timer = FALSE]
  <2>1. commands' = [commands EXCEPT ![c].timer = FALSE, ![c].answers = b.answers]
    BY <1>1, <1>2, <1>6 DEF Command
  <2> QED BY <1>1, <1>2, <2>1, StoppedStep
<1>7. CASE b.polls > 0 /\ commands' = Stopped(c, TimeOutAnswer(c))
  <2>1. TimeOutAnswer(c) \in Answers
    BY DEF TimeOutAnswer, Answers
  <2>2. TimeOutAnswer(c) = "success" => b.kind = "history"
    BY DEF TimeOutAnswer
  <2> QED BY <1>3, <1>7, <2>1, <2>2
<1> QED BY <1>4, <1>5, <1>6, <1>7 DEF CheckLoadingFinished

\* The timer of a script answers without looking, but only once.
LEMMA ScriptTimerStep ==
    ASSUME IInv, NEW c \in Commands, ScriptTimer(c)
    PROVE  IInv'
<1> DEFINE b == commands[c]
           answers == IF b.aborted THEN b.answers ELSE Append(b.answers, "error")
<1>1. /\ Fires(c) /\ b.kind = "execute" /\ commands \in Seq(Command)
      /\ c \in 1..Len(commands)
  BY DEF ScriptTimer, Fires, Armed, IInv, Typed
<1>2. b \in Command /\ b.answers \in Seq(Answers) /\ b.kind \notin Loading
      /\ "error" \in Answers
  <2>1. b \in Command
    BY <1>1, ElementOfSeq
  <2> QED BY <1>1, <2>1 DEF Command, Loading, Answers
<1>3. CASE commands' = Stopped(c, "error")
  <2>1. commands' = [commands EXCEPT ![c].timer = FALSE, ![c].answers = answers]
    BY <1>1, <1>3 DEF Stopped
  <2>2. /\ answers \in Seq(Answers)
        /\ answers = b.answers \/ \E e \in Answers : answers = Append(b.answers, e)
    BY <1>2, Appended
  <2> HIDE DEF answers
  <2> QED BY <1>1, <1>2, <2>1, <2>2, StoppedStep
<1>4. CASE commands' = [commands EXCEPT ![c].timer = FALSE]
  <2>1. commands' = [commands EXCEPT ![c].timer = FALSE, ![c].answers = b.answers]
    BY <1>1, <1>2, <1>4 DEF Command
  <2> QED BY <1>1, <1>2, <2>1, StoppedStep
<1> QED BY <1>3, <1>4 DEF ScriptTimer

\* A page calls back: only a command of execute_async that has no answer hears.
LEMMA CallPhantomStep ==
    ASSUME IInv, NEW w \in Windows, CallPhantom(w)
    PROVE  IInv'
<1> DEFINE n == Len(commands)
           c == callback[w]
           b == commands[c]
<1>1. /\ commands \in Seq(Command) /\ n \in Nat /\ c \in 1..n /\ b.kind = "async"
      /\ callback \in [Windows -> 0..n]
      /\ UNCHANGED <<windows, load, stack, suspended, crashed>>
  <2>1. /\ commands \in Seq(Command) /\ n \in Nat /\ callback \in [Windows -> 0..n]
        /\ c # 0 /\ UNCHANGED <<windows, load, stack, suspended, crashed>>
    BY DEF CallPhantom, IInv, Typed
  <2>2. b.kind = "async"
    BY <2>1 DEF IInv, Typed
  <2> QED BY <2>1, <2>2
<1>2. b \in Command /\ b.timer \in BOOLEAN /\ b.polls \in 0..MaxPolls
      /\ b.aborted \in BOOLEAN
  <2>1. b \in Command
    BY <1>1, ElementOfSeq
  <2> QED BY <1>1, <2>1 DEF Command
<1>3. PICK answers \in {<<"reply">>, <<"error", "error">>, <<"error">>} :
          commands' = [commands EXCEPT ![c].answers = answers]
  BY DEF CallPhantom
<1>4. callback' = callback \/ callback' = [callback EXCEPT ![w] = 0]
  BY DEF CallPhantom
<1>5. answers \in Seq(Answers) /\ (Len(answers) <= 1 \/ answers = <<"error", "error">>)
  <2>1. "reply" \in Answers /\ "error" \in Answers
    BY DEF Answers
  <2>2. CASE answers = <<"reply">>
    BY <2>1, <2>2
  <2>3. CASE answers = <<"error", "error">>
    BY <2>1, <2>3
  <2>4. CASE answers = <<"error">>
    BY <2>1, <2>4
  <2> QED BY <2>2, <2>3, <2>4
<1> DEFINE d == With(b, b.timer, b.polls, b.aborted, answers)
<1>6. commands' = [commands EXCEPT ![c] = d]
  BY <1>1, <1>2, <1>3 DEF With, Command
<1>7. /\ \A v \in Windows : callback'[v] \in {0, callback[v]}
      /\ callback' \in [Windows -> 0..n]
  BY <1>1, <1>4
<1> HIDE DEF b
<1>8. d \in Command /\ d.kind = b.kind /\ d.answers = answers
  BY <1>2, <1>5, WithFields
<1> HIDE DEF d, c
<1>9. Settled(d, Runs(stack, c)) /\ ~Succeeded(d)
  <2>1. "async" \notin Loading
    BY DEF Loading
  <2> QED BY <1>1, <1>5, <1>8, <2>1 DEF Settled, Succeeded
<1> QED BY <1>1, <1>6, <1>7, <1>8, <1>9, OnlyCommand DEF b

-----------------------------------------------------------------------------
(* Windows *)

\* Windows open, close, change, and load for no command.
LEMMA WindowSteps ==
    ASSUME IInv,
           \/ DeleteSession
           \/ \E w \in Windows :
                  \/ CloseWindow(w) \/ SwitchToWindow(w) \/ PageCloses(w)
                  \/ DeletePage(w) \/ PageLoads(w) \/ LoadEnds(w)
                  \/ \E v \in Windows : OpenWindow(w, v)
    PROVE  IInv'
<1>1. /\ callback \in [Windows -> 0..Len(commands)] /\ Len(commands) \in Nat
      /\ Nested(stack, Len(commands)) /\ suspended \subseteq 1..Len(commands)
      /\ \A c \in 1..Len(commands) : c # ByPage
      /\ \A w \in Windows : load[w] = ByPage \/ load[w] <= Len(commands)
  BY Numbers DEF IInv, Typed, PagesExist
<1>2. PagesExist /\ known \subseteq Windows /\ ~crashed /\ Within(stack, Existing)
  BY DEF IInv, PagesExist, Existing, DeleteSession, CloseWindow, SwitchToWindow, PageCloses,
         DeletePage, PageLoads, LoadEnds, OpenWindow
<1>3. ASSUME UNCHANGED <<commands, stack, suspended>>, PagesExist', NoNewLoads,
             callback' \in [Windows -> 0..Len(commands)],
             \A w \in Windows : callback'[w] \in {0, callback[w]}
      PROVE  IInv'
  BY <1>1, <1>3, CommandsStay
<1>4. ASSUME UNCHANGED <<commands, stack, suspended, callback>>, PagesExist', NoNewLoads
      PROVE  IInv'
  BY <1>1, <1>3, <1>4
<1>5. ASSUME \A w \in Windows : Alive(w) => Alive(w)',
             known' \subseteq Existing', UNCHANGED <<load, stack, commands, crashed>>,
             session' \in {"live", "deleted"}, current' \in Windows,
             window' \in [Windows -> {"unborn", "open", "closing", "deleted"}]
      PROVE  PagesExist'
  <2>1. Existing \subseteq Existing'
    BY <1>5 DEF Existing
  <2>2. Within(stack, Existing)'
    BY <1>2, <1>5, <2>1 DEF Within
  <2> QED BY <1>2, <1>5, <2>2 DEF PagesExist
<1>6. ASSUME known' \subseteq known, UNCHANGED <<load, commands>> PROVE NoNewLoads
  BY <1>6 DEF NoNewLoads
<1>7. ASSUME UNCHANGED window PROVE Existing' = Existing /\ \A w \in Windows : Alive(w)' = Alive(w)
  BY <1>7 DEF Existing, Alive
<1>8. ASSUME NEW S, Closing(S)
      PROVE  /\ Existing' = Existing /\ \A w \in Windows : Alive(w) => Alive(w)'
             /\ window' \in [Windows -> {"unborn", "open", "closing", "deleted"}]
  <2>1. /\ window' \in [Windows -> {"unborn", "open", "closing", "deleted"}]
        /\ \A w \in Windows : Alive(w)' <=> Alive(w)
    BY <1>2, <1>8 DEF Closing, Alive, PagesExist
  <2> QED BY <2>1 DEF Existing
<1>9. CASE DeleteSession
  BY <1>2, <1>4, <1>5, <1>6, <1>8, <1>9 DEF DeleteSession, PagesStay, PagesExist
<1>10. ASSUME NEW w \in Windows, CloseWindow(w) \/ PageCloses(w) PROVE IInv'
  BY <1>2, <1>4, <1>5, <1>6, <1>8, <1>10 DEF CloseWindow, PageCloses, PagesStay, PagesExist
<1>11. ASSUME NEW w \in Windows, SwitchToWindow(w) PROVE IInv'
  BY <1>2, <1>4, <1>5, <1>6, <1>7, <1>11 DEF SwitchToWindow, PagesStay, PagesExist
<1>12. ASSUME NEW w \in Windows, PageLoads(w) \/ LoadEnds(w) PROVE IInv'
  <2>1. /\ UNCHANGED <<windows, commands, stack, suspended, callback, crashed>>
        /\ ~crashed /\ (load[w] # 0 \/ Alive(w))
        /\ load' = [load EXCEPT ![w] = ByPage] \/ load' = [load EXCEPT ![w] = 0]
    BY <1>12 DEF PageLoads, LoadEnds
  <2>2. /\ load' \in [Windows -> 0..ByPage]
        /\ \A v \in Windows : load'[v] \in {load[v], 0} \/ (v = w /\ load'[v] = ByPage)
    BY <1>2, <2>1, Numbers DEF PagesExist
  <2>3. NoNewLoads
    <3> SUFFICES ASSUME NEW v \in known, NEW c \in 1..Len(commands), load'[v] = c
                 PROVE  load[v] = c
      BY <2>1 DEF NoNewLoads, windows
    <3>1. v \in Windows /\ c # 0 /\ c # ByPage
      BY <1>1, <1>2
    <3> QED BY <2>2, <3>1
  <2>4. PagesExist'
    <3>1. \A v \in Windows : load'[v] # 0 => Alive(v)
      BY <1>2, <2>1, <2>2 DEF PagesExist
    <3>2. \A v \in Windows : load'[v] = ByPage \/ load'[v] <= Len(commands)
      BY <1>1, <2>2
    <3>3. Existing' = Existing /\ \A v \in Windows : Alive(v)' = Alive(v)
      BY <1>7, <2>1 DEF windows
    <3>4. crashed' \in BOOLEAN /\ Within(stack, Existing)'
      BY <1>2, <2>1, <3>3 DEF PagesExist, Within
    <3> QED BY <1>2, <2>1, <2>2, <3>1, <3>2, <3>3, <3>4 DEF PagesExist, windows
  <2> QED BY <1>4, <2>1, <2>3, <2>4
<1>13. ASSUME NEW w \in Windows, DeletePage(w) PROVE IInv'
  <2>1. /\ UNCHANGED <<session, current, commands, stack, suspended>>
        /\ known' = known \ {w} /\ window' = [window EXCEPT ![w] = "deleted"]
        /\ load' = [load EXCEPT ![w] = 0] /\ callback' = [callback EXCEPT ![w] = 0]
        /\ crashed' = \E i \in DOMAIN stack : stack[i].window = w
    BY <1>13 DEF DeletePage, DeleteClosingPage
  <2>2. /\ load' \in [Windows -> 0..ByPage] /\ 0 \in 0..ByPage
        /\ \A v \in Windows : load'[v] = IF v = w THEN 0 ELSE load[v]
        /\ window' \in [Windows -> {"unborn", "open", "closing", "deleted"}]
        /\ \A v \in Windows : v # w => (Alive(v)' <=> Alive(v))
    BY <1>2, <2>1, Numbers DEF PagesExist, Alive
  <2>3. Existing \ {w} \subseteq Existing'
    BY <2>2 DEF Existing
  <2>4. crashed' \/ Within(stack, Existing)'
    <3>1. DOMAIN stack = 1..Len(stack)
      BY <1>1 DEF Nested
    <3> QED BY <1>2, <2>1, <2>3, <3>1 DEF Within
  <2>5. crashed' \in BOOLEAN
    BY <2>1
  <2>6. known' \subseteq Existing'
    BY <1>2, <2>1, <2>3 DEF PagesExist
  <2>7. \A v \in Windows : load'[v] # 0 => Alive(v)'
    BY <1>2, <2>2 DEF PagesExist
  <2>8. \A v \in Windows : load'[v] = ByPage \/ load'[v] <= Len(commands)
    BY <1>1, <2>2
  <2>9. PagesExist'
    BY <1>2, <2>1, <2>2, <2>4, <2>5, <2>6, <2>7, <2>8 DEF PagesExist
  <2>10. NoNewLoads
    BY <1>2, <2>1, <2>2 DEF NoNewLoads
  <2>11. /\ callback' \in [Windows -> 0..Len(commands)]
         /\ \A v \in Windows : callback'[v] \in {0, callback[v]}
    BY <1>1, <2>1
  <2> QED BY <1>3, <2>1, <2>9, <2>10, <2>11
<1>14. ASSUME NEW w \in Windows, NEW v \in Windows, OpenWindow(w, v) PROVE IInv'
  <2>1. /\ window[v] = "unborn" /\ window' = [window EXCEPT ![v] = "open"]
        /\ known' = known \cup {v} /\ UNCHANGED <<session, current>>
        /\ UNCHANGED <<load, callback, commands, stack, suspended, crashed>>
    BY <1>14 DEF OpenWindow, PagesStay
  <2>2. /\ window' \in [Windows -> {"unborn", "open", "closing", "deleted"}]
        /\ \A x \in Windows : Alive(x) => Alive(x)'
        /\ Alive(v)' /\ ~Alive(v)
    BY <1>2, <2>1 DEF PagesExist, Alive
  <2>3. known' \subseteq Existing'
    BY <1>2, <2>1, <2>2 DEF PagesExist, Existing
  <2>4. PagesExist'
    BY <1>2, <1>5, <2>1, <2>2, <2>3 DEF PagesExist
  <2>5. load[v] = 0
    BY <1>2, <2>2 DEF PagesExist
  <2>6. NoNewLoads
    BY <1>1, <2>1, <2>5 DEF NoNewLoads
  <2> QED BY <1>4, <2>1, <2>4, <2>6
<1> QED BY <1>9, <1>10, <1>11, <1>12, <1>13, <1>14

-----------------------------------------------------------------------------
(* Theorems *)

\* Every step preserves the invariant.
LEMMA NextIInv == IInv /\ [Next]_vars => IInv'
<1> SUFFICES ASSUME IInv, [Next]_vars PROVE IInv'
  OBVIOUS
<1>1. CASE Requests
  BY <1>1, AnsweredStep, RunCodeStep, WindowSteps DEF Requests
<1>2. CASE Timers
  BY <1>2, CheckLoadingFinishedStep, ScriptTimerStep DEF Timers
<1>3. CASE Pages
  BY <1>3, LoadStartsStep, CodeReturnsStep, PageTimerStep, CallPhantomStep, WindowSteps
  DEF Pages
<1>4. CASE UNCHANGED vars
  BY <1>4
  DEF vars, windows, IInv, Typed, PagesExist, Followed, Existing, Alive
<1> QED BY <1>1, <1>2, <1>3, <1>4 DEF Next

\* The inductive invariant: no command whose code runs is answered or has a poll
\* set, no answered script a timer, and no window loads for one that succeeded.
THEOREM Invariance == Spec => []IInv
<1> QED BY InitIInv, NextIInv, PTL DEF Spec

\* A command is answered at most once, however its time-out, the return of its
\* code, its failure and nested commands interleave (executeCommand,
\* checkLoadingFinished, postClickCommand), but for the two exceptions.
THEOREM AnsweredOnceHolds == Spec => []AnsweredOnce
<1>1. ASSUME IInv PROVE AnsweredOnce
  <2>1. DOMAIN commands = 1..Len(commands)
    BY <1>1 DEF IInv, Typed
  <2> QED BY <1>1, <2>1 DEF IInv, Settled, AnsweredOnce
<1> QED BY <1>1, Invariance, PTL

\* The bound on what pages do by themselves is kept: only ByItself counts.
LEMMA EventsBounded == Spec => [](events \in 0..MaxEvents)
<1>1. Init => events \in 0..MaxEvents
  BY GhostSessionAssumption DEF Init
<1>2. events \in 0..MaxEvents /\ [Next]_vars => (events \in 0..MaxEvents)'
  <2> SUFFICES ASSUME events \in 0..MaxEvents, [Next]_vars
               PROVE  events' \in 0..MaxEvents
    OBVIOUS
  <2>1. ByItself => events' \in 0..MaxEvents
    BY GhostSessionAssumption DEF ByItself
  <2>2. CASE Requests
    BY <2>2 DEF Requests, NoSuchWindow, RunCode, NowhereToGo, DeleteSession,
                CloseWindow, SwitchToWindow
  <2>3. CASE Timers
    BY <2>3 DEF Timers, CheckLoadingFinished, ScriptTimer, Fires
  <2>4. CASE Pages
    BY <2>1, <2>4 DEF Pages, LoadStarts, CodeReturns, Interrupt, PageTimer, CallPhantom,
                      PageCloses, DeletePage, PageLoads, LoadEnds, OpenWindow
  <2>5. CASE UNCHANGED vars
    BY <2>5 DEF vars
  <2> QED BY <2>2, <2>3, <2>4, <2>5 DEF Next
<1> QED BY <1>1, <1>2, PTL DEF Spec

\* The session has the shape the code assumes: it knows only windows whose pages
\* exist, and evaluations and callbacks are of commands it has accepted
\* (_windows, onPageCreated, _closingPage).
THEOREM TypeCorrect == Spec => []TypeOK
<1>1. ASSUME IInv, events \in 0..MaxEvents PROVE TypeOK
  <2> DEFINE n == Len(commands)
  <2>1. /\ commands \in Seq(Command) /\ n \in Nat /\ n <= MaxCommands
        /\ stack \in Seq(Evaluation) /\ Nested(stack, n)
        /\ DOMAIN commands = 1..n /\ DOMAIN stack = 1..Len(stack)
        /\ callback \in [Windows -> 0..n] /\ suspended \subseteq 1..n
    BY <1>1 DEF IInv, Typed, Nested
  <2>2. callback \in [Windows -> 0..MaxCommands]
    BY <2>1, Numbers
  <2>3. \A c \in 1..n : commands[c].kind \in Kinds /\ commands[c].polls \in 0..MaxPolls
    <3>1. \A c \in 1..n : commands[c] \in Command
      BY <2>1, ElementOfSeq
    <3> QED BY <3>1 DEF Command
  <2>4. \A i \in 1..Len(stack) :
            stack[i].who \in 1..n \cup {ByPage} /\ stack[i].window \in Windows
    <3>1. \A i \in 1..Len(stack) : stack[i] \in Evaluation
      BY <2>1, ElementOfSeq
    <3>2. \A i \in 1..Len(stack) : stack[i].who = ByPage \/ stack[i].who <= n
      BY <2>1 DEF Nested
    <3> QED BY <2>1, <3>1, <3>2, Numbers DEF Evaluation
  <2> HIDE DEF n
  <2> QED BY <1>1, <2>1, <2>2, <2>3, <2>4 DEF TypeOK, IInv, PagesExist, Existing
<1> QED BY <1>1, Invariance, EventsBounded, PTL

\* When a command that loads is answered with success, the load that its code
\* began has ended, whatever other commands do to the windows meanwhile
\* (session.js isLoading, checkLoadingFinished); not so of a history command that
\* has polled, whose time-out reports success too.
THEOREM FollowsItsLoadHolds == Spec => []FollowsItsLoad
<1>1. ASSUME IInv PROVE FollowsItsLoad
  <2>1. DOMAIN commands = 1..Len(commands)
    BY <1>1 DEF IInv, Typed
  <2> QED BY <1>1, <2>1 DEF IInv, Followed, Succeeded, FollowsItsLoad
<1> QED BY <1>1, Invariance, PTL
=============================================================================
