---------------------------- MODULE Shell_proofs ----------------------------
(***************************************************************************)
(* For any number of processes, of lines and of Ctrl-Z: the prompt is      *)
(* quiet, and the table of jobs has every stopped process once; and        *)
(* checkSyntax accepts every line of the grammar, whatever its length, and *)
(* what it accepts besides is known.                                       *)
(*                                                                         *)
(* The argument.  Processes are forked in the order of their numbers, and  *)
(* waited for in that order, so that of the forked ones those below the    *)
(* line that runs, and those of the line already waited for, are at rest:  *)
(* they have ended or are stopped.  Only what is at rest is in the table,  *)
(* and only the line that runs, or the job that fg continues, has          *)
(* processes whose entries are behind.                                     *)
(*                                                                         *)
(* The syntax.  A line of the grammar leads the automaton along its parts. *)
(* Back: as long as the line can still be accepted, the state, the pipes   *)
(* and the files counted and the kind of the last file tell where in the   *)
(* grammar its tokens so far are.                                          *)
(***************************************************************************)
EXTENDS Shell, WellOrder, FiniteSetTheorems, SequenceTheorems

Launching == mode \in {"fork", "wait"}
Continuing == mode \in {"fg", "continued"}
Rests(p) == proc[p] \in {"none", "stopped", "exited"}

\* The line that runs has the numbers from pid[1] on, in order.
LineInv ==
    /\ line \in Seq(Tokens)
    /\ Launching =>
        /\ pid \in Seq(Pids) /\ Len(pid) \in Columns
        /\ \A i \in 1 .. Len(pid) : pid[i] = pid[1] + i - 1
        /\ at \in 1 .. Len(pid) + 1

\* Numbers are given in order.
NumbersInv ==
    Forked = 1 .. IF mode = "fork" THEN pid[1] + at - 2
                  ELSE IF mode = "wait" THEN pid[1] + Len(pid) - 1
                  ELSE Cardinality(Forked)

\* The shell has found a row for the process that it saw stop last.
RoomInv == mode = "wait" /\ at > 1 /\ status = "stopped" => jobnum + 1 \in Rows

\* fg goes along a row of the table, and what is in the table was forked.
RowInv ==
    /\ \A j \in Rows, i \in Columns : jobpid[j][i] # NoPid => jobpid[j][i] \in Forked
    /\ Continuing =>
        /\ jobnum >= 1 /\ jobfg \in Rows /\ at \in 1 .. 4
        /\ pid \in [Columns -> Pids \cup {NoPid}]
        /\ \A i \in Columns : pid[i] # NoPid => pid[i] \in Forked
    /\ mode = "continued" => at \in Columns /\ pid[at] # NoPid

\* Who may run.
QuietInv ==
    \A p \in Pids :
        CASE mode = "fork" -> p < pid[1] => Rests(p)
          [] mode = "wait" -> p < pid[1] + at - 1 => Rests(p)
          [] mode = "continued" -> p # pid[at] => Rests(p)
          [] mode = "undefined" -> TRUE
          [] OTHER -> Rests(p)

\* The table: what is listed is stopped, once.
Row(i) == IF i < at /\ i <= Len(pid) /\ proc[pid[i]] = "stopped" THEN pid[i] ELSE NoPid

ListInv ==
    /\ \A j, k \in Rows, i, l \in Columns :
        jobpid[j][i] = jobpid[k][l] /\ jobpid[j][i] # NoPid => j = k /\ i = l
    /\ \A j \in 1 .. jobnum : jobpid[j][1] # NoPid
    /\ \A j \in Rows : j > jobnum =>
        IF mode = "wait" /\ j = jobnum + 1 THEN \A i \in Columns : jobpid[j][i] = Row(i)
        ELSE \A i \in Columns : jobpid[j][i] = NoPid

Listed(p, J) == \E j \in J, i \in Columns : jobpid[j][i] = p

StoppedInv ==
    /\ mode = "prompt" => \A p \in Pids : proc[p] = "stopped" <=> Listed(p, 1 .. jobnum)
    /\ Launching =>
        /\ \A p \in Pids : Listed(p, 1 .. jobnum) <=> p < pid[1] /\ proc[p] = "stopped"
        /\ mode = "wait" /\ at > 1 => status = proc[pid[at - 1]]
    /\ Continuing =>
        /\ jobfg \in 1 .. jobnum /\ pid = jobpid[jobfg]
        /\ \A p \in Pids : (\A i \in Columns : p # pid[i]) =>
            (proc[p] = "stopped" <=> Listed(p, (1 .. jobnum) \ {jobfg}))
        /\ \A i \in Columns : pid[i] # NoPid /\ at <= i /\ ~ (mode = "continued" /\ at = i) =>
            proc[pid[i]] = "stopped"
        /\ at > 1 => pid[at - 1] # NoPid /\ status = proc[pid[at - 1]]

TableInv == orderly => ListInv /\ StoppedInv

ShellInv == TypeOK /\ LineInv /\ NumbersInv /\ RoomInv /\ RowInv /\ QuietInv /\ TableInv
-----------------------------------------------------------------------------
(* The automaton of checkSyntax *)

Automata ==
    [state : {e.to : e \in Edges} \cup {"WAIT_CMD"}, error : BOOLEAN, builtIn : BOOLEAN,
     recursive : Nat, fileQuota : Nat, last : {"", "in", "out"}]

\* The edges, state by state.
EdgeOf(from, on, to) ==
    CASE from = "WAIT_CMD" -> \/ on = OneArg /\ to = "WAIT_ONE_ARG"
                              \/ on = NoArg /\ to = "NO_MORE"
                              \/ on = {"word"} /\ to = "WAIT_ARG"
      [] from = "WAIT_ARG" -> \/ on = {"|"} /\ to = "WAIT_CMD"
                              \/ on = {"<"} /\ to = "WAIT_IN_FILE"
                              \/ on = {">"} /\ to = "WAIT_OUT_FILE"
                              \/ on = Legal /\ to = "WAIT_ARG"
      [] from = "WAIT_ONE_ARG" -> on = Legal /\ to = "NO_MORE"
      [] from = "WAIT_IN_FILE" -> on = Legal /\ to = "WAIT_MORE"
      [] from = "WAIT_OUT_FILE" -> on = Legal /\ to = "WAIT_MORE"
      [] from = "WAIT_MORE" -> \/ on = {"<"} /\ to = "WAIT_IN_FILE"
                               \/ on = {">"} /\ to = "WAIT_OUT_FILE"
                               \/ on = {"|"} /\ to = "WAIT_CMD"
      [] OTHER -> FALSE

\* They are all of the edges.
LEMMA EdgesAre ==
    /\ \A e \in Edges : EdgeOf(e.from, e.on, e.to)
    /\ \A from, on, to : EdgeOf(from, on, to) => Edge(from, on, to) \in Edges
<1>1. ASSUME NEW e \in Edges PROVE EdgeOf(e.from, e.on, e.to)
  BY SMT DEF Edges, Edge, EdgeOf
<1>2. ASSUME NEW from, NEW on, NEW to, EdgeOf(from, on, to) PROVE Edge(from, on, to) \in Edges
  <2>1. \/ from \in {"WAIT_CMD", "WAIT_ARG", "WAIT_ONE_ARG"}
        \/ from \in {"WAIT_IN_FILE", "WAIT_OUT_FILE", "WAIT_MORE"}
    BY <1>2 DEF EdgeOf
  <2> QED
    BY <1>2, <2>1 DEF Edges, EdgeOf
<1> QED
  BY <1>1, <1>2

\* The automaton is deterministic: a token leads to one state.
LEMMA OneWay ==
    ASSUME NEW from, NEW on, NEW to, NEW oo, NEW too, NEW token,
           EdgeOf(from, on, to), EdgeOf(from, oo, too), token \in on, token \in oo
    PROVE  to = too
  BY DEF EdgeOf, OneArg, NoArg, BuiltIn, Legal

\* What the automaton is in after a part of a line.
At(a, state, r, quota, last) ==
    /\ a \in Automata /\ ~ a.error
    /\ a.state = state /\ a.recursive = r /\ a.fileQuota = quota /\ a.last = last

Piped(r, token) == IF token = "|" THEN r + 1 ELSE r
Counted(quota, to) == IF to = "WAIT_MORE" THEN quota + 1 ELSE quota
Kind(from, last) ==
    IF from = "WAIT_IN_FILE" THEN "in" ELSE IF from = "WAIT_OUT_FILE" THEN "out" ELSE last

\* What Allowed asks.
May(from, to, r, quota, last) ==
    /\ from = "WAIT_IN_FILE" => r = 0
    /\ from = "WAIT_MORE" =>
        IF to = "WAIT_CMD" THEN last = "in" /\ r = 0
        ELSE quota <= 2 /\ (to = "WAIT_IN_FILE" <=> last = "out")

\* A token that an edge takes.
LEMMA StepTakes ==
    ASSUME NEW a \in Automata, NEW e \in Edges, NEW token,
           e.from = a.state, token \in e.on, Allowed(a, e)
    PROVE  LET b == Step(a, token) IN
           /\ b \in Automata /\ b.error = a.error /\ b.state = e.to
           /\ b.recursive = Piped(a.recursive, token)
           /\ b.fileQuota = Counted(a.fileQuota, e.to)
           /\ b.last = Kind(a.state, a.last)
<1> DEFINE taken == {x \in Edges : x.from = a.state /\ token \in x.on /\ Allowed(a, x)}
           c == CHOOSE x \in taken : TRUE
<1>1. e \in taken
  OBVIOUS
<1>2. c \in taken
  BY <1>1, Zenon
<1> HIDE DEF c
<1>3. c \in Edges /\ c.from = a.state /\ token \in c.on
  BY <1>2
<1>4. c.to = e.to
  BY <1>3, EdgesAre, OneWay
<1>5. taken # {} /\ Step(a, token) =
          IF taken = {} THEN [a EXCEPT !.error = TRUE]
          ELSE [a EXCEPT !.state = c.to,
                    !.builtIn = @ \/ (a.state = "WAIT_CMD" /\ token \in BuiltIn),
                    !.recursive = IF token = "|" THEN @ + 1 ELSE @,
                    !.fileQuota = IF c.to = "WAIT_MORE" THEN @ + 1 ELSE @,
                    !.last = CASE a.state = "WAIT_IN_FILE" -> "in"
                               [] a.state = "WAIT_OUT_FILE" -> "out"
                               [] OTHER -> @]
  BY <1>1 DEF Step, c
<1> DEFINE b == a.builtIn \/ (a.state = "WAIT_CMD" /\ token \in BuiltIn)
           r == Piped(a.recursive, token)
           n == Counted(a.fileQuota, e.to)
           l == Kind(a.state, a.last)
           lc == CASE a.state = "WAIT_IN_FILE" -> "in"
                   [] a.state = "WAIT_OUT_FILE" -> "out"
                   [] OTHER -> a.last
<1>6. a.recursive \in Nat /\ a.fileQuota \in Nat
  BY DEF Automata
<1>7. r \in Nat /\ n \in Nat
  BY <1>6 DEF Piped, Counted
<1>8. b \in BOOLEAN
  BY Zenon DEF Automata
<1>9. lc = l
  BY DEF Kind
<1>10. l \in {"", "in", "out"}
  BY DEF Automata, Kind
<1> HIDE DEF taken
<1>11. Step(a, token) = [a EXCEPT !.state = e.to, !.builtIn = b, !.recursive = r,
                                  !.fileQuota = n, !.last = l]
  BY <1>4, <1>5, <1>9 DEF Piped, Counted
<1>12. e.to \in {x.to : x \in Edges}
  OBVIOUS
<1> HIDE DEF b, r, n, l
<1>13. LET t == Step(a, token) IN
       /\ t \in Automata /\ t.error = a.error /\ t.state = e.to
       /\ t.recursive = r /\ t.fileQuota = n /\ t.last = l
  BY <1>7, <1>8, <1>10, <1>11, <1>12 DEF Automata
<1> QED
  BY <1>13 DEF r, n, l

\* A token that none takes.
LEMMA StepFails ==
    ASSUME NEW a \in Automata, NEW token,
           \A e \in Edges : ~ (e.from = a.state /\ token \in e.on /\ Allowed(a, e))
    PROVE  Step(a, token) \in Automata /\ Step(a, token).error
<1> DEFINE taken == {x \in Edges : x.from = a.state /\ token \in x.on /\ Allowed(a, x)}
<1>1. taken = {}
  OBVIOUS
<1>2. Step(a, token) = [a EXCEPT !.error = TRUE]
  BY <1>1 DEF Step
<1> QED
  BY <1>2 DEF Automata

\* With any token.
LEMMA StepStays ==
    ASSUME NEW a \in Automata, NEW token
    PROVE  Step(a, token) \in Automata
<1>1. CASE \E e \in Edges : e.from = a.state /\ token \in e.on /\ Allowed(a, e)
  BY <1>1, StepTakes
<1>2. CASE \A e \in Edges : ~ (e.from = a.state /\ token \in e.on /\ Allowed(a, e))
  BY <1>2, StepFails
<1> QED
  BY <1>1, <1>2

\* Forward: where an edge leads.
LEMMA Moves ==
    ASSUME NEW a, NEW from, NEW on, NEW to, NEW r, NEW quota, NEW last, NEW token,
           At(a, from, r, quota, last), EdgeOf(from, on, to), token \in on,
           May(from, to, r, quota, last)
    PROVE  At(Step(a, token), to, Piped(r, token), Counted(quota, to), Kind(from, last))
<1> DEFINE e == Edge(from, on, to)
<1>1. e \in Edges
  BY EdgesAre
<1>2. e.from = from /\ e.on = on /\ e.to = to
  BY DEF Edge
<1> HIDE DEF e
<1>3. a \in Automata /\ ~ a.error /\ a.state = from /\ a.recursive = r /\ a.fileQuota = quota
      /\ a.last = last
  BY DEF At
<1>4. Allowed(a, e)
  BY <1>2, <1>3 DEF Allowed, May
<1>5. LET b == Step(a, token) IN
      /\ b \in Automata /\ b.error = a.error /\ b.state = e.to
      /\ b.recursive = Piped(a.recursive, token)
      /\ b.fileQuota = Counted(a.fileQuota, e.to)
      /\ b.last = Kind(a.state, a.last)
  BY <1>1, <1>2, <1>3, <1>4, StepTakes
<1> QED
  BY <1>2, <1>3, <1>5 DEF At

\* Backward: a step without an error has taken an edge.
LEMMA Came ==
    ASSUME NEW a \in Automata, NEW token, ~ Step(a, token).error
    PROVE  /\ ~ a.error
           /\ \E on, to : /\ EdgeOf(a.state, on, to) /\ token \in on
                          /\ May(a.state, to, a.recursive, a.fileQuota, a.last)
                          /\ At(Step(a, token), to, Piped(a.recursive, token),
                                Counted(a.fileQuota, to), Kind(a.state, a.last))
<1>1. PICK e \in Edges : e.from = a.state /\ token \in e.on /\ Allowed(a, e)
  BY StepFails
<1>2. LET b == Step(a, token) IN
      /\ b \in Automata /\ b.error = a.error /\ b.state = e.to
      /\ b.recursive = Piped(a.recursive, token)
      /\ b.fileQuota = Counted(a.fileQuota, e.to)
      /\ b.last = Kind(a.state, a.last)
  BY <1>1, StepTakes
<1>3. EdgeOf(a.state, e.on, e.to)
  BY <1>1, EdgesAre
<1>4. May(a.state, e.to, a.recursive, a.fileQuota, a.last)
  BY <1>1 DEF Allowed, May
<1>5. ~ a.error
  BY <1>2
<1>6. At(Step(a, token), e.to, Piped(a.recursive, token), Counted(a.fileQuota, e.to),
         Kind(a.state, a.last))
  BY <1>2, <1>5 DEF At
<1> QED
  BY <1>1, <1>3, <1>4, <1>5, <1>6

\* The automaton's run over the line s.
IsRun(f, s) ==
    /\ f \in [0 .. Len(s) -> Automata]
    /\ f[0] = Start
    /\ \A k \in 0 .. Len(s) - 1 : f[k + 1] = Step(f[k], s[k + 1])

\* The recursive definition of Scan has a value, where the run ends.
LEMMA ScanIs ==
    ASSUME NEW s \in Seq(Tokens)
    PROVE  \E f : IsRun(f, s) /\ Scan(s) = f[Len(s)]
<1> DEFINE Good(f, k) == /\ f \in [0 .. k -> Automata]
                         /\ \A i \in 0 .. k : f[i] = IF i = 0 THEN Start ELSE Step(f[i - 1], s[i])
           G == {k \in Nat : k <= Len(s) => \E f : Good(f, k)}
<1>1. Start \in Automata
  BY DEF Start, Automata
<1>2. Good([i \in 0 .. 0 |-> Start], 0)
  BY <1>1
<1>3. ASSUME NEW k \in Nat, NEW f, Good(f, k), k + 1 <= Len(s)
      PROVE  \E g : Good(g, k + 1)
  <2> DEFINE a == Step(f[k], s[k + 1])
             g == [i \in 0 .. k + 1 |-> IF i = k + 1 THEN a ELSE f[i]]
  <2>1. f[k] \in Automata
    BY <1>3
  <2>2. a \in Automata
    BY <2>1, StepStays
  <2> HIDE DEF a
  <2>3. g \in [0 .. k + 1 -> Automata]
    BY <1>3, <2>2
  <2>4. \A i \in 0 .. k : g[i] = f[i]
    OBVIOUS
  <2>5. g[k + 1] = a
    OBVIOUS
  <2> HIDE DEF g
  <2>6. ASSUME NEW i \in 0 .. k + 1
        PROVE  g[i] = IF i = 0 THEN Start ELSE Step(g[i - 1], s[i])
    <3>1. CASE i = 0
      BY <1>3, <2>4, <3>1
    <3>2. CASE i \in 1 .. k
      <4>1. i - 1 \in 0 .. k /\ i \in 0 .. k /\ i # 0
        BY <3>2
      <4>2. g[i - 1] = f[i - 1] /\ g[i] = f[i]
        BY <2>4, <4>1
      <4>3. f[i] = Step(f[i - 1], s[i])
        BY <1>3, <4>1
      <4> QED
        BY <4>1, <4>2, <4>3
    <3>3. CASE i = k + 1
      <4>1. k \in 0 .. k /\ i - 1 = k /\ i # 0
        BY <3>3
      <4>2. g[k] = f[k]
        BY <2>4, <4>1
      <4> QED
        BY <2>5, <3>3, <4>1, <4>2 DEF a
    <3> QED
      BY <3>1, <3>2, <3>3
  <2> QED
    BY <2>3, <2>6
<1> HIDE DEF Good
<1>4. 0 \in G
  BY <1>2
<1>5. \A k \in Nat : k \in G => k + 1 \in G
  BY <1>3
<1> HIDE DEF G
<1>6. Nat \subseteq G
  BY <1>4, <1>5, FromZeroOn
<1>7. Len(s) \in Nat
  OBVIOUS
<1>8. PICK f : Good(f, Len(s))
  BY <1>6, <1>7 DEF G
<1> DEFINE after[i \in 0 .. Len(s)] == IF i = 0 THEN Start ELSE Step(after[i - 1], s[i])
<1>9. f = [i \in 0 .. Len(s) |-> IF i = 0 THEN Start ELSE Step(f[i - 1], s[i])]
  BY <1>8 DEF Good
<1>10. after = [i \in 0 .. Len(s) |-> IF i = 0 THEN Start ELSE Step(after[i - 1], s[i])]
  BY <1>9
<1>11. Scan(s) = after[Len(s)]
  BY DEF Scan
<1> HIDE DEF after
<1>12. after[0] = Start
  BY <1>7, <1>10
<1>13. ASSUME NEW k \in 0 .. Len(s) - 1 PROVE after[k + 1] = Step(after[k], s[k + 1])
  <2>1. k + 1 \in 0 .. Len(s) /\ k + 1 # 0 /\ (k + 1) - 1 = k
    BY <1>7
  <2> QED
    BY <1>10, <2>1
<1> DEFINE N == {k \in Nat : k <= Len(s) => after[k] \in Automata}
<1>14. 0 \in N
  BY <1>1, <1>12
<1>15. ASSUME NEW k \in Nat, k \in N PROVE k + 1 \in N
  <2> SUFFICES ASSUME k + 1 <= Len(s) PROVE after[k + 1] \in Automata
    OBVIOUS
  <2>1. after[k] \in Automata /\ k \in 0 .. Len(s) - 1
    BY <1>7, <1>15
  <2> QED
    BY <1>13, <2>1, StepStays
<1> HIDE DEF N
<1>16. Nat \subseteq N
  BY <1>14, <1>15, FromZeroOn
<1>17. \A k \in 0 .. Len(s) : after[k] \in Automata
  BY <1>7, <1>16 DEF N
<1>18. after \in [0 .. Len(s) -> Automata]
  BY <1>10, <1>17
<1> QED
  BY <1>11, <1>12, <1>13, <1>18 DEF IsRun

\* Its value is an automaton.
LEMMA ScanStays ==
    ASSUME NEW s \in Seq(Tokens)
    PROVE  Scan(s) \in Automata
<1>1. PICK f : IsRun(f, s) /\ Scan(s) = f[Len(s)]
  BY ScanIs
<1> QED
  BY <1>1 DEF IsRun

-----------------------------------------------------------------------------
(* The lines of the grammar are accepted *)

\* An edge of the run.
LEMMA RunMoves ==
    ASSUME NEW s \in Seq(Tokens), NEW f, IsRun(f, s), NEW k \in Nat, k + 1 <= Len(s),
           NEW from, NEW on, NEW to, NEW r, NEW quota, NEW last,
           At(f[k], from, r, quota, last), EdgeOf(from, on, to), s[k + 1] \in on,
           May(from, to, r, quota, last)
    PROVE  At(f[k + 1], to, Piped(r, s[k + 1]), Counted(quota, to), Kind(from, last))
<1>1. k \in 0 .. Len(s) - 1
  OBVIOUS
<1>2. f[k + 1] = Step(f[k], s[k + 1])
  BY <1>1 DEF IsRun
<1> QED
  BY <1>2, Moves

\* An argument or a file name is no pipe.
LEMMA LegalIsNoPipe == "|" \notin Legal /\ "word" \in Legal
  BY DEF Legal, BuiltIn, OneArg, NoArg

\* Before the first token.
LEMMA RunStarts ==
    ASSUME NEW s, NEW f, IsRun(f, s)
    PROVE  At(f[0], "WAIT_CMD", 0, 0, "")
<1>1. f[0] = Start /\ Start \in Automata
  BY DEF IsRun, Start, Automata
<1>2. /\ ~ Start.error /\ Start.state = "WAIT_CMD" /\ Start.recursive = 0
      /\ Start.fileQuota = 0 /\ Start.last = ""
  BY DEF Start
<1> QED
  BY <1>1, <1>2 DEF At

\* Behind a command and its arguments.
LEMMA CommandRuns ==
    ASSUME NEW s \in Seq(Tokens), NEW f, IsRun(f, s), NEW j \in Nat, NEW k \in Nat, k <= Len(s),
           NEW r, NEW quota, NEW last,
           At(f[j], "WAIT_CMD", r, quota, last), IsCommand(s, j, k)
    PROVE  At(f[k], "WAIT_ARG", r, quota, last)
<1>1. j < k /\ s[j + 1] = "word" /\ \A i \in j + 1 .. k : s[i] \in Legal
  BY DEF IsCommand
<1> DEFINE N == {n \in Nat : j + 1 + n <= k => At(f[j + 1 + n], "WAIT_ARG", r, quota, last)}
<1>2. 0 \in N
  <2>1. EdgeOf("WAIT_CMD", {"word"}, "WAIT_ARG") /\ May("WAIT_CMD", "WAIT_ARG", r, quota, last)
    BY DEF EdgeOf, May
  <2>2. At(f[j + 1], "WAIT_ARG", Piped(r, s[j + 1]), Counted(quota, "WAIT_ARG"),
           Kind("WAIT_CMD", last))
    BY <1>1, <2>1, RunMoves
  <2>3. At(f[j + 1], "WAIT_ARG", r, quota, last)
    BY <1>1, <2>2 DEF Piped, Counted, Kind
  <2>4. j + 1 + 0 = j + 1
    OBVIOUS
  <2> QED
    BY <2>3, <2>4
<1>3. ASSUME NEW n \in Nat, n \in N PROVE n + 1 \in N
  <2> SUFFICES ASSUME j + 1 + (n + 1) <= k
               PROVE  At(f[j + 1 + (n + 1)], "WAIT_ARG", r, quota, last)
    OBVIOUS
  <2> DEFINE i == j + 1 + n
  <2>1. i \in Nat /\ i + 1 <= Len(s) /\ i + 1 \in j + 1 .. k /\ j + 1 + (n + 1) = i + 1 /\ i <= k
    OBVIOUS
  <2>2. At(f[i], "WAIT_ARG", r, quota, last)
    BY <1>3, <2>1
  <2>3. EdgeOf("WAIT_ARG", Legal, "WAIT_ARG") /\ May("WAIT_ARG", "WAIT_ARG", r, quota, last)
    BY DEF EdgeOf, May
  <2>4. s[i + 1] \in Legal
    BY <1>1, <2>1
  <2> HIDE DEF i
  <2>5. At(f[i + 1], "WAIT_ARG", Piped(r, s[i + 1]), Counted(quota, "WAIT_ARG"),
           Kind("WAIT_ARG", last))
    BY <2>1, <2>2, <2>3, <2>4, RunMoves
  <2>6. At(f[i + 1], "WAIT_ARG", r, quota, last)
    BY <2>4, <2>5, LegalIsNoPipe DEF Piped, Counted, Kind
  <2> QED
    BY <2>1, <2>6
<1> HIDE DEF N
<1>4. k - j - 1 \in Nat /\ j + 1 + (k - j - 1) = k
  BY <1>1
<1>5. k - j - 1 \in N
  BY <1>2, <1>3, <1>4, FromZeroOn
<1> QED
  BY <1>4, <1>5 DEF N

\* An operator and a file.
LEMMA FileRuns ==
    ASSUME NEW s \in Seq(Tokens), NEW f, IsRun(f, s), NEW k \in Nat, k + 2 <= Len(s),
           NEW from \in {"WAIT_ARG", "WAIT_MORE"}, NEW r, NEW quota \in Nat, NEW last,
           At(f[k], from, r, quota, last), s[k + 1] \in {"<", ">"}, s[k + 2] \in Legal,
           s[k + 1] = "<" => r = 0,
           from = "WAIT_MORE" => quota <= 2 /\ (s[k + 1] = "<" <=> last = "out")
    PROVE  At(f[k + 2], "WAIT_MORE", r, quota + 1, IF s[k + 1] = "<" THEN "in" ELSE "out")
<1> DEFINE to == IF s[k + 1] = "<" THEN "WAIT_IN_FILE" ELSE "WAIT_OUT_FILE"
<1>1. EdgeOf(from, {s[k + 1]}, to) /\ May(from, to, r, quota, last)
  BY DEF EdgeOf, May
<1>2. k + 1 <= Len(s) /\ k + 1 \in Nat /\ (k + 1) + 1 = k + 2 /\ s[k + 1] \in {s[k + 1]}
  OBVIOUS
<1>3. to # "WAIT_MORE" /\ from \notin {"WAIT_IN_FILE", "WAIT_OUT_FILE"} /\ s[k + 1] # "|"
  OBVIOUS
<1>4. EdgeOf(to, Legal, "WAIT_MORE") /\ May(to, "WAIT_MORE", r, quota, last)
  BY DEF EdgeOf, May
<1>5. Kind(to, last) = IF s[k + 1] = "<" THEN "in" ELSE "out"
  BY DEF Kind
<1> HIDE DEF to
<1>6. At(f[k + 1], to, Piped(r, s[k + 1]), Counted(quota, to), Kind(from, last))
  BY <1>1, <1>2, RunMoves
<1>7. At(f[k + 1], to, r, quota, last)
  BY <1>3, <1>6 DEF Piped, Counted, Kind
<1>8. s[(k + 1) + 1] \in Legal /\ (k + 1) + 1 <= Len(s)
  BY <1>2
<1>9. At(f[(k + 1) + 1], "WAIT_MORE", Piped(r, s[(k + 1) + 1]), Counted(quota, "WAIT_MORE"),
         Kind(to, last))
  BY <1>2, <1>7, <1>8, <1>4, RunMoves
<1>10. Piped(r, s[(k + 1) + 1]) = r /\ Counted(quota, "WAIT_MORE") = quota + 1
  BY <1>8, LegalIsNoPipe DEF Piped, Counted
<1>11. At(f[(k + 1) + 1], "WAIT_MORE", r, quota + 1, Kind(to, last))
  BY ONLY <1>9, <1>10
<1> QED
  BY ONLY <1>2, <1>5, <1>11

\* The kind of the file that a command with these redirections names last.
Ends(ops, last) ==
    IF ops = <<>> THEN last ELSE IF ops[Len(ops)] = "<" THEN "in" ELSE "out"

Redirections == {<<>>, <<"<">>, <<">">>, <<"<", ">">>, <<">", "<">>}
Firsts == {<<>>, <<"<">>, <<">", "<">>}

\* What the proofs need to know of the redirections.
LEMMA OpsAre ==
    /\ \A ops \in Redirections :
         /\ Len(ops) \in 0 .. 2 /\ (ops = <<>> <=> Len(ops) = 0)
         /\ ops # <<>> => ops[1] \in {"<", ">"} /\ ops[Len(ops)] \in {"<", ">"}
         /\ Len(ops) = 2 => ops[2] # ops[1] /\ ops \notin {<<>>, <<">">>}
         /\ ops \in {<<>>, <<">">>} /\ ops # <<>> => Len(ops) = 1 /\ ops[1] = ">"
    /\ Firsts \subseteq Redirections
    /\ \A ops \in Firsts : ops # <<>> => ops[Len(ops)] = "<"
    /\ \A ops \in Firsts : ops \notin {<<>>, <<"<">>} => Len(ops) = 2 /\ ops = <<">", "<">>
    /\ <<>> \in Firsts /\ <<"<">> \in Firsts /\ <<">", "<">> \in Firsts
    /\ Len(<<>>) = 0 /\ Len(<<"<">>) = 1 /\ Len(<<">">>) = 1
    /\ Len(<<"<", ">">>) = 2 /\ Len(<<">", "<">>) = 2
    /\ {<<>>, <<">">>} \subseteq Redirections
<1>1. /\ Len(<<>>) = 0 /\ Len(<<"<">>) = 1 /\ Len(<<">">>) = 1
      /\ Len(<<"<", ">">>) = 2 /\ Len(<<">", "<">>) = 2
  OBVIOUS
<1>2. /\ <<"<">>[1] = "<" /\ <<">">>[1] = ">"
      /\ <<"<", ">">>[1] = "<" /\ <<"<", ">">>[2] = ">"
      /\ <<">", "<">>[1] = ">" /\ <<">", "<">>[2] = "<"
  OBVIOUS
<1>3. ASSUME NEW ops \in Redirections
      PROVE  /\ Len(ops) \in 0 .. 2 /\ (ops = <<>> <=> Len(ops) = 0)
             /\ ops # <<>> => ops[1] \in {"<", ">"} /\ ops[Len(ops)] \in {"<", ">"}
             /\ Len(ops) = 2 => ops[2] # ops[1] /\ ops \notin {<<>>, <<">">>}
             /\ ops \in {<<>>, <<">">>} /\ ops # <<>> => Len(ops) = 1 /\ ops[1] = ">"
  <2>1. CASE ops = <<>>
    BY <1>1, <2>1
  <2>2. CASE ops = <<"<">>
    BY <1>1, <1>2, <2>2
  <2>3. CASE ops = <<">">>
    BY <1>1, <1>2, <2>3
  <2>4. CASE ops = <<"<", ">">>
    BY <1>1, <1>2, <2>4
  <2>5. CASE ops = <<">", "<">>
    BY <1>1, <1>2, <2>5
  <2> QED
    BY <2>1, <2>2, <2>3, <2>4, <2>5 DEF Redirections
<1>4. \A ops \in Firsts : ops # <<>> => ops[Len(ops)] = "<"
  BY <1>1, <1>2 DEF Firsts
<1>5. \A ops \in Firsts : ops \notin {<<>>, <<"<">>} => Len(ops) = 2 /\ ops = <<">", "<">>
  BY <1>1 DEF Firsts
<1>6. Firsts \subseteq Redirections /\ {<<>>, <<">">>} \subseteq Redirections
  BY Zenon DEF Firsts, Redirections
<1>7. <<>> \in Firsts /\ <<"<">> \in Firsts /\ <<">", "<">> \in Firsts
  BY Zenon DEF Firsts
<1> QED
  BY <1>1, <1>3, <1>4, <1>5, <1>6, <1>7, Zenon

\* Behind a command with its redirections.
LEMMA RedirectedRuns ==
    ASSUME NEW s \in Seq(Tokens), NEW f, IsRun(f, s), NEW j \in Nat, NEW k \in Nat, k <= Len(s),
           NEW r, NEW quota \in Nat, NEW last, NEW ops \in Redirections,
           At(f[j], "WAIT_CMD", r, quota, last), IsRedirected(s, j, k, {ops}),
           (r = 0 /\ quota = 0) \/ ops \in {<<>>, <<">">>}
    PROVE  At(f[k], IF ops = <<>> THEN "WAIT_ARG" ELSE "WAIT_MORE", r, quota + Len(ops),
              Ends(ops, last))
<1>1. PICK i \in j .. k : IsCommand(s, j, i) /\ IsRedirection(s, i, k, ops)
  BY DEF IsRedirected
<1>2. i \in Nat /\ i <= Len(s)
  OBVIOUS
<1>3. At(f[i], "WAIT_ARG", r, quota, last)
  BY <1>1, <1>2, CommandRuns
<1>4. /\ k = i + 2 * Len(ops)
      /\ \A n \in 1 .. Len(ops) : s[i + 2 * n - 1] = ops[n] /\ s[i + 2 * n] \in Legal
  BY <1>1 DEF IsRedirection
<1>5. CASE ops = <<>>
  <2>1. k = i /\ quota + Len(ops) = quota /\ Ends(ops, last) = last
    BY <1>2, <1>4, <1>5 DEF Ends
  <2> QED
    BY <1>3, <1>5, <2>1
<1>6. ASSUME ops # <<>>
      PROVE  /\ ops[1] \in {"<", ">"} /\ s[i + 1] = ops[1] /\ s[i + 2] \in Legal
             /\ i + 2 <= k /\ (ops[1] = "<" => r = 0)
             /\ At(f[i + 2], "WAIT_MORE", r, quota + 1, IF ops[1] = "<" THEN "in" ELSE "out")
  <2>1. Len(ops) \in {1, 2} /\ 1 \in 1 .. Len(ops) /\ ops[1] \in {"<", ">"}
    BY <1>6 DEF Redirections
  <2>2. s[i + 2 * 1 - 1] = ops[1] /\ s[i + 2 * 1] \in Legal
    BY <1>4, <2>1
  <2>3. i + 2 * 1 - 1 = i + 1 /\ i + 2 * 1 = i + 2
    OBVIOUS
  <2>4. s[i + 1] = ops[1] /\ s[i + 2] \in Legal
    BY ONLY <2>2, <2>3
  <2>5. i + 2 <= k
    BY <1>4, <2>1
  <2>6. ops[1] = "<" => r = 0
    BY <1>6
  <2>7. At(f[i + 2], "WAIT_MORE", r, quota + 1, IF s[i + 1] = "<" THEN "in" ELSE "out")
    <3>1. s[i + 1] \in {"<", ">"} /\ (s[i + 1] = "<" => r = 0) /\ i + 2 <= Len(s)
      BY ONLY <2>1, <2>4, <2>5, <2>6, <1>2, k <= Len(s), k \in Nat, Len(s) \in Nat
    <3>2. "WAIT_ARG" \in {"WAIT_ARG", "WAIT_MORE"} /\ "WAIT_ARG" # "WAIT_MORE"
      OBVIOUS
    <3> QED
      BY <1>2, <1>3, <2>4, <3>1, <3>2, FileRuns
  <2> QED
    BY <2>1, <2>4, <2>5, <2>6, <2>7
<1>7. CASE ops \in {<<"<">>, <<">">>}
  <2>1. ops # <<>> /\ Len(ops) = 1 /\ Ends(ops, last) = IF ops[1] = "<" THEN "in" ELSE "out"
    BY <1>7 DEF Ends
  <2>2. k = i + 2
    BY <1>4, <2>1
  <2> QED
    BY <1>6, <2>1, <2>2
<1>8. CASE ops \in {<<"<", ">">>, <<">", "<">>}
  <2>1. /\ ops # <<>> /\ Len(ops) = 2 /\ 2 \in 1 .. Len(ops)
        /\ Ends(ops, last) = IF ops[2] = "<" THEN "in" ELSE "out"
        /\ ops[2] \in {"<", ">"} /\ (ops[1] = "<" <=> ops[2] # "<")
    BY <1>8 DEF Ends
  <2>2. r = 0 /\ quota = 0
    BY <2>1, OpsAre
  <2>3. s[i + 2 * 2 - 1] = ops[2] /\ s[i + 2 * 2] \in Legal
    BY <1>4, <2>1
  <2>4. i + 2 * 2 - 1 = (i + 2) + 1 /\ i + 2 * 2 = (i + 2) + 2 /\ i + 2 \in Nat
    OBVIOUS
  <2>5. s[(i + 2) + 1] = ops[2] /\ s[(i + 2) + 2] \in Legal
    BY ONLY <2>3, <2>4
  <2>6. k = (i + 2) + 2
    BY <1>4, <2>1
  <2> DEFINE n == i + 2
             l == IF ops[1] = "<" THEN "in" ELSE "out"
  <2>7. At(f[n], "WAIT_MORE", r, 1, l)
    BY <1>6, <2>1, <2>2
  <2>8. n \in Nat /\ n + 2 <= Len(s) /\ s[n + 1] = ops[2] /\ s[n + 2] \in Legal /\ k = n + 2
    BY <2>4, <2>5, <2>6
  <2>9. s[n + 1] = "<" <=> l = "out"
    BY <2>1, <2>8
  <2> HIDE DEF n, l
  <2>10. At(f[n + 2], "WAIT_MORE", r, 1 + 1, IF s[n + 1] = "<" THEN "in" ELSE "out")
    <3>1. 1 \in Nat /\ 1 <= 2 /\ s[n + 1] \in {"<", ">"} /\ (s[n + 1] = "<" => r = 0)
      BY <2>1, <2>2, <2>8
    <3>2. "WAIT_MORE" \in {"WAIT_ARG", "WAIT_MORE"}
      OBVIOUS
    <3> QED
      BY <2>7, <2>8, <2>9, <3>1, <3>2, FileRuns
  <2>11. quota + Len(ops) = 1 + 1
    BY <2>1, <2>2
  <2> QED
    BY ONLY <2>1, <2>8, <2>10, <2>11
<1> QED
  BY <1>5, <1>7, <1>8 DEF Redirections

\* What stands before a command: nothing, or r commands and their pipes, of which the first
\* has the redirections ops.
Begins(s, j, r, ops) ==
    \/ r = 0 /\ j = 0 /\ ops = <<>>
    \/ /\ ops \in Firsts /\ j \in 1 .. Len(s) /\ s[j] = "|"
       /\ \/ r = 1 /\ IsRedirected(s, 0, j - 1, {ops})
          \/ /\ r = 2
             /\ \E i \in 1 .. j - 1 :
                 s[i] = "|" /\ IsRedirected(s, 0, i - 1, {ops}) /\ IsCommand(s, i, j - 1)

FirstRead(ops) == IF ops = <<>> THEN "" ELSE "in"

\* A pipe after a command, or after a file that is read.
LEMMA PipeRuns ==
    ASSUME NEW s \in Seq(Tokens), NEW f, IsRun(f, s), NEW k \in Nat, k + 1 <= Len(s),
           NEW r \in Nat, NEW quota, NEW last, s[k + 1] = "|",
           \/ At(f[k], "WAIT_ARG", r, quota, last)
           \/ At(f[k], "WAIT_MORE", r, quota, last) /\ r = 0 /\ last = "in"
    PROVE  At(f[k + 1], "WAIT_CMD", r + 1, quota, last)
<1>1. PICK from \in {"WAIT_ARG", "WAIT_MORE"} :
        At(f[k], from, r, quota, last) /\ (from = "WAIT_MORE" => r = 0 /\ last = "in")
  OBVIOUS
<1>2. EdgeOf(from, {"|"}, "WAIT_CMD") /\ May(from, "WAIT_CMD", r, quota, last)
  BY <1>1 DEF EdgeOf, May
<1>3. At(f[k + 1], "WAIT_CMD", Piped(r, s[k + 1]), Counted(quota, "WAIT_CMD"), Kind(from, last))
  BY <1>1, <1>2, RunMoves
<1>4. Piped(r, s[k + 1]) = r + 1 /\ Counted(quota, "WAIT_CMD") = quota /\ Kind(from, last) = last
  BY <1>1 DEF Piped, Counted, Kind
<1> QED
  BY ONLY <1>3, <1>4

\* At the beginning of a command.
LEMMA BeginRuns ==
    ASSUME NEW s \in Seq(Tokens), NEW f, IsRun(f, s), NEW j \in 0 .. Len(s), NEW r, NEW ops,
           Begins(s, j, r, ops)
    PROVE  At(f[j], "WAIT_CMD", r, Len(ops), FirstRead(ops))
<1>1. At(f[0], "WAIT_CMD", 0, 0, "")
  BY RunStarts
<1>2. CASE r = 0 /\ j = 0 /\ ops = <<>>
  BY <1>1, <1>2 DEF FirstRead
<1>3. ASSUME NEW i \in 1 .. Len(s), s[i] = "|", ops \in Firsts, IsRedirected(s, 0, i - 1, {ops})
      PROVE  At(f[i], "WAIT_CMD", 1, Len(ops), FirstRead(ops))
  <2>1. ops \in Redirections /\ i - 1 \in Nat /\ i - 1 <= Len(s) /\ (i - 1) + 1 = i /\ 0 \in Nat
    BY <1>3 DEF Firsts, Redirections
  <2>2. At(f[i - 1], IF ops = <<>> THEN "WAIT_ARG" ELSE "WAIT_MORE", 0, 0 + Len(ops),
           Ends(ops, ""))
    BY <1>1, <1>3, <2>1, RedirectedRuns
  <2>3. 0 + Len(ops) = Len(ops) /\ Ends(ops, "") = FirstRead(ops)
        /\ (ops # <<>> => FirstRead(ops) = "in")
    <3>1. Len(ops) \in 0 .. 2
      BY <2>1, OpsAre
    <3>2. ops # <<>> => ops[Len(ops)] = "<"
      BY <1>3, OpsAre
    <3>3. CASE ops = <<>>
      BY <3>1, <3>3 DEF Ends, FirstRead
    <3>4. CASE ops # <<>>
      BY <3>1, <3>2, <3>4 DEF Ends, FirstRead
    <3> QED
      BY <3>3, <3>4
  <2>4. At(f[(i - 1) + 1], "WAIT_CMD", 0 + 1, Len(ops), FirstRead(ops))
    <3>1. \/ At(f[i - 1], "WAIT_ARG", 0, Len(ops), FirstRead(ops))
          \/ At(f[i - 1], "WAIT_MORE", 0, Len(ops), FirstRead(ops)) /\ FirstRead(ops) = "in"
      BY ONLY <2>2, <2>3
    <3>2. s[(i - 1) + 1] = "|" /\ (i - 1) + 1 <= Len(s)
      BY <1>3, <2>1
    <3> QED
      BY <2>1, <3>1, <3>2, PipeRuns
  <2>5. 0 + 1 = 1
    OBVIOUS
  <2> QED
    BY ONLY <2>1, <2>4, <2>5
<1>4. CASE /\ r = 1 /\ ops \in Firsts /\ j \in 1 .. Len(s) /\ s[j] = "|"
           /\ IsRedirected(s, 0, j - 1, {ops})
  BY <1>3, <1>4
<1>5. ASSUME NEW i \in 1 .. j - 1, r = 2, ops \in Firsts, j \in 1 .. Len(s), s[j] = "|", s[i] = "|",
             IsRedirected(s, 0, i - 1, {ops}), IsCommand(s, i, j - 1)
      PROVE  At(f[j], "WAIT_CMD", r, Len(ops), FirstRead(ops))
  <2>1. /\ i \in 1 .. Len(s) /\ i \in Nat /\ j - 1 \in Nat /\ j - 1 <= Len(s) /\ (j - 1) + 1 = j
        /\ 1 + 1 = 2 /\ 1 \in Nat
    BY <1>5
  <2>2. At(f[i], "WAIT_CMD", 1, Len(ops), FirstRead(ops))
    BY <1>3, <1>5, <2>1
  <2>3. At(f[j - 1], "WAIT_ARG", 1, Len(ops), FirstRead(ops))
    BY <1>5, <2>1, <2>2, CommandRuns
  <2>4. s[(j - 1) + 1] = "|" /\ (j - 1) + 1 <= Len(s)
    BY <1>5, <2>1
  <2>5. At(f[(j - 1) + 1], "WAIT_CMD", 1 + 1, Len(ops), FirstRead(ops))
    BY <2>1, <2>3, <2>4, PipeRuns
  <2> QED
    BY ONLY <1>5, <2>1, <2>5
<1> QED
  BY <1>2, <1>4, <1>5 DEF Begins

\* The run that checkSyntax takes for a legal line.
LEMMA AcceptedAt ==
    ASSUME NEW s \in Seq(Tokens), NEW f, IsRun(f, s), Scan(s) = f[Len(s)],
           NEW state, state \notin {"WAIT_IN_FILE", "WAIT_OUT_FILE", "WAIT_CMD"},
           NEW r \in 0 .. 2, NEW quota \in 0 .. 2, NEW last,
           At(f[Len(s)], state, r, quota, last)
    PROVE  checkSyntax(s)
  BY DEF checkSyntax, At

\* IsPiping leads to the beginning of a command.
LEMMA PipingBegins ==
    ASSUME NEW s \in Seq(Tokens), NEW First, First \subseteq Firsts, NEW j \in 1 .. Len(s)
    PROVE  IsPiping(s, j, First) <=> \E r \in {1, 2}, ops \in First : Begins(s, j, r, ops)
<1>1. ASSUME NEW i, IsRedirected(s, 0, i, First)
      PROVE  \E ops \in First : IsRedirected(s, 0, i, {ops})
  BY <1>1 DEF IsRedirected
<1>2. ASSUME NEW i, NEW ops \in First, IsRedirected(s, 0, i, {ops})
      PROVE  IsRedirected(s, 0, i, First)
  BY <1>2 DEF IsRedirected
<1>3. ASSUME IsPiping(s, j, First)
      PROVE  \E r \in {1, 2}, ops \in First : Begins(s, j, r, ops)
  <2>1. CASE IsRedirected(s, 0, j - 1, First)
    <3>1. PICK ops \in First : IsRedirected(s, 0, j - 1, {ops})
      BY <1>1, <2>1
    <3>2. Begins(s, j, 1, ops)
      BY <1>3, <3>1 DEF Begins, IsPiping
    <3> QED
      BY <3>2
  <2>2. ASSUME NEW i \in 1 .. j - 1, s[i] = "|", IsRedirected(s, 0, i - 1, First),
               IsCommand(s, i, j - 1)
        PROVE  \E r \in {1, 2}, ops \in First : Begins(s, j, r, ops)
    <3>1. PICK ops \in First : IsRedirected(s, 0, i - 1, {ops})
      BY <1>1, <2>2
    <3>2. Begins(s, j, 2, ops)
      BY <1>3, <2>2, <3>1 DEF Begins, IsPiping
    <3> QED
      BY <3>2
  <2> QED
    BY <1>3, <2>1, <2>2 DEF IsPiping
<1>4. ASSUME NEW r \in {1, 2}, NEW ops \in First, Begins(s, j, r, ops)
      PROVE  IsPiping(s, j, First)
  BY <1>2, <1>4 DEF Begins, IsPiping
<1> QED
  BY <1>3, <1>4

\* Behind a built-in command.
LEMMA BuiltInRuns ==
    ASSUME NEW s \in Seq(Tokens), NEW f, IsRun(f, s), NEW j \in Nat, NEW k \in Nat, k <= Len(s),
           NEW r, NEW quota, NEW last,
           At(f[j], "WAIT_CMD", r, quota, last), IsBuiltIn(s, j, k)
    PROVE  At(f[k], "NO_MORE", r, quota, last) \/ At(f[k], "WAIT_ONE_ARG", r, quota, last)
<1>0. j + 1 <= Len(s) /\ j + 1 \in Nat
  BY DEF IsBuiltIn
<1>1. ASSUME NEW on, NEW to, EdgeOf("WAIT_CMD", on, to), s[j + 1] \in on, "|" \notin on
      PROVE  At(f[j + 1], to, r, quota, last)
  <2>1. May("WAIT_CMD", to, r, quota, last)
    BY DEF May
  <2>2. At(f[j + 1], to, Piped(r, s[j + 1]), Counted(quota, to), Kind("WAIT_CMD", last))
    BY <1>0, <1>1, <2>1, RunMoves
  <2>3. to # "WAIT_MORE"
    BY <1>1 DEF EdgeOf
  <2> QED
    BY <1>1, <2>2, <2>3 DEF Piped, Counted, Kind
<1>2. EdgeOf("WAIT_CMD", OneArg, "WAIT_ONE_ARG") /\ EdgeOf("WAIT_CMD", NoArg, "NO_MORE")
      /\ "|" \notin OneArg /\ "|" \notin NoArg
  BY DEF EdgeOf, OneArg, NoArg
<1>3. s[j + 1] \in OneArg => At(f[j + 1], "WAIT_ONE_ARG", r, quota, last)
  BY <1>1, <1>2
<1>4. s[j + 1] \in NoArg => At(f[j + 1], "NO_MORE", r, quota, last)
  BY <1>1, <1>2
<1>5. CASE k = j + 1 /\ s[k] \in BuiltIn
  BY <1>3, <1>4, <1>5 DEF BuiltIn
<1>6. CASE k = j + 2 /\ s[j + 1] \in OneArg /\ s[k] \in Legal
  <2>1. (j + 1) + 1 = k /\ (j + 1) + 1 <= Len(s)
    BY <1>6
  <2>2. EdgeOf("WAIT_ONE_ARG", Legal, "NO_MORE") /\ May("WAIT_ONE_ARG", "NO_MORE", r, quota, last)
    BY DEF EdgeOf, May
  <2>3. s[(j + 1) + 1] \in Legal /\ At(f[j + 1], "WAIT_ONE_ARG", r, quota, last)
    BY <1>3, <1>6, <2>1
  <2>4. At(f[(j + 1) + 1], "NO_MORE", Piped(r, s[(j + 1) + 1]), Counted(quota, "NO_MORE"),
           Kind("WAIT_ONE_ARG", last))
    BY <1>0, <2>1, <2>2, <2>3, RunMoves
  <2>5. At(f[(j + 1) + 1], "NO_MORE", r, quota, last)
    BY <2>3, <2>4, LegalIsNoPipe DEF Piped, Counted, Kind
  <2> QED
    BY ONLY <2>1, <2>5
<1> QED
  BY <1>5, <1>6 DEF IsBuiltIn

\* Every line of the grammar is taken to its end.
LEMMA AcceptedRuns ==
    ASSUME NEW s \in Seq(Tokens), Accepted(s)
    PROVE  checkSyntax(s)
<1> DEFINE n == Len(s)
<1>0. n \in Nat /\ n <= n
  OBVIOUS
<1>1. PICK f : IsRun(f, s) /\ Scan(s) = f[n]
  BY ScanIs
<1> HIDE DEF n
<1>2. ASSUME NEW j \in 0 .. n, NEW r \in 0 .. 2, NEW ops \in Firsts, Begins(s, j, r, ops),
             NEW red \in Redirections, IsRedirected(s, j, n, {red}),
             Len(ops) + Len(red) <= 2, r = 0 \/ red \in {<<>>, <<">">>}
      PROVE  checkSyntax(s)
  <2>1. At(f[j], "WAIT_CMD", r, Len(ops), FirstRead(ops)) /\ j \in Nat
    BY <1>1, <1>2, BeginRuns DEF n
  <2>2. r = 0 => Len(ops) = 0
    BY <1>0, <1>2 DEF Begins, n
  <2>3. Len(ops) \in Nat /\ Len(red) \in Nat
    BY DEF Firsts, Redirections
  <2>4. At(f[n], IF red = <<>> THEN "WAIT_ARG" ELSE "WAIT_MORE", r, Len(ops) + Len(red),
           Ends(red, FirstRead(ops)))
    BY <1>0, <1>1, <1>2, <2>1, <2>2, <2>3, RedirectedRuns DEF n
  <2>5. Len(ops) + Len(red) \in 0 .. 2
    BY <1>2, <2>3
  <2> DEFINE state == IF red = <<>> THEN "WAIT_ARG" ELSE "WAIT_MORE"
             quota == Len(ops) + Len(red)
             last == Ends(red, FirstRead(ops))
  <2>6. state \notin {"WAIT_IN_FILE", "WAIT_OUT_FILE", "WAIT_CMD"} /\ quota \in 0 .. 2
        /\ At(f[n], state, r, quota, last)
    BY <2>4, <2>5
  <2> HIDE DEF state, quota, last
  <2> QED
    BY <1>1, <2>6, AcceptedAt DEF n
<1>3. ASSUME NEW j \in 0 .. n, NEW r \in 0 .. 2, NEW ops \in Firsts, Begins(s, j, r, ops),
             IsBuiltIn(s, j, n)
      PROVE  checkSyntax(s)
  <2>1. At(f[j], "WAIT_CMD", r, Len(ops), FirstRead(ops)) /\ j \in Nat
    BY <1>1, <1>3, BeginRuns DEF n
  <2>2. \E state \in {"NO_MORE", "WAIT_ONE_ARG"} : At(f[n], state, r, Len(ops), FirstRead(ops))
    BY <1>0, <1>1, <1>3, <2>1, BuiltInRuns DEF n
  <2>3. Len(ops) \in 0 .. 2
    BY DEF Firsts
  <2> QED
    BY <1>1, <2>2, <2>3, AcceptedAt DEF n
<1>4. ASSUME NEW i, NEW j, NEW Ops, IsRedirected(s, i, j, Ops)
      PROVE  \E red \in Ops : IsRedirected(s, i, j, {red})
  BY <1>4 DEF IsRedirected
<1>5. Begins(s, 0, 0, <<>>) /\ <<>> \in Firsts /\ 0 \in 0 .. n /\ 0 \in 0 .. 2
  BY <1>0 DEF Begins, Firsts
<1>6. CASE IsRedirected(s, 0, n, {<<>>, <<"<">>, <<">">>, <<"<", ">">>, <<">", "<">>})
  <2>1. PICK red \in Redirections : IsRedirected(s, 0, n, {red})
    <3>1. IsRedirected(s, 0, n, Redirections)
      BY <1>6 DEF Redirections
    <3> QED
      BY <1>4, <3>1
  <2>2. Len(<<>>) + Len(red) <= 2
    BY OpsAre
  <2> QED
    BY <1>2, <1>5, <2>1, <2>2
<1>7. ASSUME NEW j \in 1 .. n, IsPiping(s, j, {<<>>, <<"<">>}),
             IsRedirected(s, j, n, {<<>>, <<">">>})
      PROVE  checkSyntax(s)
  <2>1. PICK red \in {<<>>, <<">">>} : IsRedirected(s, j, n, {red})
    BY <1>4, <1>7
  <2>2. {<<>>, <<"<">>} \subseteq Firsts
    BY DEF Firsts
  <2>3. PICK r \in {1, 2}, ops \in {<<>>, <<"<">>} : Begins(s, j, r, ops)
    BY <1>7, <2>2, PipingBegins DEF n
  <2>4. red \in Redirections /\ ops \in Firsts /\ j \in 0 .. n /\ r \in 0 .. 2
    BY OpsAre
  <2>5. Len(ops) + Len(red) <= 2
    <3>1. Len(<<>>) = 0 /\ Len(<<"<">>) = 1 /\ Len(<<">">>) = 1
      BY OpsAre
    <3>2. Len(ops) \in 0 .. 1
      BY <3>1
    <3>3. Len(red) \in 0 .. 1
      BY <3>1
    <3>4. \A x, y \in 0 .. 1 : x + y <= 2
      OBVIOUS
    <3> QED
      BY <3>2, <3>3, <3>4, Zenon
  <2> QED
    BY <1>2, <2>1, <2>3, <2>4, <2>5
<1>8. ASSUME NEW j \in 1 .. n, IsPiping(s, j, {<<">", "<">>}), IsCommand(s, j, n)
      PROVE  checkSyntax(s)
  <2>1. {<<">", "<">>} \subseteq Firsts
    BY OpsAre, Zenon
  <2>2. PICK r \in {1, 2}, ops \in {<<">", "<">>} : Begins(s, j, r, ops)
    <3> DEFINE First == {<<">", "<">>}
    <3>1. First \subseteq Firsts /\ IsPiping(s, j, First) /\ j \in 1 .. Len(s)
      BY <1>8, <2>1 DEF n
    <3> HIDE DEF First
    <3>2. \E r \in {1, 2}, ops \in First : Begins(s, j, r, ops)
      BY <3>1, PipingBegins
    <3> QED
      BY <3>2 DEF First
  <2>3. IsRedirected(s, j, n, {<<>>})
    BY <1>0, <1>8 DEF IsRedirected, IsRedirection
  <2>4. <<>> \in Redirections /\ ops \in Firsts /\ Len(ops) + Len(<<>>) <= 2 /\ j \in 0 .. n
        /\ r \in 0 .. 2
    BY OpsAre
  <2> QED
    BY <1>2, <2>2, <2>3, <2>4
<1>9. CASE IsBuiltIn(s, 0, n)
  BY <1>3, <1>5, <1>9
<1>10. ASSUME NEW j \in 1 .. n, IsPiping(s, j, {<<>>, <<"<">>, <<">", "<">>}), IsBuiltIn(s, j, n)
       PROVE  checkSyntax(s)
  <2>1. PICK r \in {1, 2}, ops \in Firsts : Begins(s, j, r, ops)
    BY <1>10, PipingBegins, SMTT(30) DEF n, Firsts
  <2>2. j \in 0 .. n /\ r \in 0 .. 2
    OBVIOUS
  <2> QED
    BY <1>3, <1>10, <2>1, <2>2
<1> QED
  BY <1>6, <1>7, <1>8, <1>9, <1>10 DEF Accepted, IsPipeline, IsDropping, IsUnrunnable, n

-----------------------------------------------------------------------------
(* The lines that are accepted are of the grammar *)

\* No continuation of the line is accepted any more.
Lost(state, r, quota) ==
    \/ quota >= 3 \/ r >= 3
    \/ state = "WAIT_IN_FILE" /\ (r > 0 \/ quota >= 2)
    \/ state = "WAIT_OUT_FILE" /\ quota >= 2

Doomed(a) == a.error \/ Lost(a.state, a.recursive, a.fileQuota)

\* A run that ends well was never lost.
LEMMA DoomedStays ==
    ASSUME NEW a \in Automata, NEW token, ~ Doomed(Step(a, token))
    PROVE  ~ Doomed(a)
<1> DEFINE b == Step(a, token)
<1>1. ~ b.error
  BY DEF Doomed
<1>2. ~ a.error
  BY <1>1, Came
<1>3. PICK on, to : /\ EdgeOf(a.state, on, to) /\ token \in on
                    /\ May(a.state, to, a.recursive, a.fileQuota, a.last)
                    /\ At(b, to, Piped(a.recursive, token), Counted(a.fileQuota, to),
                          Kind(a.state, a.last))
  BY <1>1, Came
<1>4. ~ Lost(to, Piped(a.recursive, token), Counted(a.fileQuota, to))
  BY <1>3 DEF Doomed, At
<1>5. a.recursive \in Nat /\ a.fileQuota \in Nat
  BY DEF Automata
<1>6. /\ a.recursive <= Piped(a.recursive, token)
      /\ a.fileQuota <= Counted(a.fileQuota, to)
  BY <1>5 DEF Piped, Counted
<1>7. a.fileQuota < 3 /\ a.recursive < 3
  BY <1>4, <1>5, <1>6 DEF Lost, Piped, Counted
<1>8. a.state \in {"WAIT_IN_FILE", "WAIT_OUT_FILE"} => a.fileQuota < 2
  <2> SUFFICES ASSUME a.state \in {"WAIT_IN_FILE", "WAIT_OUT_FILE"} PROVE a.fileQuota < 2
    OBVIOUS
  <2>1. to = "WAIT_MORE"
    BY <1>3 DEF EdgeOf
  <2> QED
    BY <1>4, <1>5, <2>1 DEF Lost, Counted
<1>9. a.state = "WAIT_IN_FILE" => a.recursive = 0
  BY <1>3 DEF May
<1> QED
  BY <1>2, <1>5, <1>7, <1>8, <1>9 DEF Doomed, Lost

\* Where the automaton stands behind the token k: at the beginning of a command, in a
\* command, behind a built-in command, behind the operator op, behind a file name.
AtBegin(s, k, r, quota, last) ==
    \E ops \in Firsts : Begins(s, k, r, ops) /\ quota = Len(ops) /\ last = FirstRead(ops)

InCommand(s, k, r, quota, last) ==
    \E j \in 0 .. k, ops \in Firsts :
        Begins(s, j, r, ops) /\ IsCommand(s, j, k) /\ quota = Len(ops) /\ last = FirstRead(ops)

BehindBuiltIn(s, k, r) ==
    \E j \in 0 .. k, ops \in Firsts : Begins(s, j, r, ops) /\ IsBuiltIn(s, j, k)

BeforeArg(s, k, r) ==
    \E j \in 0 .. k, ops \in Firsts : Begins(s, j, r, ops) /\ k = j + 1 /\ s[k] \in OneArg

BehindOp(s, k, r, quota, op) ==
    \E j \in 0 .. k, i \in 0 .. k, ops \in Firsts, red \in Redirections :
        /\ Begins(s, j, r, ops) /\ j <= i /\ IsCommand(s, j, i)
        /\ IsRedirection(s, i, k - 1, red) /\ s[k] = op /\ k \in Nat \ {0}
        /\ Append(red, op) \in Redirections /\ quota = Len(ops) + Len(red)
        /\ r > 0 => op = ">" /\ red = <<>>

BehindFile(s, k, r, quota, last) ==
    \E j \in 0 .. k, ops \in Firsts, red \in Redirections \ {<<>>} :
        /\ Begins(s, j, r, ops) /\ IsRedirected(s, j, k, {red})
        /\ quota = Len(ops) + Len(red) /\ last = Ends(red, "")
        /\ r > 0 => red = <<">">>

Stands(s, k, state, r, quota, last) ==
    /\ state = "WAIT_CMD" => AtBegin(s, k, r, quota, last)
    /\ state = "WAIT_ARG" => InCommand(s, k, r, quota, last)
    /\ state = "WAIT_ONE_ARG" => BeforeArg(s, k, r)
    /\ state = "NO_MORE" => BehindBuiltIn(s, k, r)
    /\ state = "WAIT_IN_FILE" => BehindOp(s, k, r, quota, "<")
    /\ state = "WAIT_OUT_FILE" => BehindOp(s, k, r, quota, ">")
    /\ state = "WAIT_MORE" => BehindFile(s, k, r, quota, last)

\* How redirections grow by an operator, and what they end with.
LEMMA RedirectionsAre ==
    /\ Append(<<>>, "<") = <<"<">> /\ Append(<<>>, ">") = <<">">>
    /\ Append(<<"<">>, ">") = <<"<", ">">> /\ Append(<<">">>, "<") = <<">", "<">>
    /\ \A red \in Redirections \ {<<>>} :
         /\ Ends(red, "") = "in" <=> red \in {<<"<">>, <<">", "<">>}
         /\ Ends(red, "") = "out" <=> red \in {<<">">>, <<"<", ">">>}
         /\ Len(red) < 2 => red \in {<<"<">>, <<">">>}
         /\ Len(red) > 0
    /\ <<"<">> \in Redirections /\ <<">">> \in Redirections
    /\ <<"<", ">">> \in Redirections /\ <<">", "<">> \in Redirections
<1>1. /\ Append(<<>>, "<") = <<"<">> /\ Append(<<>>, ">") = <<">">>
      /\ Append(<<"<">>, ">") = <<"<", ">">> /\ Append(<<">">>, "<") = <<">", "<">>
  <2>1. ASSUME NEW x PROVE Append(<<>>, x) = <<x>>
    <3>1. Append(<<>>, x) \in Seq({x}) /\ Len(Append(<<>>, x)) = 1 /\ Append(<<>>, x)[1] = x
      BY AppendProperties, <<>> \in Seq({x}), Len(<<>>) = 0
    <3>2. <<x>> \in Seq({x}) /\ Len(<<x>>) = 1 /\ <<x>>[1] = x
      OBVIOUS
    <3>3. \A m \in 1 .. 1 : m = 1
      OBVIOUS
    <3> QED
      BY <3>1, <3>2, <3>3, SeqEqual, Zenon
  <2>2. ASSUME NEW x, NEW y PROVE Append(<<x>>, y) = <<x, y>>
    <3>1. <<x>> \in Seq({x, y}) /\ Len(<<x>>) = 1 /\ <<x>>[1] = x /\ 1 + 1 = 2 /\ 1 \in 1 .. 1
      OBVIOUS
    <3>2. /\ Append(<<x>>, y) \in Seq({x, y}) /\ Len(Append(<<x>>, y)) = 2
          /\ Append(<<x>>, y)[1] = x /\ Append(<<x>>, y)[2] = y
      <4> DEFINE q == <<x>>
      <4>1. q \in Seq({x, y}) /\ Len(q) = 1 /\ q[1] = x /\ y \in {x, y}
        BY <3>1
      <4> HIDE DEF q
      <4>2. /\ Append(q, y) \in Seq({x, y}) /\ Len(Append(q, y)) = Len(q) + 1
            /\ \A m \in 1 .. Len(q) : Append(q, y)[m] = q[m]
            /\ Append(q, y)[Len(q) + 1] = y
        BY <4>1, AppendProperties, ZenonT(40)
      <4>3. Len(Append(q, y)) = 2 /\ Append(q, y)[2] = y /\ Append(q, y)[1] = x
        BY <3>1, <4>1, <4>2, Zenon
      <4> QED
        BY <4>2, <4>3 DEF q
    <3>3. /\ <<x, y>> \in Seq({x, y}) /\ Len(<<x, y>>) = 2
          /\ <<x, y>>[1] = x /\ <<x, y>>[2] = y
      OBVIOUS
    <3>4. \A m \in 1 .. 2 : m = 1 \/ m = 2
      OBVIOUS
    <3> QED
      BY <3>2, <3>3, <3>4, SeqEqual, Zenon
  <2> QED
    BY <2>1, <2>2, Zenon
<1>2. /\ Len(<<>>) = 0 /\ Len(<<"<">>) = 1 /\ Len(<<">">>) = 1
      /\ Len(<<"<", ">">>) = 2 /\ Len(<<">", "<">>) = 2
  BY OpsAre
<1>3. /\ <<"<">>[1] = "<" /\ <<">">>[1] = ">"
      /\ <<"<", ">">>[2] = ">" /\ <<">", "<">>[2] = "<"
  OBVIOUS
<1>4. /\ <<"<">> # <<>> /\ <<">">> # <<>> /\ <<"<", ">">> # <<>> /\ <<">", "<">> # <<>>
  OBVIOUS
<1>5. /\ Ends(<<"<">>, "") = "in" /\ Ends(<<">">>, "") = "out"
      /\ Ends(<<"<", ">">>, "") = "out" /\ Ends(<<">", "<">>, "") = "in"
  BY <1>2, <1>3, <1>4 DEF Ends
<1>6. ASSUME NEW red \in Redirections \ {<<>>}
      PROVE  /\ Ends(red, "") = "in" <=> red \in {<<"<">>, <<">", "<">>}
             /\ Ends(red, "") = "out" <=> red \in {<<">">>, <<"<", ">">>}
             /\ Len(red) < 2 => red \in {<<"<">>, <<">">>}
             /\ Len(red) > 0
  <2>1. <<"<">> # <<">">> /\ <<"<">> # <<"<", ">">> /\ <<">", "<">> # <<">">>
        /\ <<">", "<">> # <<"<", ">">>
    BY <1>5
  <2>0. 1 < 2 /\ ~ 2 < 2 /\ 1 > 0 /\ 2 > 0 /\ "in" # "out"
    OBVIOUS
  <2>2. CASE red = <<"<">>
    BY <1>2, <1>5, <2>0, <2>1, <2>2, Zenon
  <2>3. CASE red = <<">">>
    BY <1>2, <1>5, <2>0, <2>1, <2>3, Zenon
  <2>4. CASE red = <<"<", ">">>
    BY <1>2, <1>5, <2>0, <2>1, <2>4, Zenon
  <2>5. CASE red = <<">", "<">>
    BY <1>2, <1>5, <2>0, <2>1, <2>5, Zenon
  <2> QED
    BY <2>2, <2>3, <2>4, <2>5 DEF Redirections
<1>7. /\ <<"<">> \in Redirections /\ <<">">> \in Redirections
      /\ <<"<", ">">> \in Redirections /\ <<">", "<">> \in Redirections
  BY Zenon DEF Redirections
<1> QED
  BY <1>1, <1>6, <1>7

\* One file more.
LEMMA RedirectionGrows ==
    ASSUME NEW s, NEW i \in Nat, NEW k \in Nat, NEW red \in Redirections, NEW op \in {"<", ">"},
           IsRedirection(s, i, k - 1, red), s[k] = op, s[k + 1] \in Legal
    PROVE  IsRedirection(s, i, k + 1, Append(red, op))
<1> DEFINE more == Append(red, op)
           n == Len(red)
<1>1. red \in Seq({"<", ">"})
  <2>1. /\ <<>> \in Seq({"<", ">"}) /\ <<"<">> \in Seq({"<", ">"}) /\ <<">">> \in Seq({"<", ">"})
        /\ <<"<", ">">> \in Seq({"<", ">"}) /\ <<">", "<">> \in Seq({"<", ">"})
    OBVIOUS
  <2> QED
    BY <2>1, Zenon DEF Redirections
<1>2. n \in Nat /\ Len(more) = n + 1 /\ more[n + 1] = op /\ \A m \in 1 .. n : more[m] = red[m]
  BY <1>1
<1>3. k - 1 = i + 2 * n /\ \A m \in 1 .. n : s[i + 2 * m - 1] = red[m] /\ s[i + 2 * m] \in Legal
  BY DEF IsRedirection
<1> HIDE DEF n, more
<1>4. /\ i + 2 * (n + 1) = k + 1 /\ i + 2 * (n + 1) - 1 = k
  BY <1>2, <1>3
<1>5. ASSUME NEW m \in 1 .. Len(more)
      PROVE  s[i + 2 * m - 1] = more[m] /\ s[i + 2 * m] \in Legal
  <2>1. m \in 1 .. n \/ m = n + 1
    BY <1>2
  <2>2. CASE m \in 1 .. n
    BY <1>2, <1>3, <2>2, Zenon
  <2>3. CASE m = n + 1
    <3>1. i + 2 * m = k + 1 /\ i + 2 * m - 1 = k
      BY <1>4, <2>3
    <3> QED
      BY ONLY <1>2, <2>3, <3>1, s[k] = op, s[k + 1] \in Legal
  <2> QED
    BY <2>1, <2>2, <2>3
<1> QED
  BY <1>2, <1>4, <1>5 DEF IsRedirection, more

\* One token from the beginning of a command.
LEMMA FromBegin ==
    ASSUME NEW s \in Seq(Tokens), NEW k \in Nat, k + 1 <= Len(s), NEW r \in Nat,
           NEW quota, NEW last, NEW on, NEW to, EdgeOf("WAIT_CMD", on, to), s[k + 1] \in on,
           AtBegin(s, k, r, quota, last)
    PROVE  Stands(s, k + 1, to, r, quota, last)
<1>1. PICK ops \in Firsts : Begins(s, k, r, ops) /\ quota = Len(ops) /\ last = FirstRead(ops)
  BY DEF AtBegin
<1>2. k \in 0 .. k + 1 /\ k < k + 1
  OBVIOUS
<1>3. CASE on = OneArg /\ to = "WAIT_ONE_ARG"
  <2>1. BeforeArg(s, k + 1, r)
    BY <1>1, <1>2, <1>3 DEF BeforeArg
  <2> QED
    BY <1>3, <2>1 DEF Stands
<1>4. CASE on = NoArg /\ to = "NO_MORE"
  <2>1. IsBuiltIn(s, k, k + 1)
    BY <1>4 DEF IsBuiltIn, BuiltIn
  <2>2. BehindBuiltIn(s, k + 1, r)
    BY <1>1, <1>2, <2>1 DEF BehindBuiltIn
  <2> QED
    BY <1>4, <2>2 DEF Stands
<1>5. CASE on = {"word"} /\ to = "WAIT_ARG"
  <2>1. s[k + 1] = "word" /\ \A m \in k + 1 .. k + 1 : m = k + 1
    BY <1>5
  <2>2. IsCommand(s, k, k + 1)
    BY <1>2, <2>1, LegalIsNoPipe DEF IsCommand
  <2>3. InCommand(s, k + 1, r, quota, last)
    BY <1>1, <1>2, <2>2 DEF InCommand
  <2> QED
    BY <1>5, <2>3 DEF Stands
<1> QED
  BY <1>3, <1>4, <1>5 DEF EdgeOf

\* A pipe behind a command, or behind a file that is read.
LEMMA PipeBegins ==
    ASSUME NEW s \in Seq(Tokens), NEW k \in Nat, k + 1 <= Len(s), s[k + 1] = "|",
           NEW j \in 0 .. k, NEW r \in {0, 1}, NEW ops \in Firsts, Begins(s, j, r, ops),
           NEW red \in Firsts, IsRedirected(s, j, k, {red}), r = 1 => red = <<>>
    PROVE  Begins(s, k + 1, r + 1, IF r = 0 THEN red ELSE ops)
<1>1. k + 1 \in 1 .. Len(s) /\ (k + 1) - 1 = k
  OBVIOUS
<1>2. CASE r = 0
  <2>1. j = 0 /\ r + 1 = 1
    BY <1>2 DEF Begins
  <2> QED
    BY <1>1, <1>2, <2>1 DEF Begins
<1>3. CASE r = 1
  <2>1. r + 1 = 2 /\ j \in 1 .. (k + 1) - 1 /\ s[j] = "|" /\ IsRedirected(s, 0, j - 1, {ops})
    BY <1>3 DEF Begins
  <2>2. IsCommand(s, j, k)
    <3>1. PICK i \in j .. k : IsCommand(s, j, i) /\ IsRedirection(s, i, k, <<>>)
      BY <1>3 DEF IsRedirected
    <3>2. k = i
      BY <3>1 DEF IsRedirection
    <3> QED
      BY <3>1, <3>2
  <2> QED
    BY <1>1, <1>3, <2>1, <2>2 DEF Begins
<1> QED
  BY <1>2, <1>3

\* A command without redirections.
LEMMA CommandIsRedirected ==
    ASSUME NEW s, NEW j \in Nat, NEW k \in Nat, j <= k, IsCommand(s, j, k)
    PROVE  IsRedirected(s, j, k, {<<>>}) /\ IsRedirection(s, k, k, <<>>)
<1>1. IsRedirection(s, k, k, <<>>)
  BY DEF IsRedirection
<1> QED
  BY <1>1 DEF IsRedirected

\* One token behind a command: a pipe, an operator or an argument.
LEMMA FromCommand ==
    ASSUME NEW s \in Seq(Tokens), NEW k \in Nat, k + 1 <= Len(s), NEW r \in Nat,
           NEW quota, NEW last, NEW on, NEW to, EdgeOf("WAIT_ARG", on, to), s[k + 1] \in on,
           InCommand(s, k, r, quota, last), ~ Lost(to, Piped(r, s[k + 1]), quota)
    PROVE  Stands(s, k + 1, to, Piped(r, s[k + 1]), quota, last)
<1>1. PICK j \in 0 .. k, ops \in Firsts :
        Begins(s, j, r, ops) /\ IsCommand(s, j, k) /\ quota = Len(ops) /\ last = FirstRead(ops)
  BY DEF InCommand
<1>2. j \in 0 .. k + 1 /\ j < k + 1 /\ k \in 0 .. k + 1 /\ j \in Nat /\ j <= k
  OBVIOUS
<1>3. IsRedirected(s, j, k, {<<>>}) /\ IsRedirection(s, k, k, <<>>)
  BY <1>1, <1>2, CommandIsRedirected
<1>4. CASE on = {"|"} /\ to = "WAIT_CMD"
  <2>1. s[k + 1] = "|" /\ Piped(r, s[k + 1]) = r + 1
    BY <1>4 DEF Piped
  <2>2. r \in {0, 1}
    BY <2>1 DEF Lost
  <2>3. <<>> \in Firsts /\ (r = 0 => ops = <<>>)
    BY <1>1, OpsAre DEF Begins
  <2>4. (IF r = 0 THEN <<>> ELSE ops) = ops
    BY <2>3
  <2>5. Begins(s, k + 1, r + 1, IF r = 0 THEN <<>> ELSE ops)
    BY <1>1, <1>3, <2>1, <2>2, <2>3, PipeBegins
  <2>6. AtBegin(s, k + 1, r + 1, quota, last)
    BY <1>1, <2>4, <2>5 DEF AtBegin
  <2> QED
    BY <1>4, <2>1, <2>6 DEF Stands
<1>5. ASSUME NEW op \in {"<", ">"}, on = {op}, op = "<" => r = 0
      PROVE  BehindOp(s, k + 1, r, quota, op) /\ Piped(r, s[k + 1]) = r
  <2>1. s[k + 1] = op /\ Piped(r, s[k + 1]) = r /\ (k + 1) - 1 = k /\ k + 1 \in Nat \ {0}
    BY <1>5 DEF Piped
  <2>2. <<>> \in Redirections /\ Append(<<>>, op) \in Redirections
    <3>1. <<>> \in Redirections
      BY Zenon DEF Redirections
    <3>2. Append(<<>>, "<") \in Redirections /\ Append(<<>>, ">") \in Redirections
      BY RedirectionsAre
    <3> QED
      BY <3>1, <3>2, <1>5, Zenon
  <2>3. Len(ops) \in 0 .. 2 /\ Len(<<>>) = 0
    BY OpsAre
  <2>4. quota = Len(ops) + Len(<<>>)
    BY <1>1, <2>3
  <2>5. r > 0 => op = ">" /\ <<>> = <<>>
    BY <1>5
  <2>6. IsRedirection(s, k, (k + 1) - 1, <<>>)
    BY <1>3, <2>1
  <2> QED
    BY <1>1, <1>2, <2>1, <2>2, <2>4, <2>5, <2>6, Zenon DEF BehindOp
<1>6. CASE on = {"<"} /\ to = "WAIT_IN_FILE"
  <2>1. r = 0
    BY <1>6 DEF Lost, Piped
  <2>2. BehindOp(s, k + 1, r, quota, "<") /\ Piped(r, s[k + 1]) = r
    BY <1>5, <1>6, <2>1
  <2> QED
    BY <1>6, <2>2 DEF Stands
<1>7. CASE on = {">"} /\ to = "WAIT_OUT_FILE"
  <2>1. BehindOp(s, k + 1, r, quota, ">") /\ Piped(r, s[k + 1]) = r
    BY <1>5, <1>7
  <2> QED
    BY <1>7, <2>1 DEF Stands
<1>8. CASE on = Legal /\ to = "WAIT_ARG"
  <2>1. s[k + 1] \in Legal /\ Piped(r, s[k + 1]) = r
    BY <1>8, LegalIsNoPipe DEF Piped
  <2>2. \A m \in j + 1 .. k + 1 : m \in j + 1 .. k \/ m = k + 1
    BY <1>2
  <2>3. IsCommand(s, j, k + 1)
    BY <1>1, <1>2, <2>1, <2>2 DEF IsCommand
  <2>4. InCommand(s, k + 1, r, quota, last)
    BY <1>1, <1>2, <2>3 DEF InCommand
  <2> QED
    BY <1>8, <2>1, <2>4 DEF Stands
<1> QED
  BY <1>4, <1>6, <1>7, <1>8 DEF EdgeOf

\* The argument of cd or fg.
LEMMA FromArg ==
    ASSUME NEW s \in Seq(Tokens), NEW k \in Nat, k + 1 <= Len(s), NEW r \in Nat,
           NEW quota, NEW last, NEW on, NEW to, EdgeOf("WAIT_ONE_ARG", on, to), s[k + 1] \in on,
           BeforeArg(s, k, r)
    PROVE  Stands(s, k + 1, to, Piped(r, s[k + 1]), quota, last)
<1>1. PICK j \in 0 .. k, ops \in Firsts : Begins(s, j, r, ops) /\ k = j + 1 /\ s[k] \in OneArg
  BY DEF BeforeArg
<1>2. on = Legal /\ to = "NO_MORE"
  BY DEF EdgeOf
<1>3. s[k + 1] \in Legal /\ Piped(r, s[k + 1]) = r
  BY <1>2, LegalIsNoPipe DEF Piped
<1>4. j \in 0 .. k + 1 /\ k + 1 = j + 2
  BY <1>1
<1>5. IsBuiltIn(s, j, k + 1)
  BY <1>1, <1>3, <1>4 DEF IsBuiltIn
<1>6. BehindBuiltIn(s, k + 1, r)
  BY <1>1, <1>4, <1>5 DEF BehindBuiltIn
<1> QED
  BY <1>2, <1>3, <1>6 DEF Stands

\* A file name, behind its operator.
LEMMA FromOp ==
    ASSUME NEW s \in Seq(Tokens), NEW k \in Nat, k + 1 <= Len(s), NEW r \in Nat, NEW quota,
           NEW last, NEW op \in {"<", ">"}, s[k + 1] \in Legal, BehindOp(s, k, r, quota, op)
    PROVE  BehindFile(s, k + 1, r, quota + 1, IF op = "<" THEN "in" ELSE "out")
<1>1. PICK j \in 0 .. k, i \in 0 .. k, ops \in Firsts, red \in Redirections :
        /\ Begins(s, j, r, ops) /\ j <= i /\ IsCommand(s, j, i)
        /\ IsRedirection(s, i, k - 1, red) /\ s[k] = op /\ k \in Nat \ {0}
        /\ Append(red, op) \in Redirections /\ quota = Len(ops) + Len(red)
        /\ r > 0 => op = ">" /\ red = <<>>
  BY DEF BehindOp
<1> DEFINE more == Append(red, op)
<1>2. IsRedirection(s, i, k + 1, more)
  BY <1>1, RedirectionGrows
<1>3. red \in Seq({"<", ">"})
  <2>1. /\ <<>> \in Seq({"<", ">"}) /\ <<"<">> \in Seq({"<", ">"}) /\ <<">">> \in Seq({"<", ">"})
        /\ <<"<", ">">> \in Seq({"<", ">"}) /\ <<">", "<">> \in Seq({"<", ">"})
    OBVIOUS
  <2> QED
    BY <2>1, Zenon DEF Redirections
<1>4. /\ Len(more) = Len(red) + 1 /\ more[Len(more)] = op /\ more # <<>> /\ Len(red) \in Nat
  BY <1>3
<1>5. Ends(more, "") = IF op = "<" THEN "in" ELSE "out"
  BY <1>4 DEF Ends
<1>6. r > 0 => more = <<">">>
  BY <1>1, RedirectionsAre
<1> HIDE DEF more
<1>7. more \in Redirections \ {<<>>}
  BY <1>1, <1>4 DEF more
<1>8. Len(ops) \in 0 .. 2
  BY OpsAre
<1>9. quota + 1 = Len(ops) + Len(more)
  BY <1>1, <1>4, <1>8
<1>10. i \in j .. k + 1 /\ j \in 0 .. k + 1
  BY <1>1
<1>11. IsRedirected(s, j, k + 1, {more})
  BY <1>1, <1>2, <1>10 DEF IsRedirected
<1> QED
  BY <1>1, <1>5, <1>6, <1>7, <1>9, <1>10, <1>11, Zenon DEF BehindFile

\* A pipe or an operator behind a file name.
LEMMA FromFile ==
    ASSUME NEW s \in Seq(Tokens), NEW k \in Nat, k + 1 <= Len(s), NEW r \in Nat, NEW quota \in Nat,
           NEW last, NEW on, NEW to, EdgeOf("WAIT_MORE", on, to), s[k + 1] \in on,
           May("WAIT_MORE", to, r, quota, last), BehindFile(s, k, r, quota, last),
           ~ Lost(to, Piped(r, s[k + 1]), quota)
    PROVE  Stands(s, k + 1, to, Piped(r, s[k + 1]), quota, last)
<1>1. PICK j \in 0 .. k, ops \in Firsts, red \in Redirections \ {<<>>} :
        /\ Begins(s, j, r, ops) /\ IsRedirected(s, j, k, {red})
        /\ quota = Len(ops) + Len(red) /\ last = Ends(red, "")
        /\ r > 0 => red = <<">">>
  BY DEF BehindFile
<1>2. Len(ops) \in 0 .. 2 /\ Len(red) \in 0 .. 2 /\ Len(red) > 0 /\ Len(<<>>) = 0
  BY OpsAre, RedirectionsAre
<1>3. r = 0 => j = 0 /\ ops = <<>> /\ Len(ops) = 0
  <2> SUFFICES ASSUME r = 0 PROVE j = 0 /\ ops = <<>>
    BY <1>2, OpsAre
  <2>1. Begins(s, j, r, ops)
    BY <1>1
  <2>2. ~ (0 = 1) /\ ~ (0 = 2)
    OBVIOUS
  <2> QED
    BY <2>1, <2>2, Zenon DEF Begins
<1> DEFINE x == Len(ops)
           y == Len(red)
<1>4. x \in 0 .. 2 /\ y \in 0 .. 2 /\ y > 0 /\ quota = x + y /\ (r = 0 => x = 0)
  BY <1>1, <1>2, <1>3
<1> HIDE DEF x, y
<1>5. /\ r = 0 => quota = y
      /\ quota < 2 => y < 2
  BY <1>4
<1>6. quota < 2 => red \in {<<"<">>, <<">">>}
  BY <1>1, <1>5, RedirectionsAre DEF y
<1>7. CASE on = {"|"} /\ to = "WAIT_CMD"
  <2>1. s[k + 1] = "|" /\ Piped(r, s[k + 1]) = 1 /\ r = 0 /\ last = "in" /\ 0 + 1 = 1
    BY <1>7 DEF Piped, May
  <2>2. red \in {<<"<">>, <<">", "<">>}
    BY <1>1, <2>1, RedirectionsAre
  <2>3. red \in Firsts /\ red # <<>>
    BY <1>1, <2>2, OpsAre
  <2>4. r \in {0, 1} /\ (r = 1 => red = <<>>)
    BY <2>1
  <2>5. Begins(s, k + 1, r + 1, IF r = 0 THEN red ELSE ops)
    BY <1>1, <2>1, <2>3, <2>4, PipeBegins
  <2>6. Begins(s, k + 1, 1, red)
    BY ONLY <2>1, <2>5
  <2>7. quota = Len(red)
    BY <1>5, <2>1 DEF y
  <2>8. last = FirstRead(red)
    BY <2>1, <2>3 DEF FirstRead
  <2>9. AtBegin(s, k + 1, 1, quota, last)
    BY <2>3, <2>6, <2>7, <2>8 DEF AtBegin
  <2> QED
    BY <1>7, <2>1, <2>9 DEF Stands
<1>8. ASSUME NEW op \in {"<", ">"}, on = {op}, r = 0, Append(red, op) \in Redirections
      PROVE  BehindOp(s, k + 1, r, quota, op) /\ Piped(r, s[k + 1]) = r
  <2>1. s[k + 1] = op /\ Piped(r, s[k + 1]) = r /\ (k + 1) - 1 = k /\ k + 1 \in Nat \ {0}
    BY <1>8 DEF Piped
  <2>2. PICK i \in j .. k : IsCommand(s, j, i) /\ IsRedirection(s, i, k, red)
    BY <1>1 DEF IsRedirected
  <2>3. i \in 0 .. k + 1 /\ j \in 0 .. k + 1 /\ j <= i
    OBVIOUS
  <2>4. ~ r > 0
    BY <1>8
  <2>5. IsRedirection(s, i, (k + 1) - 1, red) /\ red \in Redirections
    BY <2>1, <2>2
  <2> QED
    BY <1>1, <1>8, <2>1, <2>2, <2>3, <2>4, <2>5, Zenon DEF BehindOp
<1>9. CASE on = {"<"} /\ to = "WAIT_IN_FILE"
  <2>1. s[k + 1] = "<" /\ Piped(r, s[k + 1]) = r
    BY <1>9 DEF Piped
  <2>2. r = 0 /\ quota < 2
    BY <1>9, <2>1 DEF Lost
  <2>3. last = "out"
    BY <1>9 DEF May
  <2>5. red \in {<<"<">>, <<">">>} /\ red \in {<<">">>, <<"<", ">">>}
    BY <1>1, <1>6, <2>2, <2>3, RedirectionsAre
  <2>6. red # <<"<">>
    BY <1>1, <2>3, RedirectionsAre
  <2>7. Append(red, "<") \in Redirections
    BY <2>5, <2>6, RedirectionsAre
  <2>8. BehindOp(s, k + 1, r, quota, "<")
    BY <1>8, <1>9, <2>2, <2>7
  <2> QED
    BY <1>9, <2>1, <2>8 DEF Stands
<1>10. CASE on = {">"} /\ to = "WAIT_OUT_FILE"
  <2>1. s[k + 1] = ">" /\ Piped(r, s[k + 1]) = r
    BY <1>10 DEF Piped
  <2>2. quota < 2
    BY <1>10, <2>1 DEF Lost
  <2>3. last # "out"
    BY <1>10 DEF May
  <2>5. red \in {<<"<">>, <<">">>}
    BY <1>6, <2>2
  <2>6. red # <<">">>
    BY <1>1, <2>3, RedirectionsAre
  <2>7. Append(red, ">") \in Redirections
    BY <2>5, <2>6, RedirectionsAre
  <2>8. r = 0
    <3>1. ~ r > 0
      BY <1>1, <2>6, Zenon
    <3> QED
      BY <3>1
  <2>9. BehindOp(s, k + 1, r, quota, ">")
    BY <1>8, <1>10, <2>7, <2>8
  <2> QED
    BY <1>10, <2>1, <2>9 DEF Stands
<1> QED
  BY <1>7, <1>9, <1>10 DEF EdgeOf

\* One token: the run stays where the grammar has a place for it.
LEMMA StandsNext ==
    ASSUME NEW s \in Seq(Tokens), NEW k \in Nat, k + 1 <= Len(s), NEW r \in Nat, NEW quota \in Nat,
           NEW last, NEW from, NEW on, NEW to, EdgeOf(from, on, to), s[k + 1] \in on,
           May(from, to, r, quota, last), Stands(s, k, from, r, quota, last),
           ~ Lost(to, Piped(r, s[k + 1]), Counted(quota, to))
    PROVE  Stands(s, k + 1, to, Piped(r, s[k + 1]), Counted(quota, to), Kind(from, last))
<1> DEFINE token == s[k + 1]
<1>1. CASE from = "WAIT_CMD"
  <2>1. to # "WAIT_MORE" /\ token # "|"
    BY <1>1 DEF EdgeOf, OneArg, NoArg
  <2>2. Piped(r, token) = r /\ Counted(quota, to) = quota /\ Kind(from, last) = last
    BY <1>1, <2>1 DEF Piped, Counted, Kind
  <2>3. Stands(s, k + 1, to, r, quota, last)
    BY <1>1, FromBegin DEF Stands
  <2> QED
    BY ONLY <2>2, <2>3
<1>2. CASE from = "WAIT_ARG"
  <2>1. to # "WAIT_MORE"
    BY <1>2 DEF EdgeOf
  <2>2. Counted(quota, to) = quota /\ Kind(from, last) = last
    BY <1>2, <2>1 DEF Counted, Kind
  <2>3. Stands(s, k + 1, to, Piped(r, token), quota, last)
    BY <1>2, <2>2, FromCommand DEF Stands
  <2> QED
    BY ONLY <2>2, <2>3
<1>3. CASE from = "WAIT_ONE_ARG"
  <2>1. to # "WAIT_MORE"
    BY <1>3 DEF EdgeOf
  <2>2. Counted(quota, to) = quota /\ Kind(from, last) = last
    BY <1>3, <2>1 DEF Counted, Kind
  <2>3. Stands(s, k + 1, to, Piped(r, token), quota, last)
    BY <1>3, FromArg DEF Stands
  <2> QED
    BY ONLY <2>2, <2>3
<1>4. CASE from \in {"WAIT_IN_FILE", "WAIT_OUT_FILE"}
  <2> DEFINE op == IF from = "WAIT_IN_FILE" THEN "<" ELSE ">"
  <2>1. token \in Legal /\ to = "WAIT_MORE"
    BY <1>4 DEF EdgeOf
  <2>2. token # "|"
    BY <2>1, LegalIsNoPipe
  <2>3. op \in {"<", ">"} /\ BehindOp(s, k, r, quota, op)
    BY <1>4 DEF Stands
  <2>4. /\ Piped(r, token) = r /\ Counted(quota, to) = quota + 1
        /\ Kind(from, last) = IF op = "<" THEN "in" ELSE "out"
    BY <1>4, <2>1, <2>2 DEF Piped, Counted, Kind
  <2> HIDE DEF op
  <2>5. BehindFile(s, k + 1, r, quota + 1, IF op = "<" THEN "in" ELSE "out")
    BY <2>1, <2>3, FromOp
  <2>6. Stands(s, k + 1, to, r, quota + 1, IF op = "<" THEN "in" ELSE "out")
    BY <2>1, <2>5 DEF Stands
  <2> QED
    BY ONLY <2>4, <2>6
<1>5. CASE from = "WAIT_MORE"
  <2>1. to # "WAIT_MORE"
    BY <1>5 DEF EdgeOf
  <2>2. Counted(quota, to) = quota /\ Kind(from, last) = last
    BY <1>5, <2>1 DEF Counted, Kind
  <2>3. Stands(s, k + 1, to, Piped(r, token), quota, last)
    BY <1>5, <2>2, FromFile DEF Stands
  <2> QED
    BY ONLY <2>2, <2>3
<1> QED
  BY <1>1, <1>2, <1>3, <1>4, <1>5 DEF EdgeOf

\* So does its end, when the line can still be accepted.
LEMMA RunStands ==
    ASSUME NEW s \in Seq(Tokens), NEW f, IsRun(f, s), ~ Doomed(f[Len(s)])
    PROVE  LET a == f[Len(s)] IN Stands(s, Len(s), a.state, a.recursive, a.fileQuota, a.last)
<1> DEFINE Holds(k) == Stands(s, k, f[k].state, f[k].recursive, f[k].fileQuota, f[k].last)
           G == {k \in Nat : k <= Len(s) /\ ~ Doomed(f[k]) => Holds(k)}
<1>1. At(f[0], "WAIT_CMD", 0, 0, "")
  BY RunStarts
<1>2. AtBegin(s, 0, 0, 0, "")
  <2>1. Begins(s, 0, 0, <<>>)
    BY Zenon DEF Begins
  <2>2. <<>> \in Firsts /\ Len(<<>>) = 0 /\ FirstRead(<<>>) = ""
    BY OpsAre DEF FirstRead
  <2> QED
    BY <2>1, <2>2 DEF AtBegin
<1>3. 0 \in G
  <2>1. Stands(s, 0, "WAIT_CMD", 0, 0, "")
    BY <1>2 DEF Stands
  <2>2. Holds(0)
    BY <1>1, <2>1 DEF At
  <2> QED
    BY <2>2
<1>4. ASSUME NEW k \in Nat, k \in G PROVE k + 1 \in G
  <2> SUFFICES ASSUME k + 1 <= Len(s), ~ Doomed(f[k + 1]) PROVE Holds(k + 1)
    OBVIOUS
  <2> DEFINE a == f[k]
             b == f[k + 1]
             token == s[k + 1]
  <2>1. k \in 0 .. Len(s) - 1 /\ k \in 0 .. Len(s) /\ k <= Len(s)
    OBVIOUS
  <2>2. a \in Automata /\ b = Step(a, token)
    BY <2>1 DEF IsRun
  <2>3. ~ Doomed(a) /\ ~ b.error
    BY <2>2, DoomedStays DEF Doomed
  <2>4. Holds(k)
    BY <1>4, <2>1, <2>3
  <2>5. PICK on, to : /\ EdgeOf(a.state, on, to) /\ token \in on
                      /\ May(a.state, to, a.recursive, a.fileQuota, a.last)
                      /\ At(b, to, Piped(a.recursive, token), Counted(a.fileQuota, to),
                            Kind(a.state, a.last))
    BY <2>2, <2>3, Came
  <2>6. ~ Lost(to, Piped(a.recursive, token), Counted(a.fileQuota, to))
    BY <2>5 DEF Doomed, At
  <2>7. a.recursive \in Nat /\ a.fileQuota \in Nat
    BY <2>2 DEF Automata
  <2>8. Stands(s, k + 1, to, Piped(a.recursive, token), Counted(a.fileQuota, to),
               Kind(a.state, a.last))
    <3> DEFINE r == a.recursive
               quota == a.fileQuota
               last == a.last
               from == a.state
    <3>1. /\ r \in Nat /\ quota \in Nat /\ EdgeOf(from, on, to) /\ s[k + 1] \in on
          /\ May(from, to, r, quota, last) /\ Stands(s, k, from, r, quota, last)
          /\ ~ Lost(to, Piped(r, s[k + 1]), Counted(quota, to))
      BY <2>4, <2>5, <2>6, <2>7
    <3> HIDE DEF r, quota, last, from, a, b, G, Holds
    <3>2. Stands(s, k + 1, to, Piped(r, s[k + 1]), Counted(quota, to), Kind(from, last))
      BY <3>1, StandsNext
    <3> QED
      BY <3>2 DEF r, quota, last, from
  <2> QED
    BY <2>5, <2>8 DEF At
<1> HIDE DEF G
<1>5. Nat \subseteq G
  BY <1>3, <1>4, FromZeroOn
<1>6. Len(s) \in Nat /\ Len(s) <= Len(s)
  OBVIOUS
<1> QED
  BY <1>5, <1>6 DEF G

\* What follows the last pipe decides which of the lines of the grammar it is.
LEMMA AcceptedIs ==
    ASSUME NEW s \in Seq(Tokens), checkSyntax(s)
    PROVE  Accepted(s)
<1> DEFINE n == Len(s)
           a == Scan(s)
           r == a.recursive
           quota == a.fileQuota
           last == a.last
<1>0. n \in Nat
  OBVIOUS
<1>1. a \in Automata
  BY ScanStays
<1>2. /\ ~ a.error /\ a.state \notin {"WAIT_IN_FILE", "WAIT_OUT_FILE", "WAIT_CMD"}
      /\ r <= 2 /\ quota < 3
  BY DEF checkSyntax
<1>3. r \in Nat /\ quota \in Nat
  BY <1>1 DEF Automata
<1>4. ~ Doomed(a)
  BY <1>2, <1>3 DEF Doomed, Lost
<1>5. Stands(s, n, a.state, r, quota, last)
  BY <1>4, ScanIs, RunStands
<1>6. a.state \in {"WAIT_ARG", "WAIT_ONE_ARG", "NO_MORE", "WAIT_MORE"}
  <2>1. \A e \in Edges : e.to \in {"WAIT_ARG", "WAIT_ONE_ARG", "NO_MORE", "WAIT_MORE",
                                   "WAIT_IN_FILE", "WAIT_OUT_FILE", "WAIT_CMD"}
    BY EdgesAre DEF EdgeOf
  <2> QED
    BY <1>1, <1>2, <2>1 DEF Automata
<1> HIDE DEF n, a, r, quota, last
<1>7. ASSUME NEW j \in 0 .. n, NEW ops \in Firsts, Begins(s, j, r, ops)
      PROVE  \/ j = 0 /\ r = 0 /\ ops = <<>>
             \/ /\ j \in 1 .. n /\ r \in {1, 2}
                /\ \A First : First \subseteq Firsts /\ ops \in First => IsPiping(s, j, First)
  <2>1. CASE r = 0 /\ j = 0 /\ ops = <<>>
    BY <2>1
  <2>2. CASE r \in {1, 2} /\ j \in 1 .. Len(s)
    <3>1. ASSUME NEW First, First \subseteq Firsts, ops \in First PROVE IsPiping(s, j, First)
      BY <1>7, <2>2, <3>1, PipingBegins
    <3> QED
      BY <2>2, <3>1 DEF n
  <2> QED
    BY <1>7, <2>1, <2>2 DEF Begins
<1>8. ASSUME NEW i, NEW j, NEW Ops, NEW red \in Ops, IsRedirected(s, i, j, {red})
      PROVE  IsRedirected(s, i, j, Ops)
  BY <1>8 DEF IsRedirected
<1>9. {<<>>, <<"<">>} \subseteq Firsts /\ {<<">", "<">>} \subseteq Firsts
  BY Zenon DEF Firsts
<1>10. ASSUME NEW j \in 0 .. n, NEW ops \in Firsts, Begins(s, j, r, ops),
              NEW red \in Redirections, IsRedirected(s, j, n, {red}),
              r > 0 => red \in {<<>>, <<">">>} /\ ops \in {<<>>, <<"<">>}
       PROVE  IsPipeline(s)
  <2>1. CASE j = 0
    <3>1. IsRedirected(s, 0, n, Redirections)
      BY <1>8, <1>10, <2>1
    <3> QED
      BY <3>1, Zenon DEF IsPipeline, Redirections, n
  <2>2. CASE j # 0
    <3>1. j \in 1 .. n /\ r \in {1, 2} /\ r > 0
      BY <1>7, <1>10, <2>2
    <3>2. IsPiping(s, j, {<<>>, <<"<">>})
      BY <1>7, <1>9, <1>10, <2>2, <3>1, Zenon
    <3>3. IsRedirected(s, j, n, {<<>>, <<">">>})
      BY <1>8, <1>10, <3>1
    <3> QED
      BY <3>1, <3>2, <3>3 DEF IsPipeline, n
  <2> QED
    BY <2>1, <2>2
<1>11. ASSUME NEW j \in 0 .. n, NEW ops \in Firsts, Begins(s, j, r, ops), IsBuiltIn(s, j, n)
       PROVE  Accepted(s)
  <2>1. CASE j = 0
    BY <1>11, <2>1 DEF Accepted, n
  <2>2. CASE j # 0
    <3>1. j \in 1 .. n /\ IsPiping(s, j, Firsts)
      BY <1>7, <1>11, <2>2
    <3> QED
      BY <1>11, <3>1, Zenon DEF Accepted, IsUnrunnable, Firsts, n
  <2> QED
    BY <2>1, <2>2
<1>12. CASE a.state = "WAIT_ARG"
  <2>1. PICK j \in 0 .. n, ops \in Firsts : Begins(s, j, r, ops) /\ IsCommand(s, j, n)
    BY <1>5, <1>12 DEF Stands, InCommand
  <2>2. IsRedirected(s, j, n, {<<>>}) /\ <<>> \in Redirections
    BY <1>0, <2>1, CommandIsRedirected, OpsAre
  <2>3. CASE ops \in {<<>>, <<"<">>}
    BY <1>10, <2>1, <2>2, <2>3 DEF Accepted
  <2>4. CASE ops = <<">", "<">>
    <3>1. ops # <<>>
      BY <2>4
    <3>2. j \in 1 .. n /\ IsPiping(s, j, {<<">", "<">>})
      BY <1>7, <1>9, <2>1, <2>4, <3>1
    <3> QED
      BY <2>1, <3>2, Zenon DEF Accepted, IsDropping, n
  <2> QED
    BY <2>3, <2>4, Zenon DEF Firsts
<1>13. CASE a.state = "WAIT_MORE"
  <2>1. PICK j \in 0 .. n, ops \in Firsts, red \in Redirections \ {<<>>} :
          /\ Begins(s, j, r, ops) /\ IsRedirected(s, j, n, {red})
          /\ quota = Len(ops) + Len(red)
          /\ r > 0 => red = <<">">>
    BY <1>5, <1>13, Zenon DEF Stands, BehindFile
  <2>2. r > 0 => ops \in {<<>>, <<"<">>}
    <3> SUFFICES ASSUME r > 0, ops = <<">", "<">> PROVE FALSE
      BY Zenon DEF Firsts
    <3>1. Len(ops) = 2 /\ Len(red) = 1 /\ 2 + 1 = 3
      BY <2>1, OpsAre
    <3>2. quota = 3
      BY <2>1, <3>1, Zenon
    <3> QED
      BY <1>2, <3>2
  <2> QED
    BY <1>10, <2>1, <2>2 DEF Accepted
<1>14. CASE a.state = "NO_MORE"
  <2>1. PICK j \in 0 .. n, ops \in Firsts : Begins(s, j, r, ops) /\ IsBuiltIn(s, j, n)
    BY <1>5, <1>14 DEF Stands, BehindBuiltIn
  <2> QED
    BY <1>11, <2>1
<1>15. CASE a.state = "WAIT_ONE_ARG"
  <2>1. PICK j \in 0 .. n, ops \in Firsts :
          Begins(s, j, r, ops) /\ n = j + 1 /\ s[n] \in OneArg
    BY <1>5, <1>15 DEF Stands, BeforeArg
  <2>2. IsBuiltIn(s, j, n)
    BY <2>1 DEF IsBuiltIn, BuiltIn
  <2> QED
    BY <1>11, <2>1, <2>2
<1> QED
  BY <1>6, <1>12, <1>13, <1>14, <1>15

\* cmdExe never forks more processes than a row of the table has entries.
LEMMA ProcessesFitRow ==
    ASSUME NEW s \in Seq(Tokens), checkSyntax(s)
    PROVE  Processes(s) \in Columns
<1>1. Scan(s).recursive \in Nat
  BY ScanStays DEF Automata
<1>2. Scan(s).recursive <= 2
  BY DEF checkSyntax
<1> QED
  BY <1>1, <1>2 DEF Processes, Columns
-----------------------------------------------------------------------------
(* The numbers of the processes *)

\* What the shell counts when it forks.
LEMMA ForkedCount ==
    ASSUME NEW k \in Nat, Forked = 1 .. k
    PROVE  Cardinality(Forked) = k
BY FS_Interval

LEMMA InitInv ==
    ASSUME Init
    PROVE  ShellInv
<1> USE ShellAssumption DEF Init, Pids, Rows, Columns, EmptyRow, NoPid
<1>1. TypeOK
  BY DEF TypeOK, SHELL
<1>2. Forked = {}
  BY DEF Forked
<1>3. Cardinality(Forked) = 0 /\ Forked = 1 .. Cardinality(Forked)
  BY <1>2, FS_EmptySet
<1>4. ~ Launching /\ ~ Continuing
  BY DEF Launching, Continuing
<1>5. LineInv
  BY <1>4 DEF LineInv
<1>6. NumbersInv /\ RoomInv
  BY <1>3 DEF NumbersInv, RoomInv
<1>7. RowInv
  BY <1>4 DEF RowInv
<1>8. QuietInv
  BY DEF QuietInv, Rests
<1>9. ListInv
  BY DEF ListInv
<1>10. StoppedInv
  BY <1>4 DEF StoppedInv, Listed
<1> QED
  BY <1>1, <1>5, <1>6, <1>7, <1>8, <1>9, <1>10 DEF ShellInv, TableInv

-----------------------------------------------------------------------------
(* The processes and the terminal *)

\* Whatever the processes do among themselves, those at rest stay as they are and no
\* process appears or disappears.
Among ==
    /\ UNCHANGED shellVars
    /\ proc' \in [Pids -> {"none", "new", "running", "stopped", "exited"}]
    /\ holders' \in [Pids -> SUBSET (Pids \cup {SHELL})]
    /\ \A p \in Pids : IF Rests(p) THEN proc'[p] = proc[p] ELSE proc'[p] # "none"

LEMMA AmongThem ==
    ASSUME ShellInv, NEW p \in Pids,
           SignalsDefault(p) \/ processCreation(p) \/ Finish(p) \/ Stop
    PROVE  Among
<1> USE DEF ShellInv, TypeOK, Among, Rests
<1>1. CASE processCreation(p)
  BY <1>1 DEF processCreation
<1>2. CASE Finish(p)
  BY <1>2 DEF Finish
<1>3. CASE Stop
  BY <1>3 DEF Stop
<1>4. CASE SignalsDefault(p)
  BY <1>4 DEF SignalsDefault
<1> QED
  BY <1>1, <1>2, <1>3, <1>4

LEMMA AmongKeeps ==
    ASSUME ShellInv, Among
    PROVE  ShellInv'
<1> USE DEF ShellInv, Among, shellVars
<1>1. TypeOK'
  BY DEF TypeOK
<1>2. Forked' = Forked
  BY DEF Forked, Rests
<1>3. LineInv'
  BY DEF LineInv, Launching
<1>4. NumbersInv' /\ RoomInv'
  BY <1>2 DEF NumbersInv, RoomInv
<1>5. RowInv'
  BY <1>2 DEF RowInv, Continuing
<1>6. \A p \in Pids : Rests(p) => Rests(p)' /\ proc'[p] = proc[p]
  BY DEF Rests
<1>7. QuietInv'
  BY <1>6 DEF QuietInv
<1>8. ASSUME orderly' PROVE ListInv'
  <2>1. ListInv
    BY <1>8 DEF TableInv
  <2>2. \A i \in Columns : mode = "wait" => Row(i)' = Row(i)
    <3> SUFFICES ASSUME NEW i \in Columns, mode = "wait", i < at, i <= Len(pid)
                 PROVE  proc'[pid[i]] = proc[pid[i]]
      BY DEF Row
    <3>1. pid[i] = pid[1] + i - 1 /\ pid[i] \in Pids /\ pid[1] \in Pids
      BY DEF LineInv, Launching, Columns
    <3>2. pid[i] < pid[1] + at - 1
      BY <3>1, ShellAssumption, SMTT(30) DEF LineInv, Launching, Columns, Pids
    <3>3. Rests(pid[i])
      BY <3>1, <3>2 DEF QuietInv
    <3> QED
      BY <1>6, <3>1, <3>3
  <2> QED
    BY <2>1, <2>2 DEF ListInv
<1>9. ASSUME orderly' PROVE StoppedInv'
  <2> ListInv /\ StoppedInv
    BY <1>9 DEF TableInv
  <2>1. CASE mode \in {"prompt", "ended"}
    <3>1. \A p \in Pids : proc'[p] = proc[p]
      BY <1>6, <2>1 DEF QuietInv
    <3> QED
      BY <2>1, <3>1 DEF StoppedInv, Listed, Launching, Continuing
  <2>4. CASE mode = "undefined"
    BY <2>4 DEF StoppedInv, Launching, Continuing
  <2>2. CASE Launching
    <3>1. pid \in Seq(Pids) /\ Len(pid) \in 1 .. 3 /\ at \in 1 .. Len(pid) + 1 /\ pid[1] \in Nat
      BY <2>2, ShellAssumption DEF LineInv, Columns, Pids
    <3>2. \A p \in Pids : p < pid[1] => proc'[p] = proc[p]
      BY <1>6, <2>2, <3>1, ShellAssumption, SMTT(30) DEF QuietInv, Launching, Pids
    <3>3. ASSUME mode = "wait", at > 1 PROVE status = proc'[pid[at - 1]]
      <4>1. at - 1 \in 1 .. Len(pid)
        BY <3>1, <3>3
      <4>2. pid[at - 1] \in Pids
        BY <3>1, <4>1
      <4>3. \A i \in 1 .. Len(pid) : pid[i] = pid[1] + i - 1
        BY <2>2 DEF LineInv
      <4>4. pid[at - 1] = pid[1] + (at - 1) - 1
        BY <4>1, <4>3
      <4>5. pid[at - 1] < pid[1] + at - 1
        BY <3>1, <4>4
      <4>6. Rests(pid[at - 1])
        BY <3>3, <4>2, <4>5 DEF QuietInv
      <4> QED
        BY <1>6, <2>2, <3>3, <4>2, <4>6 DEF StoppedInv
    <3> QED
      BY <2>2, <3>2, <3>3 DEF StoppedInv, Listed, Launching, Continuing
  <2>3. CASE Continuing
    <3>1. \A p \in Pids : ~ (mode = "continued" /\ p = pid[at]) => proc'[p] = proc[p]
      BY <1>6, <2>3 DEF QuietInv, Continuing
    <3>2. \A i, l \in Columns : pid[i] = pid[l] /\ pid[i] # NoPid => i = l
      BY <2>3, ShellAssumption DEF StoppedInv, ListInv, Rows, TypeOK
    <3>3. at \in 1 .. 4 /\ pid \in [Columns -> Pids \cup {NoPid}]
      BY <2>3 DEF RowInv
    <3>4. mode = "continued" => at \in Columns
      BY DEF RowInv
    <3>5. \A p \in Pids : (\A i \in Columns : p # pid[i]) => proc'[p] = proc[p]
      BY <3>1, <3>4
    <3>6. \A i \in Columns : pid[i] # NoPid /\ ~ (mode = "continued" /\ at = i) => proc'[pid[i]] = proc[pid[i]]
      BY <3>1, <3>2, <3>3, <3>4
    <3>7. at > 1 => at - 1 \in Columns /\ at - 1 # at
      BY <3>3 DEF Columns
    <3> QED
      BY <2>3, <3>5, <3>6, <3>7 DEF StoppedInv, Listed, Launching, Continuing
  <2> QED
    BY <2>1, <2>2, <2>3, <2>4 DEF TypeOK, Launching, Continuing
<1> QED
  BY <1>1, <1>3, <1>4, <1>5, <1>7, <1>8, <1>9 DEF TableInv
-----------------------------------------------------------------------------
(* The prompt *)

\* Another line, and maybe the end of the shell.
LEMMA LineKeeps ==
    ASSUME ShellInv, mode = "prompt", mode' \in {"prompt", "ended", "undefined"}, line' \in Seq(Tokens),
           UNCHANGED <<pid, at, status, jobfg, jobpid, jobnum, proc, first, holders, typed, orderly>>
    PROVE  ShellInv'
<1> USE DEF ShellInv, Launching, Continuing
<1>1. TypeOK'
  BY DEF TypeOK
<1>2. Forked' = Forked
  BY DEF Forked
<1>3. LineInv'
  BY DEF LineInv
<1>4. NumbersInv' /\ RoomInv'
  BY <1>2 DEF NumbersInv, RoomInv
<1>5. RowInv'
  BY <1>2 DEF RowInv
<1>6. QuietInv'
  BY DEF QuietInv, Rests
<1>7. ASSUME orderly' PROVE ListInv' /\ StoppedInv'
  <2>1. ListInv /\ StoppedInv
    BY <1>7 DEF TableInv
  <2>2. ListInv'
    BY <2>1 DEF ListInv
  <2> QED
    BY <2>1, <2>2 DEF StoppedInv, Listed
<1> QED
  BY <1>1, <1>3, <1>4, <1>5, <1>6, <1>7 DEF TableInv

LEMMA TypeKeeps ==
    ASSUME ShellInv, NEW t \in Tokens, Type(t)
    PROVE  ShellInv'
<1>1. line' \in Seq(Tokens)
  BY DEF ShellInv, LineInv, Type
<1> QED
  BY <1>1, LineKeeps DEF Type

LEMMA DropKeeps ==
    ASSUME ShellInv, Rejected \/ Exit \/ NoEffect \/ ForegroundOutside
    PROVE  ShellInv'
<1>1. line' = <<>>
  BY DEF Rejected, Exit, NoEffect, ForegroundOutside
<1>2. line' \in Seq(Tokens)
  BY <1>1
<1> QED
  BY <1>2, LineKeeps DEF Rejected, Exit, NoEffect, ForegroundOutside, Enter

LEMMA ForegroundKeeps ==
    ASSUME ShellInv, NEW n \in Rows, Foreground(n)
    PROVE  ShellInv'
<1> USE DEF ShellInv, Launching, Continuing, Foreground, Enter
<1>1. TypeOK'
  BY DEF TypeOK
<1>2. Forked' = Forked
  BY DEF Forked
<1>3. LineInv'
  BY DEF LineInv
<1>4. NumbersInv' /\ RoomInv'
  BY <1>2 DEF NumbersInv, RoomInv
<1>5. RowInv'
  <2>1. jobpid[n] \in [Columns -> Pids \cup {NoPid}]
    BY DEF TypeOK
  <2>2. jobnum >= 1
    BY ShellAssumption DEF TypeOK
  <2>3. \A i \in Columns : jobpid[n][i] # NoPid => jobpid[n][i] \in Forked
    BY DEF RowInv
  <2>4. \A j \in Rows, i \in Columns : jobpid[j][i] # NoPid => jobpid[j][i] \in Forked
    BY DEF RowInv
  <2> QED
    BY <1>2, <2>1, <2>2, <2>3, <2>4 DEF RowInv
<1>6. QuietInv'
  BY DEF QuietInv, Rests
<1>7. ASSUME orderly' PROVE ListInv' /\ StoppedInv'
  <2>1. ListInv /\ StoppedInv /\ n <= jobnum
    BY <1>7 DEF TableInv
  <2>2. n \in 1 .. jobnum /\ 1 .. jobnum \subseteq Rows
    BY <2>1, ShellAssumption DEF Rows, TypeOK
  <2>3. ListInv'
    BY <2>1 DEF ListInv
  <2>4. \A p \in Pids : proc[p] = "stopped" <=> Listed(p, 1 .. jobnum)
    BY <2>1 DEF StoppedInv
  <2>5. ASSUME NEW p \in Pids, \A i \in Columns : p # jobpid[n][i]
        PROVE  proc[p] = "stopped" <=> Listed(p, (1 .. jobnum) \ {n})
    BY <2>2, <2>4, <2>5 DEF Listed
  <2>6. ASSUME NEW i \in Columns, jobpid[n][i] # NoPid
        PROVE  proc[jobpid[n][i]] = "stopped"
    <3>1. jobpid[n][i] \in Pids
      BY <2>6 DEF TypeOK
    <3> QED
      BY <2>2, <2>4, <3>1 DEF Listed
  <2>7. \A p : Listed(p, (1 .. jobnum) \ {n})' <=> Listed(p, (1 .. jobnum) \ {n})
    BY DEF Listed
  <2>8. at' = 1 /\ mode' = "fg" /\ pid' = jobpid[n] /\ jobfg' = n
    OBVIOUS
  <2>9. ~ (at' > 1)
    BY <2>8
  <2>10. UNCHANGED <<proc, jobpid, jobnum>>
    OBVIOUS
  <2> QED
    BY ONLY <2>2, <2>3, <2>5, <2>6, <2>7, <2>8, <2>9, <2>10 DEF StoppedInv, Launching, Continuing
<1> QED
  BY <1>1, <1>3, <1>4, <1>5, <1>6, <1>7 DEF TableInv

LEMMA LaunchKeeps ==
    ASSUME ShellInv, Launch
    PROVE  ShellInv'
<1> USE DEF ShellInv
<1> DEFINE n == Processes(line)
           k == Cardinality(Forked)
<1>1. n \in 1 .. 3
  BY ProcessesFitRow DEF LineInv, Launch, Enter, Columns
<1>2. mode = "prompt"
  BY DEF Launch, Enter
<1>3. Forked = 1 .. k
  BY <1>2 DEF NumbersInv
<1>4. k \in Nat
  <2>1. IsFiniteSet(1 .. MaxPids)
    BY FS_Interval, ShellAssumption
  <2>2. IsFiniteSet(Forked)
    BY <2>1, FS_Subset DEF Forked, Pids
  <2> QED
    BY <2>2, FS_CardinalityType
<1>5. /\ k + n <= MaxPids
      /\ mode' = "fork" /\ at' = 1 /\ status' = "unset" /\ line' = <<>>
      /\ pid' = [i \in 1 .. n |-> (k + 1) + i - 1]
      /\ first' = first \cup {k + 1}
      /\ holders' = [p \in Pids |-> IF p \in (k + 1) .. (k + 1) + n - 2 THEN {SHELL} ELSE holders[p]]
      /\ UNCHANGED <<jobfg, jobpid, jobnum, proc, typed, orderly>>
  BY <1>1, <1>4, ShellAssumption DEF Launch
<1> HIDE DEF n, k
<1>6. k + 1 \in Pids
  BY <1>1, <1>4, <1>5, ShellAssumption DEF Pids
<1>7. TypeOK'
  BY <1>5, <1>6 DEF TypeOK
<1>8. Forked' = Forked
  BY <1>5 DEF Forked
<1>9. Len(pid') = n /\ pid'[1] = k + 1 /\ pid' \in Seq(Pids)
  <2>1. \A i \in 1 .. n : (k + 1) + i - 1 \in Pids
    BY <1>1, <1>4, <1>5, ShellAssumption DEF Pids
  <2>2. pid' \in Seq(Pids) /\ Len(pid') = n
    BY <1>1, <1>5, <2>1
  <2> QED
    BY <1>1, <1>4, <1>5, <2>2
<1>10. LineInv'
  BY <1>1, <1>4, <1>5, <1>9 DEF LineInv, Launching, Columns
<1>11. NumbersInv' /\ RoomInv'
  <2>1. pid'[1] + at' - 2 = k
    BY <1>4, <1>5, <1>9
  <2> QED
    BY <1>3, <1>5, <1>8, <2>1 DEF NumbersInv, RoomInv
<1>12. RowInv'
  BY <1>5, <1>8 DEF RowInv, Continuing
<1>13. QuietInv'
  BY <1>2, <1>5 DEF QuietInv, Rests
<1>14. ASSUME orderly' PROVE ListInv' /\ StoppedInv'
  <2>1. ListInv /\ StoppedInv
    BY <1>5, <1>14 DEF TableInv
  <2>2. ListInv'
    BY <1>2, <1>5, <2>1 DEF ListInv
  <2>3. \A p \in Pids : proc[p] = "stopped" <=> Listed(p, 1 .. jobnum)
    BY <1>2, <2>1 DEF StoppedInv
  <2>4. \A p \in Pids : proc[p] = "stopped" => p < k + 1
    BY <1>3, <1>4 DEF Forked, Pids
  <2>5. \A p : Listed(p, 1 .. jobnum)' <=> Listed(p, 1 .. jobnum)
    BY <1>5 DEF Listed
  <2> QED
    BY <1>5, <1>9, <2>2, <2>3, <2>4, <2>5 DEF StoppedInv, Launching, Continuing
<1> QED
  BY <1>7, <1>10, <1>11, <1>12, <1>13, <1>14 DEF TableInv
-----------------------------------------------------------------------------
(* cmdExe *)

\* The line that runs, in numbers.
LEMMA LineNumbers ==
    ASSUME ShellInv, Launching
    PROVE  /\ Len(pid) \in 1 .. 3 /\ at \in 1 .. Len(pid) + 1
           /\ pid[1] \in Pids /\ pid[1] \in Nat /\ pid[1] >= 1
           /\ \A i \in 1 .. Len(pid) : pid[i] \in Pids /\ pid[i] = pid[1] + i - 1
           /\ Forked = 1 .. IF mode = "fork" THEN pid[1] + at - 2 ELSE pid[1] + Len(pid) - 1
           /\ jobnum \in Nat
           /\ 1 .. jobnum \subseteq Rows
<1>1. Len(pid) \in 1 .. 3 /\ at \in 1 .. Len(pid) + 1 /\ pid \in Seq(Pids)
  BY DEF ShellInv, LineInv, Columns
<1>2. \A i \in 1 .. Len(pid) : pid[i] \in Pids
  BY <1>1
<1>3. pid[1] \in Pids
  BY <1>1, <1>2
<1>4. \A i \in 1 .. Len(pid) : pid[i] = pid[1] + i - 1
  BY DEF ShellInv, LineInv
<1>5. pid[1] \in Nat /\ pid[1] >= 1
  BY <1>3, ShellAssumption DEF Pids
<1>6. jobnum \in Nat /\ 1 .. jobnum \subseteq Rows
  BY ShellAssumption DEF ShellInv, TypeOK, Rows
<1> QED
  BY <1>1, <1>2, <1>3, <1>4, <1>5, <1>6 DEF ShellInv, NumbersInv, Launching

LEMMA ForkKeeps ==
    ASSUME ShellInv, Fork
    PROVE  ShellInv'
<1> USE DEF ShellInv
<1>1. mode = "fork" /\ Launching /\ mode' = "fork" /\ Launching' /\ ~ Continuing'
  BY DEF Fork, Launching, Continuing
<1>2. /\ at \in 1 .. Len(pid) /\ at' = at + 1
      /\ proc' = [proc EXCEPT ![pid[at]] = "new"]
      /\ UNCHANGED <<line, mode, pid, status, jobfg, jobpid, jobnum, first, typed, orderly>>
  BY <1>1, LineNumbers DEF Fork
<1>3. pid[at] \in Pids /\ pid[at] = pid[1] + at - 1
  BY <1>1, <1>2, LineNumbers
<1>4. TypeOK'
  BY <1>2, <1>3 DEF Fork, TypeOK
<1>5. \A p \in Pids : IF p = pid[at] THEN proc'[p] = "new" ELSE proc'[p] = proc[p]
  BY <1>2, <1>3 DEF TypeOK
<1>6. Forked' = Forked \cup {pid[at]}
  BY <1>3, <1>5 DEF Forked
<1>7. Forked' = 1 .. pid[1] + at' - 2
  <2>1. Forked = 1 .. pid[1] + at - 2
    BY <1>1, LineNumbers
  <2>2. pid[1] \in Nat /\ pid[1] >= 1 /\ at \in Nat /\ at >= 1
    BY <1>1, <1>2, LineNumbers
  <2> QED
    BY <1>2, <1>3, <1>6, <2>1, <2>2
<1>8. LineInv'
  BY <1>1, <1>2, LineNumbers DEF LineInv
<1>9. NumbersInv' /\ RoomInv'
  BY <1>1, <1>2, <1>7 DEF NumbersInv, RoomInv
<1>10. RowInv'
  BY <1>1, <1>2, <1>6 DEF RowInv
<1>11. pid[at] >= pid[1]
  BY <1>1, <1>2, <1>3, LineNumbers
<1>12. \A p \in Pids : p < pid[1] => proc'[p] = proc[p]
  BY <1>1, <1>5, <1>11, LineNumbers, ShellAssumption DEF Pids
<1>13. QuietInv'
  BY <1>1, <1>2, <1>12 DEF QuietInv, Rests
<1>14. ASSUME orderly' PROVE ListInv' /\ StoppedInv'
  <2>1. ListInv /\ StoppedInv
    BY <1>2, <1>14 DEF TableInv
  <2>2. ListInv'
    BY <1>1, <1>2, <2>1 DEF ListInv
  <2> QED
    BY <1>1, <1>2, <1>12, <2>1, <2>2 DEF StoppedInv, Listed
<1> QED
  BY <1>4, <1>8, <1>9, <1>10, <1>13, <1>14 DEF TableInv

LEMMA ClosePipesKeeps ==
    ASSUME ShellInv, ClosePipes
    PROVE  ShellInv'
<1> USE DEF ShellInv
<1>1. mode = "fork" /\ Launching /\ mode' = "wait" /\ Launching' /\ ~ Continuing'
  BY DEF ClosePipes, Launching, Continuing
<1>2. /\ at = Len(pid) + 1 /\ at' = 1
      /\ UNCHANGED <<line, pid, status, jobfg, jobpid, jobnum, proc, first, typed, orderly>>
  BY <1>1, LineNumbers DEF ClosePipes
<1>3. TypeOK'
  BY <1>1, <1>2 DEF ClosePipes, TypeOK
<1>4. Forked' = Forked
  BY <1>2 DEF Forked
<1>5. LineInv'
  BY <1>1, <1>2, LineNumbers DEF LineInv
<1>6. NumbersInv' /\ RoomInv'
  <2>1. pid[1] + at - 2 = pid[1] + Len(pid) - 1
    BY <1>1, <1>2, LineNumbers
  <2>2. Forked = 1 .. pid[1] + at - 2
    BY <1>1, LineNumbers
  <2> QED
    BY <1>1, <1>2, <1>4, <2>1, <2>2, LineNumbers DEF NumbersInv, RoomInv
<1>7. RowInv'
  BY <1>1, <1>2, <1>4 DEF RowInv
<1>8. pid[1] + at' - 1 = pid[1]
  BY <1>1, <1>2, LineNumbers
<1>9. QuietInv'
  BY <1>1, <1>2, <1>8 DEF QuietInv, Rests
<1>10. ASSUME orderly' PROVE ListInv' /\ StoppedInv'
  <2>1. ListInv /\ StoppedInv
    BY <1>2, <1>10 DEF TableInv
  <2>2. \A i \in Columns : Row(i)' = NoPid
    BY <1>2 DEF Row, Columns
  <2>3. ListInv'
    BY <1>1, <1>2, <2>1, <2>2 DEF ListInv
  <2> QED
    BY <1>1, <1>2, <2>1, <2>3 DEF StoppedInv, Listed
<1> QED
  BY <1>3, <1>5, <1>6, <1>7, <1>9, <1>10 DEF TableInv

\* The row after the last job gets an entry more.
LEMMA WaitKeeps ==
    ASSUME ShellInv, Wait
    PROVE  ShellInv'
<1> USE DEF ShellInv
<1>1. mode = "wait" /\ Launching /\ mode' = "wait" /\ Launching' /\ ~ Continuing'
  BY DEF Wait, Launching, Continuing
<1>2. /\ at \in 1 .. Len(pid) /\ at' = at + 1 /\ at \in Columns
      /\ proc[pid[at]] \in {"stopped", "exited"} /\ status' = proc[pid[at]]
      /\ UNCHANGED <<line, pid, jobfg, jobnum, proc, first, holders, typed, orderly>>
  BY <1>1, LineNumbers, SMTT(30) DEF Wait, Ceased, Columns
<1>3. pid[at] \in Pids /\ pid[at] = pid[1] + at - 1 /\ pid[at] # NoPid
  BY <1>1, <1>2, LineNumbers, ShellAssumption DEF Pids, NoPid
<1> DEFINE new == IF proc[pid[at]] = "stopped" THEN pid[at] ELSE NoPid
<1>4. proc[pid[at]] = "stopped" => jobnum + 1 \in Rows
  BY DEF Wait
<1>5. /\ jobpid' \in [Rows -> [Columns -> Pids \cup {NoPid}]]
      /\ \A j \in Rows, i \in Columns :
           jobpid'[j][i] = IF j = jobnum + 1 /\ i = at /\ proc[pid[at]] = "stopped"
                           THEN pid[at] ELSE jobpid[j][i]
  BY <1>2, <1>3, <1>4 DEF Wait, TypeOK
<1>6. TypeOK'
  BY <1>1, <1>2, <1>5 DEF TypeOK
<1>7. Forked' = Forked
  BY <1>2 DEF Forked
<1>8. LineInv'
  BY <1>1, <1>2, LineNumbers DEF LineInv
<1>9. NumbersInv' /\ RoomInv'
  BY <1>1, <1>2, <1>4, <1>7, LineNumbers DEF NumbersInv, RoomInv
<1>10. RowInv'
  BY <1>1, <1>2, <1>3, <1>5, <1>7 DEF RowInv, Forked
<1>11. QuietInv'
  <2> SUFFICES ASSUME NEW p \in Pids, p < pid[1] + (at + 1) - 1 PROVE Rests(p)
    BY <1>1, <1>2 DEF QuietInv, Rests
  <2>1. p < pid[1] + at - 1 \/ p = pid[at]
    BY <1>1, <1>2, <1>3, LineNumbers, ShellAssumption DEF Pids
  <2> QED
    BY <1>1, <1>2, <2>1 DEF QuietInv, Rests
<1>12. ASSUME orderly' PROVE ListInv' /\ StoppedInv'
  <2>1. ListInv /\ StoppedInv
    BY <1>2, <1>12 DEF TableInv
  <2>2. \A j \in 1 .. jobnum : j # jobnum + 1 /\ j \in Rows
    BY <1>1, LineNumbers
  <2>3. \A p \in Pids : Listed(p, 1 .. jobnum)' <=> Listed(p, 1 .. jobnum)
    BY <1>2, <1>5, <2>2 DEF Listed
  <2>4. \A i \in Columns : Row(i)' = IF i = at THEN new ELSE Row(i)
    <3>1. \A i \in Columns : i < at + 1 <=> i < at \/ i = at
      BY <1>2 DEF Columns
    <3>2. ~ (at < at) /\ at <= Len(pid)
      BY <1>1, <1>2, LineNumbers
    <3> QED
      BY <1>2, <3>1, <3>2 DEF Row
  <2>5. ASSUME jobnum + 1 \in Rows
        PROVE  \A i \in Columns : jobpid[jobnum + 1][i] = Row(i)
    <3>1. jobnum + 1 > jobnum
      BY <1>1, LineNumbers
    <3> QED
      BY <1>1, <2>1, <2>5, <3>1 DEF ListInv
  <2>6. Row(at) = NoPid
    BY <1>2 DEF Row, Columns
  <2>7. jobnum + 1 \in Rows => \A i \in Columns : jobpid'[jobnum + 1][i] = Row(i)'
    BY <1>2, <1>5, <2>4, <2>5, <2>6
  <2>8. \A j \in Rows, i \in Columns : jobpid[j][i] = pid[at] => FALSE
    <3> SUFFICES ASSUME NEW j \in Rows, NEW i \in Columns, jobpid[j][i] = pid[at] PROVE FALSE
      OBVIOUS
    <3>1. CASE j \in 1 .. jobnum
      BY <1>1, <1>2, <1>3, <2>1, <3>1, LineNumbers DEF StoppedInv, Listed
    <3>2. CASE j = jobnum + 1
      <4>1. i < at /\ i \in 1 .. Len(pid) /\ pid[i] = pid[at]
        BY <1>2, <1>3, <2>5, <3>2 DEF Row, Columns
      <4>2. pid[i] = pid[1] + i - 1
        BY <1>1, <4>1, LineNumbers
      <4> QED
        BY <1>1, <1>2, <1>3, <4>1, <4>2, LineNumbers
    <3>3. CASE j > jobnum /\ j # jobnum + 1
      BY <1>3, <2>1, <3>3 DEF ListInv
    <3> QED
      BY <1>1, <3>1, <3>2, <3>3, LineNumbers, ShellAssumption DEF Rows
  <2>9. ListInv'
    <3>1. ASSUME NEW j \in Rows, NEW k \in Rows, NEW i \in Columns, NEW l \in Columns,
                 jobpid'[j][i] = jobpid'[k][l], jobpid'[j][i] # NoPid
          PROVE  j = k /\ i = l
      BY <1>5, <2>1, <2>8, <3>1 DEF ListInv
    <3>2. \A j \in 1 .. jobnum : jobpid'[j][1] # NoPid
      BY <1>5, <2>1, <2>2 DEF ListInv, Columns
    <3>3. ASSUME NEW j \in Rows, j > jobnum, j # jobnum + 1
          PROVE  \A i \in Columns : jobpid'[j][i] = NoPid
      BY <1>5, <2>1, <3>3 DEF ListInv
    <3> QED
      BY <1>1, <1>2, <2>7, <3>1, <3>2, <3>3 DEF ListInv
  <2>10. at' - 1 = at
    BY <1>2
  <2> QED
    BY <1>1, <1>2, <2>1, <2>3, <2>9, <2>10 DEF StoppedInv
<1> QED
  BY <1>6, <1>8, <1>9, <1>10, <1>11, <1>12 DEF TableInv

\* Nothing but the mode changes when the table is full.
LEMMA WaitTableFullKeeps ==
    ASSUME ShellInv, WaitTableFull
    PROVE  ShellInv'
<1> USE DEF ShellInv
<1>1. mode = "wait" /\ Launching /\ mode' = "undefined" /\ ~ Launching' /\ ~ Continuing'
  BY DEF WaitTableFull, Launching, Continuing
<1>2. UNCHANGED <<line, pid, at, status, jobfg, jobpid, jobnum, proc, first, holders, typed, orderly>>
  BY DEF WaitTableFull
<1>3. TypeOK'
  BY <1>1, <1>2 DEF TypeOK
<1>4. Forked' = Forked
  BY <1>2 DEF Forked
<1>5. LineInv'
  BY <1>1, <1>2 DEF LineInv
<1>6. NumbersInv' /\ RoomInv'
  <2>1. pid[1] + Len(pid) - 1 \in Nat /\ Forked = 1 .. pid[1] + Len(pid) - 1
    BY <1>1, LineNumbers
  <2>2. Cardinality(Forked) = pid[1] + Len(pid) - 1
    BY <2>1, ForkedCount
  <2> QED
    BY <1>1, <1>4, <2>1, <2>2 DEF NumbersInv, RoomInv
<1>7. RowInv'
  BY <1>1, <1>2, <1>4 DEF RowInv
<1>8. QuietInv'
  BY <1>1 DEF QuietInv
<1>9. ASSUME orderly' PROVE ListInv' /\ StoppedInv'
  <2>1. ListInv /\ StoppedInv /\ jobnum + 1 \notin Rows
    BY <1>2, <1>9 DEF TableInv, WaitTableFull
  <2>2. \A j \in Rows : ~ (j > jobnum)
    BY <2>1, ShellAssumption DEF TypeOK, Rows
  <2>3. ListInv'
    BY <1>1, <1>2, <2>1, <2>2 DEF ListInv
  <2> QED
    BY <1>1, <2>3 DEF StoppedInv
<1> QED
  BY <1>3, <1>5, <1>6, <1>7, <1>8, <1>9 DEF TableInv

\* The row becomes a job, or it has nothing in it.
LEMMA EndOfLineKeeps ==
    ASSUME ShellInv, EndOfLine
    PROVE  ShellInv'
<1> USE DEF ShellInv
<1>1. mode = "wait" /\ Launching /\ mode' = "prompt" /\ ~ Launching' /\ ~ Continuing'
  BY DEF EndOfLine, Launching, Continuing
<1>2. /\ at = Len(pid) + 1
      /\ jobnum' = IF status = "stopped" THEN jobnum + 1 ELSE jobnum
      /\ orderly' = (orderly /\ ~ Halved)
      /\ UNCHANGED <<line, status, jobfg, jobpid, proc, first, holders>>
  BY <1>1, LineNumbers DEF EndOfLine
<1> DEFINE n == Len(pid)
           last == pid[1] + n - 1
<1>3. /\ n \in 1 .. 3 /\ pid[1] \in Nat /\ pid[1] >= 1 /\ pid[1] <= MaxPids
      /\ Forked = 1 .. last /\ jobnum \in Nat /\ (status = "stopped" => jobnum + 1 \in Rows)
  BY <1>1, <1>2, LineNumbers DEF Pids, RoomInv
<1>4. TypeOK'
  <2>1. jobnum' \in 0 .. MaxJobs
    BY <1>2, <1>3, ShellAssumption DEF TypeOK, Rows
  <2> QED
    BY <1>1, <1>2, <2>1 DEF TypeOK
<1>5. Forked' = Forked
  BY <1>2 DEF Forked
<1>6. LineInv'
  BY <1>1, <1>2 DEF LineInv
<1>7. last \in Nat /\ last >= pid[1]
  BY <1>3
<1>8. NumbersInv' /\ RoomInv'
  <2>1. Cardinality(Forked) = last
    BY <1>3, <1>7, ForkedCount
  <2> QED
    BY <1>1, <1>3, <1>5, <2>1 DEF NumbersInv, RoomInv
<1>9. RowInv'
  BY <1>1, <1>2, <1>5 DEF RowInv
<1>10. \A p \in Pids : Rests(p)
  <2> SUFFICES ASSUME NEW p \in Pids, p >= pid[1] + at - 1 PROVE Rests(p)
    BY <1>1, <1>2, <1>3, ShellAssumption DEF QuietInv, Pids
  <2>1. p \notin Forked
    BY <1>2, <1>3, ShellAssumption DEF Pids
  <2> QED
    BY <2>1 DEF Forked, Rests
<1>11. QuietInv'
  BY <1>1, <1>2, <1>10 DEF QuietInv, Rests
<1>12. ASSUME orderly' PROVE ListInv' /\ StoppedInv'
  <2>1. ListInv /\ StoppedInv /\ ~ Halved
    BY <1>2, <1>12 DEF TableInv
  <2>2. \A i \in 1 .. n : pid[i] \in Pids /\ pid[i] = pid[1] + i - 1 /\ pid[i] # NoPid
    BY <1>1, LineNumbers, ShellAssumption DEF NoPid, Pids
  <2>3. \A i \in 1 .. n : proc[pid[i]] \in {"stopped", "exited"}
    <3> SUFFICES ASSUME NEW i \in 1 .. n PROVE proc[pid[i]] # "none"
      BY <1>10, <2>2 DEF Rests
    <3>1. pid[i] \in Forked
      BY <1>3, <2>2
    <3> QED
      BY <3>1 DEF Forked
  <2>4. status = proc[pid[n]] /\ n \in 1 .. n /\ 1 \in 1 .. n
    BY <1>1, <1>2, <1>3, <2>1 DEF StoppedInv
  <2>5. \A i \in 1 .. n : proc[pid[i]] = status
    <3>1. ToSet(pid) = {pid[i] : i \in 1 .. n}
      BY <1>1 DEF ToSet, LineInv
    <3> QED
      BY <2>1, <2>2, <2>3, <2>4, <3>1 DEF Halved
  <2>6. \A p \in Pids : p >= pid[1] /\ proc[p] = "stopped" => \E i \in 1 .. n : p = pid[i]
    <3> SUFFICES ASSUME NEW p \in Pids, p >= pid[1], proc[p] = "stopped"
                 PROVE  \E i \in 1 .. n : p = pid[i]
      OBVIOUS
    <3>1. p \in Forked
      BY DEF Forked
    <3>2. p - pid[1] + 1 \in 1 .. n /\ p = pid[1] + (p - pid[1] + 1) - 1
      BY <1>3, <3>1
    <3> QED
      BY <2>2, <3>2
  <2>7. 1 .. jobnum \subseteq Rows /\ jobnum + 1 > jobnum
    BY <1>1, <1>3, LineNumbers
  <2>8. ASSUME NEW i \in Columns, jobnum + 1 \in Rows
        PROVE  jobpid[jobnum + 1][i] = IF i <= n /\ status = "stopped" THEN pid[i] ELSE NoPid
    <3> SUFFICES Row(i) = IF i <= n /\ status = "stopped" THEN pid[i] ELSE NoPid
      BY <1>1, <2>1, <2>7, <2>8 DEF ListInv
    <3>1. i <= n => i < at /\ i \in 1 .. n
      BY <1>2, <1>3 DEF Columns
    <3> QED
      BY <2>5, <3>1 DEF Row
  <2>9. \A j \in Rows, i \in Columns : j > jobnum + 1 => jobpid[j][i] = NoPid
    BY <1>1, <1>3, <2>1, ShellAssumption DEF ListInv, Rows
  <2>10. \A p \in Pids : Listed(p, 1 .. jobnum) <=> p < pid[1] /\ proc[p] = "stopped"
    BY <1>1, <2>1 DEF StoppedInv
  <2>11. CASE status = "stopped"
    <3>1. jobnum' = jobnum + 1
      BY <1>2, <2>11
    <3>2. ListInv'
      <4>1. \A j \in 1 .. jobnum + 1 : jobpid[j][1] # NoPid
        <5>1. jobpid[jobnum + 1][1] # NoPid
          BY <1>3, <2>2, <2>4, <2>8, <2>11 DEF Columns
        <5> QED
          BY <1>3, <2>1, <5>1 DEF ListInv
      <4>2. \A j \in Rows : j > jobnum + 1 => \A i \in Columns : jobpid[j][i] = NoPid
        BY <2>9
      <4> QED
        BY <1>1, <1>2, <2>1, <3>1, <4>1, <4>2 DEF ListInv
    <3>3. ASSUME NEW p \in Pids
          PROVE  proc[p] = "stopped" <=> Listed(p, 1 .. jobnum + 1)
      <4>1. Listed(p, 1 .. jobnum + 1) <=>
              Listed(p, 1 .. jobnum) \/ \E i \in Columns : jobpid[jobnum + 1][i] = p
        BY <1>3 DEF Listed
      <4>2. p # NoPid
        BY ShellAssumption DEF Pids, NoPid
      <4>3. (\E i \in Columns : jobpid[jobnum + 1][i] = p) <=> \E i \in 1 .. n : p = pid[i]
        BY <1>3, <2>8, <2>11, <4>2, SMTT(30) DEF Columns
      <4>4. CASE p < pid[1]
        <5>1. ~ \E i \in 1 .. n : p = pid[i]
          BY <1>3, <2>2, <4>4, ShellAssumption DEF Pids
        <5> QED
          BY <2>10, <4>1, <4>3, <4>4, <5>1
      <4>5. CASE p >= pid[1]
        <5>1. ~ Listed(p, 1 .. jobnum)
          BY <1>3, <2>10, <4>5, ShellAssumption DEF Pids
        <5> QED
          BY <2>5, <2>6, <2>11, <4>1, <4>3, <4>5, <5>1
      <4> QED
        BY <1>3, <4>4, <4>5, ShellAssumption DEF Pids
    <3>4. \A p : Listed(p, 1 .. jobnum)' <=> Listed(p, 1 .. jobnum + 1)
      BY <1>2, <3>1 DEF Listed
    <3> QED
      BY <1>1, <1>2, <3>2, <3>3, <3>4 DEF StoppedInv
  <2>12. CASE status = "exited"
    <3>1. jobnum' = jobnum
      BY <1>2, <2>12
    <3>2. ListInv'
      <4>1. \A j \in Rows : j > jobnum => \A i \in Columns : jobpid[j][i] = NoPid
        <5>1. jobnum + 1 \in Rows => \A i \in Columns : jobpid[jobnum + 1][i] = NoPid
          BY <2>8, <2>12
        <5>2. \A j \in Rows : j > jobnum => j = jobnum + 1 \/ j > jobnum + 1
          BY <1>3, ShellAssumption DEF Rows
        <5> QED
          BY <2>9, <5>1, <5>2
      <4> QED
        BY <1>1, <1>2, <2>1, <3>1, <4>1 DEF ListInv
    <3>3. \A p \in Pids : proc[p] = "stopped" => p < pid[1]
      <4> SUFFICES ASSUME NEW p \in Pids, proc[p] = "stopped", ~ (p < pid[1]) PROVE FALSE
        OBVIOUS
      <4>1. p >= pid[1]
        BY <1>3, ShellAssumption DEF Pids
      <4> QED
        BY <2>5, <2>6, <2>12, <4>1
    <3>4. \A p : Listed(p, 1 .. jobnum)' <=> Listed(p, 1 .. jobnum)
      BY <1>2, <3>1 DEF Listed
    <3> QED
      BY <1>1, <1>2, <2>10, <3>2, <3>3, <3>4 DEF StoppedInv
  <2> QED
    BY <2>3, <2>4, <2>11, <2>12
<1> QED
  BY <1>4, <1>6, <1>8, <1>9, <1>11, <1>12 DEF TableInv

-----------------------------------------------------------------------------
(* fg *)

\* One process of the row runs again, or has ended.
LEMMA ContinueKeeps ==
    ASSUME ShellInv, Continue
    PROVE  ShellInv'
<1> USE DEF ShellInv
<1>1. mode = "fg" /\ mode' \in {"fg", "continued"} /\ Continuing /\ Continuing' /\ ~ Launching /\ ~ Launching'
  BY DEF Continue, Launching, Continuing
<1>2. /\ at \in Columns /\ pid[at] # NoPid /\ pid \in [Columns -> Pids \cup {NoPid}]
      /\ pid[at] \in Pids /\ proc[pid[at]] # "none"
      /\ UNCHANGED <<line, pid, status, jobfg, jobpid, jobnum, first, holders, typed, orderly>>
  BY <1>1 DEF Continue, RowInv, Forked
<1>3. \/ proc[pid[at]] = "exited" /\ at' = at + 1 /\ UNCHANGED <<mode, proc>>
      \/ mode' = "continued" /\ at' = at /\ proc' = [proc EXCEPT ![pid[at]] = "running"]
  BY DEF Continue
<1>4. TypeOK'
  BY <1>1, <1>2, <1>3 DEF TypeOK
<1>5. Forked' = Forked
  BY <1>2, <1>3 DEF Forked, TypeOK
<1>6. LineInv'
  BY <1>1, <1>2 DEF LineInv
<1>7. NumbersInv' /\ RoomInv'
  BY <1>1, <1>5 DEF NumbersInv, RoomInv
<1>8. at' \in 1 .. 4
  BY <1>2, <1>3 DEF Columns
<1>9. RowInv'
  <2>1. mode' = "continued" => at' = at
    BY <1>1, <1>3
  <2> QED
    BY <1>1, <1>2, <1>5, <1>8, <2>1 DEF RowInv
<1>10. QuietInv'
  BY <1>1, <1>2, <1>3 DEF QuietInv, Rests, TypeOK
<1>11. ASSUME orderly' PROVE ListInv' /\ StoppedInv'
  <2>1. ListInv /\ StoppedInv
    BY <1>2, <1>11 DEF TableInv
  <2>2. proc[pid[at]] = "stopped"
    BY <1>1, <1>2, <2>1 DEF StoppedInv, Columns
  <2>3. mode' = "continued" /\ at' = at /\ proc' = [proc EXCEPT ![pid[at]] = "running"]
    BY <1>3, <2>2
  <2>4. ListInv'
    BY <1>1, <1>2, <2>1, <2>3 DEF ListInv
  <2>5. \A p \in Pids : p # pid[at] => proc'[p] = proc[p]
    BY <1>2, <2>3 DEF TypeOK
  <2>6. \A i, l \in Columns : pid[i] = pid[l] /\ pid[i] # NoPid => i = l
    BY <1>1, <2>1, ShellAssumption DEF StoppedInv, ListInv, Rows, TypeOK
  <2>7. \A i \in Columns : pid[i] # NoPid /\ at # i => pid[i] \in Pids /\ proc'[pid[i]] = proc[pid[i]]
    BY <1>2, <2>5, <2>6
  <2>8. at > 1 => at - 1 \in Columns /\ at - 1 # at
    BY <1>2 DEF Columns
  <2>9. \A p : Listed(p, (1 .. jobnum) \ {jobfg})' <=> Listed(p, (1 .. jobnum) \ {jobfg})
    BY <1>2 DEF Listed
  <2> QED
    BY <1>1, <1>2, <2>1, <2>3, <2>4, <2>5, <2>7, <2>8, <2>9, ZenonT(40) DEF StoppedInv
<1> QED
  BY <1>4, <1>6, <1>7, <1>9, <1>10, <1>11 DEF TableInv

LEMMA WaitContinuedKeeps ==
    ASSUME ShellInv, WaitContinued
    PROVE  ShellInv'
<1> USE DEF ShellInv
<1>1. mode = "continued" /\ mode' = "fg" /\ Continuing /\ Continuing' /\ ~ Launching /\ ~ Launching'
  BY DEF WaitContinued, Launching, Continuing
<1>2. /\ at \in Columns /\ pid[at] # NoPid /\ at' = at + 1 /\ status' = proc[pid[at]]
      /\ proc[pid[at]] \in {"stopped", "exited"}
      /\ UNCHANGED <<line, pid, jobfg, jobpid, jobnum, proc, first, holders, typed, orderly>>
  BY <1>1 DEF WaitContinued, RowInv, Ceased
<1>3. TypeOK'
  BY <1>1, <1>2 DEF TypeOK
<1>4. Forked' = Forked
  BY <1>2 DEF Forked
<1>5. LineInv'
  BY <1>1, <1>2 DEF LineInv
<1>6. NumbersInv' /\ RoomInv'
  BY <1>1, <1>4 DEF NumbersInv, RoomInv
<1>7. at' \in 1 .. 4 /\ at' - 1 = at
  BY <1>2 DEF Columns
<1>8. RowInv'
  BY <1>1, <1>2, <1>4, <1>7 DEF RowInv
<1>9. QuietInv'
  BY <1>1, <1>2 DEF QuietInv, Rests
<1>10. ASSUME orderly' PROVE ListInv' /\ StoppedInv'
  <2>1. ListInv /\ StoppedInv
    BY <1>2, <1>10 DEF TableInv
  <2>2. ListInv'
    BY <1>1, <1>2, <2>1 DEF ListInv
  <2>3. \A i \in Columns : at + 1 <= i => at <= i /\ at # i
    BY <1>2 DEF Columns
  <2>4. \A p : Listed(p, (1 .. jobnum) \ {jobfg})' <=> Listed(p, (1 .. jobnum) \ {jobfg})
    BY <1>2 DEF Listed
  <2> QED
    BY <1>1, <1>2, <1>7, <2>1, <2>2, <2>3, <2>4 DEF StoppedInv
<1> QED
  BY <1>3, <1>5, <1>6, <1>8, <1>9, <1>10 DEF TableInv
\* Where the rows of the table come from when the one at n moves to the end.
Origin(n, j) == IF j = jobnum THEN n ELSE IF j \in n .. jobnum - 1 THEN j + 1 ELSE j

LEMMA RowsMove ==
    ASSUME NEW n \in Rows, NEW row, jobnum \in 0 .. MaxJobs
    PROVE  /\ ShiftOnto(n, row) = [j \in Rows |-> IF j = jobnum THEN row ELSE jobpid[Origin(n, j)]]
           /\ \A j \in Rows : Origin(n, j) \in Rows
<1>1. \A j \in Rows : j + 1 \in Int /\ (j \in n .. jobnum - 1 => j + 1 \in Rows)
  BY ShellAssumption DEF Rows
<1> QED
  BY <1>1 DEF ShiftOnto, Origin

\* No row is lost and none comes up twice.
LEMMA RowsMoveApart ==
    ASSUME NEW n \in 1 .. jobnum, jobnum \in 0 .. MaxJobs
    PROVE  /\ \A j \in Rows, k \in Rows : Origin(n, j) = Origin(n, k) => j = k
           /\ \A j \in 1 .. jobnum : Origin(n, j) \in 1 .. jobnum
           /\ \A j \in 1 .. jobnum - 1 : Origin(n, j) \in (1 .. jobnum) \ {n}
           /\ \A j \in (1 .. jobnum) \ {n} : \E k \in 1 .. jobnum - 1 : Origin(n, k) = j
           /\ \A j \in Rows : j > jobnum => Origin(n, j) = j
<1>1. jobnum \in Nat /\ n \in Nat /\ n >= 1 /\ n <= jobnum
  BY ShellAssumption
<1>2. ASSUME NEW j \in (1 .. jobnum) \ {n}
      PROVE  \E k \in 1 .. jobnum - 1 : Origin(n, k) = j
  <2>1. CASE j < n
    <3>1. j \in 1 .. jobnum - 1 /\ Origin(n, j) = j
      BY <1>1, <2>1 DEF Origin
    <3> QED
      BY <3>1
  <2>2. CASE j > n
    <3>1. j - 1 \in 1 .. jobnum - 1 /\ j - 1 \in n .. jobnum - 1 /\ j - 1 # jobnum /\ (j - 1) + 1 = j
      BY <1>1, <2>2
    <3>2. Origin(n, j - 1) = j
      BY <3>1 DEF Origin
    <3> QED
      BY <3>1, <3>2
  <2> QED
    BY <1>1, <2>1, <2>2
<1>3. \A j \in Rows, k \in Rows : Origin(n, j) = Origin(n, k) => j = k
  BY <1>1, ShellAssumption DEF Origin, Rows
<1> QED
  BY <1>1, <1>2, <1>3, ShellAssumption DEF Origin, Rows

LEMMA FgEndsKeeps ==
    ASSUME ShellInv, FgEnds
    PROVE  ShellInv'
<1> USE DEF ShellInv
<1>1. mode = "fg" /\ mode' = "prompt" /\ Continuing /\ ~ Continuing' /\ ~ Launching /\ ~ Launching'
  BY DEF FgEnds, Launching, Continuing
<1>2. /\ at \in Columns => pid[at] = NoPid
      /\ orderly' = (orderly /\ ~ Halved)
      /\ UNCHANGED <<line, at, status, jobfg, proc, first, holders>>
  BY DEF FgEnds
<1>3. /\ jobnum \in 0 .. MaxJobs /\ jobnum \in Nat /\ jobnum >= 1 /\ jobfg \in Rows /\ at \in 1 .. 4
      /\ pid \in [Columns -> Pids \cup {NoPid}]
      /\ \A i \in Columns : pid[i] # NoPid => pid[i] \in Forked
  BY <1>1, ShellAssumption DEF RowInv, TypeOK
<1>4. PICK row : /\ jobpid' = ShiftOnto(jobfg, row)
                 /\ \/ row = pid /\ status # "exited" /\ jobnum' = jobnum
                    \/ row = EmptyRow /\ status # "stopped" /\ jobnum' = jobnum - 1
  BY DEF FgEnds
<1>5. row \in [Columns -> Pids \cup {NoPid}] /\ \A i \in Columns : row[i] # NoPid => row[i] \in Forked
  BY <1>3, <1>4 DEF EmptyRow
<1>6. /\ jobpid' = [j \in Rows |-> IF j = jobnum THEN row ELSE jobpid[Origin(jobfg, j)]]
      /\ \A j \in Rows : Origin(jobfg, j) \in Rows
  BY <1>3, <1>4, RowsMove
<1>7. TypeOK'
  <2>1. jobnum' \in 0 .. MaxJobs
    BY <1>3, <1>4, ShellAssumption
  <2>2. jobpid' \in [Rows -> [Columns -> Pids \cup {NoPid}]]
    BY <1>5, <1>6 DEF TypeOK
  <2> QED
    BY <1>1, <1>2, <2>1, <2>2 DEF TypeOK
<1>8. Forked' = Forked
  BY <1>2 DEF Forked
<1>9. LineInv'
  BY <1>1, <1>2 DEF LineInv
<1>10. NumbersInv' /\ RoomInv'
  BY <1>1, <1>8 DEF NumbersInv, RoomInv
<1>11. RowInv'
  <2>1. ASSUME NEW j \in Rows, NEW i \in Columns, jobpid'[j][i] # NoPid
        PROVE  jobpid'[j][i] \in Forked
    <3>1. CASE j = jobnum
      BY <1>5, <1>6, <2>1, <3>1
    <3>2. CASE j # jobnum
      BY <1>6, <2>1, <3>2 DEF RowInv
    <3> QED
      BY <3>1, <3>2
  <2> QED
    BY <1>1, <1>8, <2>1 DEF RowInv
<1>12. \A p \in Pids : Rests(p)
  BY <1>1 DEF QuietInv
<1>13. QuietInv'
  BY <1>1, <1>2, <1>12 DEF QuietInv, Rests
<1>14. ASSUME orderly' PROVE ListInv' /\ StoppedInv'
  <2>1. ListInv /\ StoppedInv /\ ~ Halved
    BY <1>2, <1>14 DEF TableInv
  <2>2. jobfg \in 1 .. jobnum /\ pid = jobpid[jobfg] /\ 1 .. jobnum \subseteq Rows /\ jobnum \in Rows
    BY <1>1, <1>3, <2>1, ShellAssumption DEF StoppedInv, Rows
  <2>3. /\ \A j \in Rows, k \in Rows : Origin(jobfg, j) = Origin(jobfg, k) => j = k
        /\ \A j \in 1 .. jobnum : Origin(jobfg, j) \in 1 .. jobnum
        /\ \A j \in 1 .. jobnum - 1 : Origin(jobfg, j) \in (1 .. jobnum) \ {jobfg}
        /\ \A j \in (1 .. jobnum) \ {jobfg} : \E k \in 1 .. jobnum - 1 : Origin(jobfg, k) = j
        /\ \A j \in Rows : j > jobnum => Origin(jobfg, j) = j
    BY <1>3, <2>2, RowsMoveApart
  <2>4. pid[1] # NoPid /\ at > 1 /\ at - 1 \in Columns /\ 1 \in Columns
    BY <1>2, <1>3, <2>1, <2>2 DEF ListInv, Columns
  <2>5. pid[at - 1] # NoPid /\ status = proc[pid[at - 1]]
    BY <1>1, <2>1, <2>4 DEF StoppedInv
  <2>6. \A i \in Columns : pid[i] # NoPid => pid[i] \in Pids /\ proc[pid[i]] \in {"stopped", "exited"}
    BY <1>3, <1>12 DEF Forked, Rests
  <2>7. \A i \in Columns : pid[i] # NoPid => proc[pid[i]] = status
    <3>1. ToSet(pid) = {pid[i] : i \in Columns}
      BY <1>3 DEF ToSet
    <3>2. \A i \in Columns : pid[i] # NoPid => pid[i] \in Pids \cap ToSet(pid)
      BY <2>6, <3>1
    <3> QED
      BY <2>1, <2>4, <2>5, <2>6, <3>2 DEF Halved
  <2>8. \A p \in Pids : (\A i \in Columns : p # pid[i]) =>
          (proc[p] = "stopped" <=> Listed(p, (1 .. jobnum) \ {jobfg}))
    BY <1>1, <2>1 DEF StoppedInv
  <2>9. \A j \in 1 .. jobnum - 1 : j \in Rows /\ j # jobnum
    BY <1>3, <2>2
  <2>10. ASSUME NEW p
         PROVE  (\E j \in 1 .. jobnum - 1, i \in Columns : jobpid'[j][i] = p) <=>
                  Listed(p, (1 .. jobnum) \ {jobfg})
    <3>1. \A j \in 1 .. jobnum - 1 : jobpid'[j] = jobpid[Origin(jobfg, j)]
      BY <1>6, <2>9
    <3>2. ASSUME NEW j \in 1 .. jobnum - 1, NEW i \in Columns, jobpid'[j][i] = p
          PROVE  Listed(p, (1 .. jobnum) \ {jobfg})
      BY <2>3, <3>1, <3>2 DEF Listed
    <3>3. ASSUME NEW j \in (1 .. jobnum) \ {jobfg}, NEW i \in Columns, jobpid[j][i] = p
          PROVE  \E k \in 1 .. jobnum - 1, l \in Columns : jobpid'[k][l] = p
      BY <2>3, <3>1, <3>3
    <3> QED
      BY <3>2, <3>3 DEF Listed
  <2>11. CASE row = pid /\ status # "exited" /\ jobnum' = jobnum
    <3>1. \A j \in Rows : jobpid'[j] = jobpid[Origin(jobfg, j)]
      BY <1>6, <2>2, <2>11 DEF Origin
    <3>2. ListInv'
      <4>1. ASSUME NEW j \in Rows, NEW k \in Rows, NEW i \in Columns, NEW l \in Columns,
                   jobpid'[j][i] = jobpid'[k][l], jobpid'[j][i] # NoPid
            PROVE  j = k /\ i = l
        BY <1>6, <2>1, <2>3, <3>1, <4>1 DEF ListInv
      <4>2. \A j \in 1 .. jobnum : jobpid'[j][1] # NoPid
        BY <2>1, <2>2, <2>3, <3>1 DEF ListInv
      <4>3. \A j \in Rows : j > jobnum => \A i \in Columns : jobpid'[j][i] = NoPid
        BY <1>1, <2>1, <2>3, <3>1 DEF ListInv
      <4> QED
        BY <1>1, <2>11, <4>1, <4>2, <4>3 DEF ListInv
    <3>3. ASSUME NEW p \in Pids
          PROVE  proc[p] = "stopped" <=> Listed(p, 1 .. jobnum)'
      <4>1. Listed(p, 1 .. jobnum)' <=>
              \/ \E j \in 1 .. jobnum - 1, i \in Columns : jobpid'[j][i] = p
              \/ \E i \in Columns : pid[i] = p
        <5>1. jobpid'[jobnum] = pid
          BY <1>6, <2>2, <2>11
        <5>2. 1 .. jobnum' = (1 .. jobnum - 1) \cup {jobnum}
          BY <1>3, <2>11
        <5> QED
          BY <5>1, <5>2 DEF Listed
      <4>2. p # NoPid
        BY ShellAssumption DEF Pids, NoPid
      <4>3. status = "stopped"
        BY <2>4, <2>5, <2>6, <2>11
      <4>4. CASE \A i \in Columns : p # pid[i]
        BY <2>8, <2>10, <4>1, <4>4
      <4>5. CASE \E i \in Columns : p = pid[i]
        BY <2>7, <4>1, <4>2, <4>3, <4>5
      <4> QED
        BY <4>4, <4>5
    <3> QED
      BY <1>1, <1>2, <3>2, <3>3 DEF StoppedInv
  <2>12. CASE row = EmptyRow /\ status # "stopped" /\ jobnum' = jobnum - 1
    <3>1. \A j \in Rows : j # jobnum => jobpid'[j] = jobpid[Origin(jobfg, j)]
      BY <1>6
    <3>2. \A i \in Columns : jobpid'[jobnum][i] = NoPid
      BY <1>6, <2>2, <2>12 DEF EmptyRow
    <3>3. ListInv'
      <4>1. ASSUME NEW j \in Rows, NEW k \in Rows, NEW i \in Columns, NEW l \in Columns,
                   jobpid'[j][i] = jobpid'[k][l], jobpid'[j][i] # NoPid
            PROVE  j = k /\ i = l
        <5>1. j # jobnum /\ k # jobnum
          BY <3>2, <4>1
        <5> QED
          BY <1>6, <2>1, <2>3, <3>1, <4>1, <5>1 DEF ListInv
      <4>2. \A j \in 1 .. jobnum - 1 : jobpid'[j][1] # NoPid
        BY <2>1, <2>3, <2>9, <3>1 DEF ListInv
      <4>3. ASSUME NEW j \in Rows, j > jobnum - 1
            PROVE  \A i \in Columns : jobpid'[j][i] = NoPid
        <5>1. CASE j = jobnum
          BY <3>2, <5>1
        <5>2. CASE j > jobnum
          BY <1>1, <1>3, <2>1, <2>3, <3>1, <5>2 DEF ListInv
        <5> QED
          BY <1>3, <4>3, <5>1, <5>2, ShellAssumption DEF Rows
      <4> QED
        BY <1>1, <2>12, <4>1, <4>2, <4>3 DEF ListInv
    <3>4. ASSUME NEW p \in Pids
          PROVE  proc[p] = "stopped" <=> Listed(p, (1 .. jobnum) \ {jobfg})
      <4>1. CASE \A i \in Columns : p # pid[i]
        BY <2>8, <4>1
      <4>2. CASE \E i \in Columns : p = pid[i]
        <5>1. PICK i \in Columns : p = pid[i]
          BY <4>2
        <5>2. p # NoPid
          BY ShellAssumption DEF Pids, NoPid
        <5>3. proc[p] # "stopped"
          BY <2>7, <2>12, <5>1, <5>2
        <5>4. ~ Listed(p, (1 .. jobnum) \ {jobfg})
          BY <2>1, <2>2, <5>1, <5>2 DEF ListInv, Listed
        <5> QED
          BY <5>3, <5>4
      <4> QED
        BY <4>1, <4>2
    <3>5. \A p : Listed(p, 1 .. jobnum)' <=> Listed(p, (1 .. jobnum) \ {jobfg})
      BY <2>10, <2>12 DEF Listed
    <3> QED
      BY <1>1, <1>2, <3>3, <3>4, <3>5 DEF StoppedInv
  <2> QED
    BY <1>4, <2>11, <2>12
<1> QED
  BY <1>7, <1>9, <1>10, <1>11, <1>13, <1>14 DEF TableInv

-----------------------------------------------------------------------------
(* The shell *)

\* Every step keeps it.
THEOREM ShellInvariant == Spec => []ShellInv
<1>1. Init => ShellInv
  BY InitInv
<1>2. ASSUME ShellInv, [Next]_vars PROVE ShellInv'
  <2>1. CASE \E t \in Tokens : Type(t)
    BY <1>2, <2>1, TypeKeeps
  <2>2. CASE Rejected \/ Exit \/ NoEffect \/ ForegroundOutside
    BY <1>2, <2>2, DropKeeps
  <2>3. CASE Launch
    BY <1>2, <2>3, LaunchKeeps
  <2>4. CASE \E n \in Rows : Foreground(n)
    BY <1>2, <2>4, ForegroundKeeps
  <2>5. CASE Fork
    BY <1>2, <2>5, ForkKeeps
  <2>6. CASE ClosePipes
    BY <1>2, <2>6, ClosePipesKeeps
  <2>7. CASE Wait
    BY <1>2, <2>7, WaitKeeps
  <2>8. CASE EndOfLine
    BY <1>2, <2>8, EndOfLineKeeps
  <2>9. CASE Continue
    BY <1>2, <2>9, ContinueKeeps
  <2>10. CASE WaitContinued
    BY <1>2, <2>10, WaitContinuedKeeps
  <2>11. CASE FgEnds
    BY <1>2, <2>11, FgEndsKeeps
  <2>12. CASE (\E p \in Pids : SignalsDefault(p) \/ processCreation(p) \/ Finish(p)) \/ Stop
    <3>1. PICK p \in Pids : SignalsDefault(p) \/ processCreation(p) \/ Finish(p) \/ Stop
      BY <2>12 DEF Stop
    <3> QED
      BY <1>2, <3>1, AmongThem, AmongKeeps
  <2>14. CASE WaitTableFull
    BY <1>2, <2>14, WaitTableFullKeeps
  <2>13. CASE UNCHANGED vars
    <3>1. Among
      BY <1>2, <2>13 DEF Among, vars, shellVars, ShellInv, TypeOK, Rests
    <3> QED
      BY <1>2, <3>1, AmongKeeps
  <2> QED
    BY <1>2, <2>1, <2>2, <2>3, <2>4, <2>5, <2>6, <2>7, <2>8, <2>9, <2>10, <2>11, <2>12, <2>13, <2>14
    DEF Next, Works
<1> QED
  BY <1>1, <1>2, PTL DEF Spec

\* The variables keep their types for any size of the table: jobs are entered in it, moved
\* and counted within its rows.  One job more, or fg without the number of a row, leads to
\* the mode "undefined", for C does not define what the shell does then.
THEOREM ShellTypes == Spec => []TypeOK
BY ShellInvariant, PTL DEF ShellInv

\* When the shell prompts, every process it has started, in whatever line or job, has
\* ended or is stopped.
THEOREM PromptStaysQuiet == Spec => []PromptIsQuiet
<1>1. ShellInv => PromptIsQuiet
  BY DEF ShellInv, QuietInv, PromptIsQuiet, Rests
<1> QED
  BY <1>1, ShellInvariant, PTL

\* As long as jobs stop and end as a whole and fg is given a job of the list, the table
\* of jobs lists every stopped process once and nothing else.
THEOREM JobsAreExact == Spec => []JobTableExact
<1>1. ASSUME ShellInv, orderly, mode = "prompt"
      PROVE  /\ Entries(1 .. jobnum) = Stopped
             /\ Entries(Rows \ (1 .. jobnum)) = {}
             /\ \A j, k \in 1 .. jobnum, i, l \in Columns :
                  jobpid[j][i] = jobpid[k][l] /\ jobpid[j][i] # NoPid => j = k /\ i = l
  <2>1. ListInv /\ StoppedInv /\ TypeOK
    BY <1>1 DEF ShellInv, TableInv
  <2>2. 1 .. jobnum \subseteq Rows /\ \A j \in Rows \ (1 .. jobnum) : j > jobnum
    BY <2>1, ShellAssumption DEF TypeOK, Rows
  <2>3. \A p \in Pids : p # NoPid
    BY ShellAssumption DEF Pids, NoPid
  <2>4. \A j \in 1 .. jobnum, i \in Columns : jobpid[j][i] # NoPid => jobpid[j][i] \in Pids
    BY <2>1, <2>2 DEF TypeOK
  <2>5. Entries(1 .. jobnum) = Stopped
    BY <1>1, <2>1, <2>3, <2>4 DEF StoppedInv, Listed, Entries, Stopped
  <2>6. Entries(Rows \ (1 .. jobnum)) = {}
    BY <1>1, <2>1, <2>2 DEF ListInv, Entries
  <2> QED
    BY <2>1, <2>2, <2>5, <2>6 DEF ListInv
<1>2. ShellInv => JobTableExact
  BY <1>1 DEF JobTableExact
<1> QED
  BY <1>2, ShellInvariant, PTL

\* What checkSyntax accepts, of whatever length: the lines of the grammar, those in which
\* a command before a pipe has an output file and then an input file, whose output file is
\* dropped, and those that have a built-in command behind the last pipe.
THEOREM CheckSyntaxAccepts == \A s \in Seq(Tokens) : checkSyntax(s) <=> Accepted(s)
BY AcceptedRuns, AcceptedIs

\* No line of the grammar that is typed is turned down, however long it is.
THEOREM LinesAreAccepted == Spec => []GrammarIsAccepted
<1>1. \A s : Intended(s) => Accepted(s)
  BY DEF Intended, Accepted
<1>2. ShellInv => GrammarIsAccepted
  BY <1>1, CheckSyntaxAccepts, Zenon DEF ShellInv, LineInv, GrammarIsAccepted
<1> QED
  BY <1>2, ShellInvariant, PTL
=============================================================================
