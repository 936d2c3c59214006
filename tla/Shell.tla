------------------------------- MODULE Shell -------------------------------
(***************************************************************************)
(* osShell.c: the prompt loop, the processes of a pipeline and their pipes,*)
(* the table of stopped jobs, and fg.  Lines come from ShellSyntax.        *)
(*                                                                         *)
(* The shell forks the processes of a line one after the other and waits   *)
(* for one after the other, each until it has ended or stopped.  All of    *)
(* them are in the terminal's foreground group: Ctrl-Z stops whichever     *)
(* runs.  A pipe has the name of the process that writes into it; the      *)
(* process after it reads.                                                 *)
(*                                                                         *)
(* The tables of the shell have a fixed size, which it does not check.  C  *)
(* does not define what a shell does that writes behind them, or reads a   *)
(* row they do not have: it is in the mode "undefined" and takes no step.  *)
(***************************************************************************)
EXTENDS ShellSyntax, SequencesExt

CONSTANTS
    MaxJobs,   \* 10: the rows of jobpid and cmdJob
    MaxPids,   \* bound: processes ever forked
    MaxStops,  \* bound: times Ctrl-Z is typed
    MaxFg,     \* bound: times fg is typed
    MaxLine,   \* bound: tokens of a line
    AnyLine    \* bound: tokens of a line up to which any token is typed

ASSUME ShellAssumption ==
    /\ MaxJobs \in Nat \ {0}
    /\ MaxPids \in Nat /\ MaxStops \in Nat /\ MaxFg \in Nat

Pids == 1 .. MaxPids
SHELL == 0
NoPid == -1                \* an entry of jobpid that is not in use
Rows == 1 .. MaxJobs
Columns == 1 .. 3          \* a line has at most three processes
EmptyRow == [i \in Columns |-> NoPid]

VARIABLES
    line,     \* tokens typed at the prompt
    mode,     \* what the shell does: "prompt", "fork", "wait", "fg", "continued", "ended", "undefined"
    pid,      \* the processes of the line that runs, or the row of the job that fg continues
    at,       \* the one of them the shell has come to
    status,   \* what waitpid() said of the last one: "stopped", "exited", or not assigned
    jobfg,    \* the row fg was asked for
    jobpid,   \* jobpid[j][i]: process i of job j
    jobnum,   \* jobs listed
    proc,     \* proc[p]: "none", "new", "running", "stopped", "exited"
    first,    \* processes that are the first of their line
    holders,  \* holders[p]: processes that have p's pipe open for writing
    typed,    \* Ctrl-Z and fg typed so far
    orderly   \* history: no job was left with some of its processes stopped and others
              \* ended, and no fg has named a job that is not listed

vars == <<line, mode, pid, at, status, jobfg, jobpid, jobnum, proc, first, holders, typed, orderly>>
shellVars == <<line, mode, pid, at, status, jobfg, jobpid, jobnum, first, orderly>>

Init ==
    /\ line = <<>>
    /\ mode = "prompt"
    /\ pid = <<>> /\ at = 1 /\ status = "unset" /\ jobfg = 0
    /\ jobpid = [j \in Rows |-> EmptyRow] /\ jobnum = 0
    /\ proc = [p \in Pids |-> "none"]
    /\ first = {} /\ holders = [p \in Pids |-> {}]
    /\ typed = [stops |-> 0, fgs |-> 0]
    /\ orderly = TRUE

Forked == {p \in Pids : proc[p] # "none"}
-----------------------------------------------------------------------------
(* The prompt *)

Shapes == {<<"word">>, <<"word", "|", "word">>, <<"word", "|", "word", "|", "word">>,
           <<"fg", "word">>, <<"exit">>}

\* Before the first process there may be any line; later the few that make a difference.
Type(token) ==
    /\ mode = "prompt"
    /\ IF Forked = {} /\ jobnum = 0
       THEN /\ Len(line) < IF \A i \in 1 .. Len(line) : line[i] \in {"word", "|", "<", ">"}
                           THEN MaxLine ELSE AnyLine
            /\ Len(line) >= AnyLine => token \in {"word", "|", "<", ">"}
       ELSE \E s \in Shapes : Len(line) < Len(s) /\ Append(line, token) = SubSeq(s, 1, Len(line) + 1)
    /\ line' = Append(line, token)
    /\ UNCHANGED <<mode, pid, at, status, jobfg, jobpid, jobnum, proc, first, holders, typed, orderly>>

\* main: a line that is not accepted is dropped, one with a built-in command in it goes
\* to builtInCMD, any other to cmdExe.
Rejected ==
    /\ mode = "prompt" /\ line # <<>>
    /\ ~ checkSyntax(line)
    /\ line' = <<>>
    /\ UNCHANGED <<mode, pid, at, status, jobfg, jobpid, jobnum, proc, first, holders, typed, orderly>>

Enter == mode = "prompt" /\ line # <<>> /\ checkSyntax(line)

\* builtInCMD: decided by the first token, also when the built-in command is another.
Exit ==
    /\ Enter /\ line[1] = "exit"
    /\ mode' = IF jobnum = 0 THEN "ended" ELSE mode
    /\ line' = <<>>
    /\ UNCHANGED <<pid, at, status, jobfg, jobpid, jobnum, proc, first, holders, typed, orderly>>

NoEffect ==
    /\ Enter /\ builtInDetect(line)
    /\ line[1] \in {"cd", "jobs", "word"} \/ (line[1] = "fg" /\ jobnum = 0)
    /\ line' = <<>>
    /\ UNCHANGED <<mode, pid, at, status, jobfg, jobpid, jobnum, proc, first, holders, typed, orderly>>

\* Plausible bug: fg does not look at jobnum.
ForegroundUnchecked(n) ==
    /\ Enter /\ line = <<"fg", "word">>
    /\ typed.fgs < MaxFg
    /\ typed' = [typed EXCEPT !.fgs = @ + 1]
    /\ mode' = "fg" /\ jobfg' = n /\ pid' = jobpid[n] /\ at' = 1 /\ status' = "unset"
    /\ line' = <<>>
    /\ orderly' = (orderly /\ n <= jobnum)
    /\ UNCHANGED <<jobpid, jobnum, proc, first, holders>>

\* fg, with the number of any row, also of one that lists no job.
Foreground(n) ==
    /\ Enter /\ line = <<"fg", "word">> /\ jobnum # 0
    /\ typed.fgs < MaxFg
    /\ typed' = [typed EXCEPT !.fgs = @ + 1]
    /\ mode' = "fg" /\ jobfg' = n /\ pid' = jobpid[n] /\ at' = 1 /\ status' = "unset"
    /\ line' = <<>>
    /\ orderly' = (orderly /\ n <= jobnum)
    /\ UNCHANGED <<jobpid, jobnum, proc, first, holders>>

\* fg without an argument, or with one that is not the number of a row.
ForegroundOutside ==
    /\ Enter /\ line[1] = "fg" /\ jobnum # 0
    /\ mode' = "undefined" /\ line' = <<>>
    /\ UNCHANGED <<pid, at, status, jobfg, jobpid, jobnum, proc, first, holders, typed, orderly>>

-----------------------------------------------------------------------------
(* cmdExe *)

\* The pipes are made before the first fork.
Launch ==
    LET n == Processes(line)
        next == Cardinality(Forked) + 1 IN
    /\ Enter /\ ~ builtInDetect(line)
    /\ next + n - 1 <= MaxPids
    /\ mode' = "fork"
    /\ pid' = [i \in 1 .. n |-> next + i - 1]
    /\ at' = 1 /\ status' = "unset"
    /\ first' = first \cup {next}
    /\ holders' = [p \in Pids |-> IF p \in next .. next + n - 2 THEN {SHELL} ELSE holders[p]]
    /\ line' = <<>>
    /\ UNCHANGED <<jobfg, jobpid, jobnum, proc, typed, orderly>>

\* fork: the child has what the shell has open.
Fork ==
    /\ mode = "fork" /\ at <= Len(pid)
    /\ proc' = [proc EXCEPT ![pid[at]] = "new"]
    /\ holders' = [p \in Pids |-> IF SHELL \in holders[p] THEN holders[p] \cup {pid[at]} ELSE holders[p]]
    /\ at' = at + 1
    /\ UNCHANGED <<line, mode, pid, status, jobfg, jobpid, jobnum, first, typed, orderly>>

\* A child ignores Ctrl-Z, as the shell does, until it has set the signals to default.
SignalsDefault(p) ==
    /\ proc[p] = "new"
    /\ proc' = [proc EXCEPT ![p] = "running"]
    /\ UNCHANGED <<shellVars, holders, typed>>

\* The child redirects its input and output to its pipes, closes all other ends and
\* becomes the program.
processCreation(p) ==
    /\ proc[p] = "running" /\ \E q \in Pids \ {p} : p \in holders[q]
    /\ holders' = [q \in Pids |-> IF q = p THEN holders[q] ELSE holders[q] \ {p}]
    /\ UNCHANGED <<shellVars, proc, typed>>

\* Plausible bug: the shell closes the pipes only when the line has ended.
ClosePipesLate ==
    /\ mode = "fork" /\ at > Len(pid)
    /\ mode' = "wait" /\ at' = 1
    /\ UNCHANGED <<line, pid, status, jobfg, jobpid, jobnum, proc, first, holders, typed, orderly>>

\* Plausible bug: only the last process of a pipeline is waited for.
ClosePipesAwaitLast ==
    /\ mode = "fork" /\ at > Len(pid)
    /\ holders' = [p \in Pids |-> holders[p] \ {SHELL}]
    /\ mode' = "wait" /\ at' = Len(pid)
    /\ UNCHANGED <<line, pid, status, jobfg, jobpid, jobnum, proc, first, typed, orderly>>

ClosePipes ==
    /\ mode = "fork" /\ at > Len(pid)
    /\ holders' = [p \in Pids |-> holders[p] \ {SHELL}]
    /\ mode' = "wait" /\ at' = 1
    /\ UNCHANGED <<line, pid, status, jobfg, jobpid, jobnum, proc, first, typed, orderly>>

\* waitpid(pid[i], &status, WUNTRACED)
Ceased(p) == proc[p] \in {"stopped", "exited"}

\* A process that has stopped is entered in the row after the last job.
Wait ==
    /\ mode = "wait" /\ at <= Len(pid) /\ Ceased(pid[at])
    /\ proc[pid[at]] = "stopped" => jobnum + 1 \in Rows
    /\ status' = proc[pid[at]]
    /\ jobpid' = IF proc[pid[at]] = "stopped" THEN [jobpid EXCEPT ![jobnum + 1][at] = pid[at]] ELSE jobpid
    /\ at' = at + 1
    /\ UNCHANGED <<line, mode, pid, jobfg, jobnum, proc, first, holders, typed, orderly>>

\* One more job than there are rows.
WaitTableFull ==
    /\ mode = "wait" /\ at <= Len(pid) /\ proc[pid[at]] = "stopped" /\ jobnum + 1 \notin Rows
    /\ mode' = "undefined"
    /\ UNCHANGED <<line, pid, at, status, jobfg, jobpid, jobnum, proc, first, holders, typed, orderly>>

Halved == \E p, q \in Pids \cap ToSet(pid) : proc[p] = "stopped" /\ proc[q] = "exited"

\* The row becomes a job when the LAST process has stopped.
EndOfLine ==
    /\ mode = "wait" /\ at > Len(pid)
    /\ jobnum' = IF status = "stopped" THEN jobnum + 1 ELSE jobnum
    /\ mode' = "prompt" /\ pid' = <<>>
    /\ orderly' = (orderly /\ ~ Halved)
    /\ UNCHANGED <<line, at, status, jobfg, jobpid, proc, first, holders, typed>>

-----------------------------------------------------------------------------
(* fg *)

\* SIGCONT to one process of the row; to a process that has ended it fails.
Continue ==
    /\ mode = "fg" /\ at \in Columns /\ pid[at] # NoPid
    /\ IF proc[pid[at]] = "exited"
       THEN at' = at + 1 /\ UNCHANGED <<mode, proc>>
       ELSE mode' = "continued" /\ proc' = [proc EXCEPT ![pid[at]] = "running"] /\ UNCHANGED at
    /\ UNCHANGED <<line, pid, status, jobfg, jobpid, jobnum, first, holders, typed, orderly>>

\* Only when it has ended or stopped is the next one continued.
WaitContinued ==
    /\ mode = "continued" /\ Ceased(pid[at])
    /\ status' = proc[pid[at]]
    /\ mode' = "fg" /\ at' = at + 1
    /\ UNCHANGED <<line, pid, jobfg, jobpid, jobnum, proc, first, holders, typed, orderly>>

\* Plausible bug: the others do not move up.
ShiftOntoLast(n, row) == [jobpid EXCEPT ![jobnum] = row]

ShiftOnto(n, row) ==
    [j \in Rows |-> IF j = jobnum THEN row
                   ELSE IF j \in n .. jobnum - 1 THEN jobpid[j + 1] ELSE jobpid[j]]

\* The loop ends at the first entry not in use.  A job whose last status is stopped
\* becomes the last in the table, any other is taken off; with no process continued the
\* status is whatever was on the stack.
FgEnds ==
    /\ mode = "fg"
    /\ at \in Columns => pid[at] = NoPid
    /\ \/ /\ status # "exited"
          /\ jobpid' = ShiftOnto(jobfg, pid)
          /\ UNCHANGED jobnum
       \/ /\ status # "stopped"
          /\ jobpid' = ShiftOnto(jobfg, EmptyRow)
          /\ jobnum' = jobnum - 1
    /\ orderly' = (orderly /\ ~ Halved)
    /\ mode' = "prompt" /\ pid' = <<>>
    /\ UNCHANGED <<line, at, status, jobfg, proc, first, holders, typed>>

-----------------------------------------------------------------------------
(* The processes and the terminal *)

\* A program ends, or processCreation fails on a file.
Finish(p) ==
    /\ proc[p] = "running"
    /\ proc' = [proc EXCEPT ![p] = "exited"]
    /\ holders' = [q \in Pids |-> holders[q] \ {p}]
    /\ UNCHANGED <<shellVars, typed>>

\* A program does end when its input has an end and nobody keeps its output waiting.
InputEnds(p) == \A q \in Pids : q + 1 = p /\ p \notin first => holders[q] = {}
OutputTaken(p) == p + 1 \in Pids \ first => proc[p + 1] # "stopped"
FinishAtEnd(p) == Finish(p) /\ InputEnds(p) /\ OutputTaken(p)

\* Ctrl-Z.
Stop ==
    /\ typed.stops < MaxStops
    /\ \E p \in Pids : proc[p] = "running"
    /\ proc' = [p \in Pids |-> IF proc[p] = "running" THEN "stopped" ELSE proc[p]]
    /\ typed' = [typed EXCEPT !.stops = @ + 1]
    /\ UNCHANGED <<shellVars, holders>>

Works ==
    \/ Fork \/ ClosePipes \/ Wait \/ WaitTableFull \/ EndOfLine
    \/ Continue \/ WaitContinued \/ FgEnds

Next ==
    \/ \E t \in Tokens : Type(t)
    \/ Rejected \/ Exit \/ NoEffect \/ Launch
    \/ (\E n \in Rows : Foreground(n)) \/ ForegroundOutside
    \/ Works
    \/ \E p \in Pids : SignalsDefault(p) \/ processCreation(p) \/ Finish(p)
    \/ Stop

Spec == Init /\ [][Next]_vars

\* The shell and the programs run; nobody has to type.
FairSpec ==
    /\ Spec
    /\ WF_vars(Works)
    /\ \A p \in Pids :
        WF_vars(SignalsDefault(p)) /\ WF_vars(processCreation(p)) /\ WF_vars(FinishAtEnd(p))

-----------------------------------------------------------------------------
(* Properties *)

Stopped == {p \in Pids : proc[p] = "stopped"}
Entries(J) == {jobpid[j][i] : j \in J, i \in Columns} \ {NoPid}

\* The variables keep their types: the shell counts no more jobs than the table has
\* rows, and what it takes from the table are processes it has started.
TypeOK ==
    /\ mode \in {"prompt", "fork", "wait", "fg", "continued", "ended", "undefined"}
    /\ status \in {"unset", "stopped", "exited"}
    /\ jobpid \in [Rows -> [Columns -> Pids \cup {NoPid}]]
    /\ jobnum \in 0 .. MaxJobs
    /\ proc \in [Pids -> {"none", "new", "running", "stopped", "exited"}]
    /\ first \subseteq Pids
    /\ holders \in [Pids -> SUBSET (Pids \cup {SHELL})]

\* Every line of the grammar is accepted, wherever it has files and pipes and whatever
\* words it is made of: no legal pipeline is turned down.
GrammarIsAccepted == line # <<>> /\ Intended(line) => checkSyntax(line)

\* "for <cmd><inpput redirect> | only": the file before a pipe is the only one of its
\* command, and an input file.
PipeBehindInputOnly == line # <<>> /\ checkSyntax(line) => PipesBehindInput(line)

\* When the shell prompts, every process it has started has ended or is stopped: none
\* runs behind the prompt and takes its input.
PromptIsQuiet ==
    mode = "prompt" => \A p \in Pids : proc[p] \in {"none", "stopped", "exited"}

\* As long as jobs stop and end as a whole and fg is given a job of the list, the table
\* has every stopped process, once, and nothing else.
JobTableExact ==
    orderly /\ mode = "prompt" =>
        /\ Entries(1 .. jobnum) = Stopped
        /\ Entries(Rows \ (1 .. jobnum)) = {}
        /\ \A j, k \in 1 .. jobnum, i, l \in Columns :
            jobpid[j][i] = jobpid[k][l] /\ jobpid[j][i] # NoPid => j = k /\ i = l

\* A line whose processes nobody stops comes to its end: every reader of a pipe sees
\* the end of its input, since no other process keeps the pipe open for writing.
LineEnds ==
    mode \in {"fork", "wait"} ~>
        (mode = "prompt" \/ \E p \in Pids \cap ToSet(pid) : proc[p] = "stopped")
=============================================================================
