---------------------------- MODULE ShellSyntax ----------------------------
(***************************************************************************)
(* checkSyntax of osShell.c: an automaton that reads the tokens of a line, *)
(* the lines it is meant to accept, and those it accepts besides.  Tokens  *)
(* are the built-in commands, the operators (">>" is ">" here), "word" for *)
(* any other legal token and "a*b" for any other token with an illegal     *)
(* character.                                                              *)
(***************************************************************************)
EXTENDS Naturals, Sequences

OneArg == {"cd", "fg"}
NoArg == {"exit", "jobs"}
BuiltIn == OneArg \cup NoArg
Legal == BuiltIn \cup {"word"}  \* checkIllegal: no > < | * ! ' "
Tokens == Legal \cup {"|", "<", ">", "a*b"}

-----------------------------------------------------------------------------
(* The automaton *)

States == {"WAIT_CMD", "WAIT_ARG", "WAIT_ONE_ARG", "WAIT_IN_FILE", "WAIT_OUT_FILE",
           "WAIT_MORE", "NO_MORE"}

Edge(from, on, to) == [from |-> from, on |-> on, to |-> to]

Edges ==
    { Edge("WAIT_CMD", OneArg, "WAIT_ONE_ARG"),
      Edge("WAIT_CMD", NoArg, "NO_MORE"),
      Edge("WAIT_CMD", {"word"}, "WAIT_ARG"),
      Edge("WAIT_ARG", {"|"}, "WAIT_CMD"),
      Edge("WAIT_ARG", {"<"}, "WAIT_IN_FILE"),
      Edge("WAIT_ARG", {">"}, "WAIT_OUT_FILE"),
      Edge("WAIT_ARG", Legal, "WAIT_ARG"),
      Edge("WAIT_ONE_ARG", Legal, "NO_MORE"),
      Edge("WAIT_IN_FILE", Legal, "WAIT_MORE"),
      Edge("WAIT_OUT_FILE", Legal, "WAIT_MORE"),
      Edge("WAIT_MORE", {"<"}, "WAIT_IN_FILE"),
      Edge("WAIT_MORE", {">"}, "WAIT_OUT_FILE"),
      Edge("WAIT_MORE", {"|"}, "WAIT_CMD") }

\* recursive, fileQuota and types[i-1] decide with the state; last is the kind of
\* the file name read last.
Start == [state |-> "WAIT_CMD", error |-> FALSE, builtIn |-> FALSE,
          recursive |-> 0, fileQuota |-> 0, last |-> ""]

\* Plausible bug: a pipe is taken only behind a command without files.
AllowedNoFilePipe(a, e) ==
    /\ e.from = "WAIT_IN_FILE" => a.recursive = 0
    /\ e.from = "WAIT_MORE" =>
        e.to # "WAIT_CMD" /\ a.fileQuota <= 2 /\ (e.to = "WAIT_IN_FILE" <=> a.last = "out")

Allowed(a, e) ==
    /\ e.from = "WAIT_IN_FILE" => a.recursive = 0
    /\ e.from = "WAIT_MORE" =>
        IF e.to = "WAIT_CMD" THEN a.last = "in" /\ a.recursive = 0
        ELSE a.fileQuota <= 2 /\ (e.to = "WAIT_IN_FILE" <=> a.last = "out")

\* One token.  An error stays, whatever follows.
Step(a, token) ==
    LET taken == {e \in Edges : e.from = a.state /\ token \in e.on /\ Allowed(a, e)} IN
    IF taken = {} THEN [a EXCEPT !.error = TRUE]
    ELSE LET to == (CHOOSE e \in taken : TRUE).to IN
         [a EXCEPT !.state = to,
                   !.builtIn = @ \/ (a.state = "WAIT_CMD" /\ token \in BuiltIn),
                   !.recursive = IF token = "|" THEN @ + 1 ELSE @,
                   !.fileQuota = IF to = "WAIT_MORE" THEN @ + 1 ELSE @,
                   !.last = CASE a.state = "WAIT_IN_FILE" -> "in"
                              [] a.state = "WAIT_OUT_FILE" -> "out"
                              [] OTHER -> @]

Scan(line) ==
    LET after[i \in 0 .. Len(line)] ==
            IF i = 0 THEN Start ELSE Step(after[i - 1], line[i])
    IN  after[Len(line)]

\* Every token has been taken and the line does not end in the middle.
checkSyntax(line) ==
    LET a == Scan(line) IN
    /\ ~ a.error
    /\ a.state \notin {"WAIT_IN_FILE", "WAIT_OUT_FILE", "WAIT_CMD"}
    /\ a.recursive <= 2 /\ a.fileQuota < 3

builtInDetect(line) == Scan(line).builtIn

\* cmdExe: a process for each command between the pipes.
Processes(line) == 1 + Scan(line).recursive

-----------------------------------------------------------------------------
(* The lines a user may type *)

\* In these definitions a part of the line begins behind position i and ends at j.
IsCommand(line, i, j) ==
    i < j /\ line[i + 1] = "word" /\ \A k \in i + 1 .. j : line[k] \in Legal

IsRedirection(line, i, j, ops) ==
    /\ j = i + 2 * Len(ops)
    /\ \A n \in 1 .. Len(ops) : line[i + 2 * n - 1] = ops[n] /\ line[i + 2 * n] \in Legal

IsRedirected(line, i, j, Ops) ==
    \E k \in i .. j, ops \in Ops : IsCommand(line, i, k) /\ IsRedirection(line, k, j, ops)

\* One or two commands and their pipes; First are the redirections of the first.
IsPiping(line, j, First) ==
    /\ line[j] = "|"
    /\ \/ IsRedirected(line, 0, j - 1, First)
       \/ \E i \in 1 .. j - 1 :
            line[i] = "|" /\ IsRedirected(line, 0, i - 1, First) /\ IsCommand(line, i, j - 1)

\* Input comes from a file or from a pipe, output goes to a file or to a pipe.
IsPipeline(line) ==
    \/ IsRedirected(line, 0, Len(line), {<<>>, <<"<">>, <<">">>, <<"<", ">">>, <<">", "<">>})
    \/ \E j \in 1 .. Len(line) :
         IsPiping(line, j, {<<>>, <<"<">>}) /\ IsRedirected(line, j, Len(line), {<<>>, <<">">>})

\* A built-in command stands alone; cd and fg may do without their argument.
IsBuiltIn(line, i, j) ==
    \/ j = i + 1 /\ line[j] \in BuiltIn
    \/ j = i + 2 /\ line[i + 1] \in OneArg /\ line[j] \in Legal

\* The grammar: what the code is meant to run.
Intended(line) == IsPipeline(line) \/ IsBuiltIn(line, 0, Len(line))

\* Before a pipe there is no file or, right behind the command, an input file.
PipesBehindInput(line) ==
    \A j \in 1 .. Len(line) : line[j] = "|" =>
        \E i \in 0 .. j - 1 :
            /\ i > 0 => line[i] = "|"
            /\ IsRedirected(line, i, j - 1, {<<>>, <<"<">>})

-----------------------------------------------------------------------------
(* The lines that are accepted all the same *)

\* checkSyntax looks at the last file name only when it takes a pipe: "a > f < g | b".
\* The output goes into the pipe, and f is emptied.  There are two files in a line at most.
IsDropping(line) ==
    \E j \in 1 .. Len(line) : IsPiping(line, j, {<<">", "<">>}) /\ IsCommand(line, j, Len(line))

\* A built-in command as the last one of a pipeline; such a line is then not run at all.
IsUnrunnable(line) ==
    \E j \in 1 .. Len(line) :
        IsPiping(line, j, {<<>>, <<"<">>, <<">", "<">>}) /\ IsBuiltIn(line, j, Len(line))

Accepted(line) ==
    IsPipeline(line) \/ IsDropping(line) \/ IsBuiltIn(line, 0, Len(line)) \/ IsUnrunnable(line)
=============================================================================
