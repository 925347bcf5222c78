------------------------------- MODULE Shell -------------------------------
(***************************************************************************)
(* The shell (sh.c): its scanner, its recursive-descent parser, and        *)
(* runcmd(), which starts the processes of a command and plumbs their      *)
(* descriptors.  A line is a sequence of characters: letters ("a"), blanks *)
(* and symbols.  A word is named by where it starts and ends; a command is *)
(* a tuple that begins with its type.                                      *)
(***************************************************************************)
EXTENDS Integers, FiniteSets, SequencesExt

CONSTANTS MaxLine,          \* bound: the length of a line
          MAXARGS

ASSUME ShellAssumption == MaxLine \in Nat /\ MAXARGS \in Nat \ {0}

Symbol == {"<", "|", ">", "&", ";", "(", ")"}
NUL == "0"
Panic == <<"PANIC">>

VARIABLES
  line,     \* buf
  cmd,      \* what parsecmd() returns, Panic, or <<>> before
  procs     \* the processes that runcmd() starts, with argv and descriptors

shellVars == <<line, cmd, procs>>

ShellInit ==
  /\ line \in UNION {[1 .. n -> Symbol \cup {"a", " "}] : n \in 0 .. MaxLine}
  /\ cmd = <<>> /\ procs = {}

-----------------------------------------------------------------------------
(* The scanner *)

CharAt(k) == IF k <= Len(line) THEN line[k] ELSE NUL

\* The first place from i on whose character is not in S.
Skip(i, S) == Min({k \in i .. Len(line) + 1 : CharAt(k) \notin S})

\* The token at i: its kind, where it starts and ends, and where the next is.
gettoken(i) ==
  LET q == Skip(i, {" "})
      c == CharAt(q)
      t == CASE c = NUL -> <<NUL, q>>
             [] c = ">" /\ CharAt(q + 1) = ">" -> <<"+", q + 2>>
             [] c = "a" -> <<"a", Skip(q, {"a"})>>
             [] OTHER -> <<c, q + 1>>
  IN [tok |-> t[1], q |-> q, eq |-> t[2], next |-> Skip(t[2], {" "})]

peek(i, toks) == CharAt(Skip(i, {" "})) \in toks

-----------------------------------------------------------------------------
(* The parser: results are the command, or Panic, and where the rest begins *)

Result(c, i) == [ok |-> TRUE, cmd |-> c, pos |-> i]
Fail == [ok |-> FALSE, cmd |-> Panic, pos |-> 1]

\* redircmd()s around c, the first one innermost.
Redirected(c, redirs) == FoldLeft(LAMBDA x, r : <<"REDIR", x, r[1], r[2]>>, c, redirs)

\* The command made of l and of r, which was parsed after it.
Combine(type, l, r) == IF r.ok THEN Result(<<type, l.cmd, r.cmd>>, r.pos) ELSE Fail

RECURSIVE parseredirs(_, _), parseargs(_, _, _), parseline(_), parsepipe(_), background(_)

\* Token t is a redirection to file f.
AddRedir(redirs, t, f) ==
  IF f.tok # "a" THEN Fail
  ELSE parseredirs(Append(redirs, <<<<"file", f.q, f.eq>>, IF t.tok = "<" THEN 0 ELSE 1>>), f.next)
WithFile(redirs, t) == AddRedir(redirs, t, gettoken(t.next))

\* parseredirs() collects <<file, fd>> pairs.
parseredirs(redirs, i) ==
  IF peek(i, {"<", ">"}) THEN WithFile(redirs, gettoken(i)) ELSE Result(redirs, i)

\* parseexec()'s loop, after redirections r, and for a token t.
MoreArgs(argv, r) == IF r.ok THEN parseargs(argv, r.cmd, r.pos) ELSE Fail
AddArg(argv, redirs, t) ==
  IF t.tok = NUL THEN Result(Redirected(<<"EXEC", argv>>, redirs), t.next)
  ELSE IF t.tok # "a" \/ Len(argv) + 1 >= MAXARGS THEN Fail
  ELSE MoreArgs(Append(argv, <<t.q, t.eq>>), parseredirs(redirs, t.next))
parseargs(argv, redirs, i) ==
  IF peek(i, {"|", ")", "&", ";"}) THEN Result(Redirected(<<"EXEC", argv>>, redirs), i)
  ELSE AddArg(argv, redirs, gettoken(i))

\* parseblock() after the line c in the parentheses, and after redirections r.
EndBlock(c, r) == IF r.ok THEN Result(Redirected(c.cmd, r.cmd), r.pos) ELSE Fail
CloseBlock(c) ==
  IF c.ok /\ peek(c.pos, {")"}) THEN EndBlock(c, parseredirs(<<>>, gettoken(c.pos).next))
  ELSE Fail
parseblock(i) == CloseBlock(parseline(gettoken(i).next))

parseexec(i) ==
  IF peek(i, {"("}) THEN parseblock(i) ELSE MoreArgs(<<>>, parseredirs(<<>>, i))

PipeRest(l) ==
  IF l.ok /\ peek(l.pos, {"|"}) THEN Combine("PIPE", l, parsepipe(gettoken(l.pos).next)) ELSE l
parsepipe(i) == PipeRest(parseexec(i))

\* The loop over "&" in parseline().
background(l) ==
  IF l.ok /\ peek(l.pos, {"&"})
  THEN background(Result(<<"BACK", l.cmd>>, gettoken(l.pos).next)) ELSE l

LineRest(l) ==
  IF l.ok /\ peek(l.pos, {";"}) THEN Combine("LIST", l, parseline(gettoken(l.pos).next)) ELSE l
parseline(i) == LineRest(background(parsepipe(i)))

AllParsed(r) == IF r.ok /\ Skip(r.pos, {" "}) = Len(line) + 1 THEN r.cmd ELSE Panic
parsecmd == AllParsed(parseline(1))

RECURSIVE nulterminate(_)

\* The places where nulterminate() writes a NUL: behind every word and file name.
nulterminate(c) ==
  CASE c[1] = "EXEC" -> {c[2][k][2] : k \in DOMAIN c[2]}
    [] c[1] = "REDIR" -> nulterminate(c[2]) \cup {c[3][3]}
    [] c[1] = "BACK" -> nulterminate(c[2])
    [] OTHER -> nulterminate(c[2]) \cup nulterminate(c[3])

-----------------------------------------------------------------------------
(* runcmd(): fd maps descriptors to what they name, or to None *)

None == <<>>
Tty == <<"console">>
Terminal == [k \in 0 .. 7 |-> IF k < 3 THEN Tty ELSE None]

Lowest(fd) == Min({k \in DOMAIN fd : fd[k] = None})
close(fd, k) == [fd EXCEPT ![k] = None]
assign(fd, x) == [fd EXCEPT ![Lowest(fd)] = x]

\* Faulty variant of PipeEnd: the child keeps the other end.
PipeEndLeft(fd, p0, p1, k) ==
  close(assign(close(fd, k), fd[IF k = 1 THEN p1 ELSE p0]), IF k = 1 THEN p1 ELSE p0)

\* A child of a pipe: close(k), dup() of its end, close() of both ends.
PipeEnd(fd, p0, p1, k) ==
  close(close(assign(close(fd, k), fd[IF k = 1 THEN p1 ELSE p0]), p0), p1)

RECURSIVE runcmd(_, _, _)

\* The processes that exec() or, without argv, wait() in the end; a pipe is named by the place
\* at of its command in the tree.
runcmd(c, fd, at) ==
  CASE c[1] = "EXEC" -> IF c[2] = <<>> THEN {} ELSE {<<c[2], fd>>}
    [] c[1] = "REDIR" -> runcmd(c[2], assign(close(fd, c[4]), c[3]), Append(at, 1))
    [] c[1] = "BACK" -> runcmd(c[2], fd, Append(at, 1))
    [] c[1] = "LIST" -> {<<<<>>, fd>>} \cup runcmd(c[2], fd, Append(at, 1))
                                         \cup runcmd(c[3], fd, Append(at, 2))
    [] c[1] = "PIPE" ->
         LET p0 == Lowest(fd)
             f == assign(fd, <<"read", at>>)
             p1 == Lowest(f)
             g == assign(f, <<"write", at>>)
         IN {<<<<>>, close(close(g, p0), p1)>>}
            \cup runcmd(c[2], PipeEnd(g, p0, p1, 1), Append(at, 1))
            \cup runcmd(c[3], PipeEnd(g, p0, p1, 0), Append(at, 2))

\* One turn of main()'s loop.
Shell ==
  /\ cmd = <<>>
  /\ cmd' = parsecmd
  /\ procs' = IF cmd' = Panic THEN {} ELSE runcmd(cmd', Terminal, <<>>)
  /\ UNCHANGED line

-----------------------------------------------------------------------------
(* The reference: a grammar, and what a command's descriptors should be *)

\* The tokens of the line: ">" after an odd number of them belongs to a ">>".
RunBefore(k) == k - 1 - Max({j \in 0 .. k - 1 : j = 0 \/ line[j] # ">"})
Starts ==
  {k \in DOMAIN line :
     \/ line[k] = "a" /\ (k = 1 \/ line[k - 1] # "a")
     \/ line[k] = ">" /\ RunBefore(k) % 2 = 0
     \/ line[k] \in Symbol \ {">"}}
WordEnd(k) == Min({j \in k .. Len(line) + 1 : j > Len(line) \/ line[j] # "a"})
Tokens ==
  LET s == SetToSortSeq(Starts, <)
  IN [n \in DOMAIN s |-> <<line[s[n]], <<s[n], WordEnd(s[n])>>>>]

\* Trees of a command of words and redirections.
SimpleTrees(t) ==
  LET isFile(k) == t[k][1] = "a" /\ k > 1 /\ t[k - 1][1] # "a"
      words == SetToSortSeq({k \in DOMAIN t : t[k][1] = "a" /\ ~isFile(k)}, <)
      files == SetToSortSeq({k \in DOMAIN t : isFile(k)}, <)
      redirs == [n \in DOMAIN files |->
                   <<<<"file">> \o t[files[n]][2], IF t[files[n] - 1][1] = "<" THEN 0 ELSE 1>>]
  IN IF \A k \in DOMAIN t :
          \/ t[k][1] = "a"
          \/ t[k][1] \in {"<", ">"} /\ k < Len(t) /\ t[k + 1][1] = "a"
     THEN {<<words, Redirected(<<"EXEC", [n \in DOMAIN words |-> t[words[n]][2]]>>, redirs), redirs>>}
     ELSE {}

Upto(t, k) == SubSeq(t, 1, k - 1)
Rest(t, k) == SubSeq(t, k + 1, Len(t))
At(t, c) == {k \in DOMAIN t : t[k][1] = c}

RECURSIVE StageTrees(_), PipeTrees(_), BackTrees(_), LineTrees(_)

\* stage ::= (word | redirection)*  |  "(" line ")" redirection*
StageTrees(t) ==
  {s[2] : s \in {x \in SimpleTrees(t) : Len(x[1]) < MAXARGS}}
  \cup UNION {{Redirected(l, s[3]) : l \in LineTrees(SubSeq(t, 2, k - 1)),
                               s \in {x \in SimpleTrees(Rest(t, k)) : x[1] = <<>>}} :
              k \in {j \in At(t, ")") : t[1][1] = "("}}

\* pipe ::= stage [ "|" pipe ]
PipeTrees(t) ==
  StageTrees(t)
  \cup UNION {{<<"PIPE", l, r>> : l \in StageTrees(Upto(t, k)), r \in PipeTrees(Rest(t, k))} :
              k \in At(t, "|")}

\* back ::= pipe "&"*
BackTrees(t) ==
  PipeTrees(t) \cup IF t # <<>> /\ Last(t)[1] = "&"
                    THEN {<<"BACK", c>> : c \in BackTrees(Upto(t, Len(t)))} ELSE {}

\* line ::= back [ ";" line ]
LineTrees(t) ==
  BackTrees(t)
  \cup UNION {{<<"LIST", l, r>> : l \in BackTrees(Upto(t, k)), r \in LineTrees(Rest(t, k))} :
              k \in At(t, ";")}

RECURSIVE Connected(_, _, _, _)

\* The words of each program with its standard input and output.
Connected(c, in, out, at) ==
  CASE c[1] = "EXEC" -> IF c[2] = <<>> THEN {} ELSE {<<c[2], in, out>>}
    [] c[1] = "REDIR" -> IF c[4] = 0 THEN Connected(c[2], c[3], out, Append(at, 1))
                                     ELSE Connected(c[2], in, c[3], Append(at, 1))
    [] c[1] = "BACK" -> Connected(c[2], in, out, Append(at, 1))
    [] c[1] = "LIST" -> Connected(c[2], in, out, Append(at, 1))
                        \cup Connected(c[3], in, out, Append(at, 2))
    [] c[1] = "PIPE" -> Connected(c[2], in, <<"write", at>>, Append(at, 1))
                        \cup Connected(c[3], <<"read", at>>, out, Append(at, 2))

\* A line is run exactly if the grammar derives it, and then as its only tree
\* (parsecmd), with its words cut from the line where they end and nowhere else
\* (nulterminate); every program has the standard input and output that the tree
\* gives it, and no process has a descriptor more, so that the reader of a pipe
\* sees its end once the writer is gone (runcmd).
RunsAsWritten ==
  cmd # <<>> =>
    /\ LineTrees(Tokens) = IF cmd = Panic THEN {} ELSE {cmd}
    /\ cmd # Panic =>
         nulterminate(cmd) = {WordEnd(k) : k \in {j \in Starts : line[j] = "a"}}
    /\ cmd # Panic =>
         {<<x[1], x[2][0], x[2][1]>> : x \in {y \in procs : y[1] # <<>>}}
           = Connected(cmd, Tty, Tty, <<>>)
    /\ \A x \in procs : {k \in DOMAIN x[2] : x[2][k] # None} = 0 .. 2

=============================================================================
