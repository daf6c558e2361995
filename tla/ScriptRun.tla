------------------------------ MODULE ScriptRun -----------------------------
(***************************************************************************)
(* polskiscript_eval_string on the source texts written for a set of       *)
(* syntax trees, and what the interpreter of PolskiScript promises.        *)
(***************************************************************************)
EXTENDS PolskiScript

CONSTANT Programs      \* the syntax trees that source texts are written for

VARIABLES
  phase,               \* "idle", "given", "parsed", "ran", "freed", "hung"
  given,               \* the tree meant, its layout, the token left out (0: none)
  src,                 \* the source text
  parse,               \* "none" so far, "ok", "error" or "hang"
  ast,                 \* the tree of parser_parse_program
  interp               \* the Interpreter, with the blocks it holds

scriptVars == <<phase, given, src, parse, ast, interp>>

-----------------------------------------------------------------------------
(* Source texts: a tree written with no more brackets than it needs, each  *)
(* statement on one line or every statement on the first.                  *)

Level(e) == CASE e.type = "UNARY" -> 0
              [] e.type = "BINARY" -> CHOOSE k \in 1 .. 4 : e.s \in Ops[k]
              [] OTHER -> -1

RECURSIVE Written(_), WrittenAll(_, _)

Bracketed(e, limit) == IF Level(e) <= limit THEN Written(e) ELSE <<"(">> \o Written(e) \o <<")">>

WrittenAll(kids, sep) ==
  CASE kids = << >> -> << >>
    [] Len(kids) = 1 -> Written(kids[1])
    [] OTHER -> Written(kids[1]) \o sep \o WrittenAll(Tail(kids), sep)

Statement(e) ==
  IF e.type \in {"IDENTIFIER", "CALL", "BINARY"} THEN Written(e) \o <<";">> ELSE Written(e)

Body(kids) == <<"{">> \o FlattenSeq([i \in DOMAIN kids |-> Statement(kids[i])]) \o <<"}">>

Written(e) ==
  CASE e.type = "INT" -> <<CHOOSE d \in DOMAIN Digit : Digit[d] = e.n>>
    [] e.type = "BOOL" -> <<IF e.n = 1 THEN "prawda" ELSE "falsz">>
    [] e.type = "NIC" -> <<"nic">>
    [] e.type = "STRING" -> <<"text">>
    [] e.type = "IDENTIFIER" -> <<e.s>>
    [] e.type = "CALL" -> Written(e.kids[1]) \o <<"(">> \o WrittenAll(Tail(e.kids), <<",">>) \o <<")">>
    [] e.type = "UNARY" -> <<e.s>> \o Bracketed(e.kids[1], 0)
    [] e.type = "BINARY" -> Bracketed(e.kids[1], Level(e)) \o <<e.s>> \o Bracketed(e.kids[2], Level(e) - 1)
    [] e.type = "VAR_DECL" -> <<"zmienna", e.s>> \o
         (IF e.kids = << >> THEN <<";">> ELSE <<"=">> \o Written(e.kids[1]) \o <<";">>)
    [] e.type = "ASSIGN" -> <<e.s, "=">> \o Written(e.kids[1]) \o <<";">>
    [] e.type = "PRINT" -> <<"drukuj", "(">> \o WrittenAll(e.kids, <<",">>) \o <<")", ";">>
    [] e.type = "IF" -> <<"jesli", "(">> \o Written(e.kids[1]) \o <<")">> \o Written(e.kids[2]) \o
         (IF Len(e.kids) = 3 THEN <<"inaczej">> \o Written(e.kids[3]) ELSE << >>)
    [] e.type = "WHILE" -> <<"dopoki", "(">> \o Written(e.kids[1]) \o <<")">> \o Written(e.kids[2])
    [] e.type = "RETURN" -> <<"zwroc">> \o WrittenAll(e.kids, << >>) \o <<";">>
    [] e.type = "BREAK" -> <<"przerwij", ";">>
    [] e.type = "CONTINUE" -> <<"kontynuuj", ";">>
    [] e.type = "BLOCK" -> Body(e.kids)

Text(prog, lines) ==
  FlattenSeq([i \in DOMAIN prog.kids |->
                Statement(prog.kids[i]) \o (IF lines THEN <<"\n">> ELSE << >>)])

\* The tokens that may be left out: without them no other program is meant.
Needed(text) == {i \in DOMAIN text : text[i] \in {";", "(", ")"} /\ (i > 1 => text[i - 1] # "zwroc")}

-----------------------------------------------------------------------------
(* polskiscript_eval_string. *)

ScriptInit ==
  /\ phase = "idle" /\ given = [prog |-> NoNode, lines |-> FALSE, drop |-> 0] /\ src = << >>
  /\ parse = "none" /\ ast = NoNode /\ interp = interpreter_init(<<FALSE>>)

Give(prog, lines, drop) ==
  /\ phase' = "given"
  /\ given' = [prog |-> prog, lines |-> lines, drop |-> drop]
  /\ src' = IF drop = 0 THEN Text(prog, lines) ELSE RemoveAt(Text(prog, lines), drop)
  /\ UNCHANGED <<parse, ast, interp>>

\* interpreter_init, and interpreter_execute up to the tree: after an error
\* nothing is evaluated.
Parse ==
  /\ phase = "given"
  /\ \E r \in {parser_parse_program(parser_init(src))} :
      /\ parse' = (CASE r.p.hang -> "hang" [] r.p.err /\ ~r.p.hang -> "error" [] OTHER -> "ok")
      /\ ast' = IF parse' = "ok" THEN r.node ELSE NoNode
      /\ phase' = (CASE parse' = "ok" -> "parsed" [] parse' = "error" -> "ran"
                     [] parse' = "hang" -> "hung")
      /\ UNCHANGED <<given, src, interp>>

\* junk: what the reads of a value never written will find.
Evaluate(junk) ==
  /\ phase = "parsed" /\ phase' = "ran"
  /\ interp' = Program([interp EXCEPT !.junk = junk], ast)
  /\ UNCHANGED <<given, src, parse, ast>>

\* Not reached when the program does not end or traps.
Free ==
  /\ phase = "ran" /\ ~interp.loop /\ ~interp.trap
  /\ phase' = "freed"
  /\ interp' = interpreter_free(interp)
  /\ UNCHANGED <<given, src, parse, ast>>

ScriptNext ==
  \/ /\ phase = "idle"
     /\ \E prog \in Programs, lines \in BOOLEAN :
          \E drop \in {0} \union Needed(Text(prog, lines)) : Give(prog, lines, drop)
  \/ Parse
  \/ \E junk \in BOOLEAN \X BOOLEAN : Evaluate(junk)
  \/ Free

ScriptSpec == ScriptInit /\ [][ScriptNext]_scriptVars

-----------------------------------------------------------------------------
(* What a program means, as POLSKISCRIPT.md has it.  A statement ends      *)
(* normally, by przerwij, by kontynuuj or with an error; "odd" marks what  *)
(* the document leaves open: operators on operands of other types than     *)
(* theirs, a condition that is nic or a text, % by zero, zwroc and calls.  *)
(*                                                                         *)
(* The evaluator is known to read three things otherwise; with one of them *)
(* in gap the meaning is the evaluator's:                                  *)
(*   "order"  <= and >= are < and >                                        *)
(*   "equal"  only integers can be equal                                   *)
(*   "scope"  a block opens no scope.                                      *)

Gaps == {"order", "equal", "scope"}

Odd == Value("odd", 0)
Failed == Value("error", 0)

Equal(gap, l, r) == l = r /\ (l.type = "int" \/ "equal" \notin gap)

Denotation(gap, op, a, b) ==
  CASE op = "+" -> Num(a + b) [] op = "-" -> Num(a - b) [] op = "*" -> Num(a * b)
    [] op = "/" -> IF b = 0 THEN Failed
                   ELSE Num(CHOOSE q \in -Abs(a) .. Abs(a) : /\ Abs(a - q * b) < Abs(b)
                                                             /\ Abs(q * b) <= Abs(a))
    [] op = "%" /\ b # 0 -> Num(CHOOSE r \in -Abs(a) .. Abs(a) :
                                  /\ Abs(r) < Abs(b) /\ r * a >= 0
                                  /\ \E q \in -Abs(a) .. Abs(a) : a = q * b + r)
    [] op = "<" -> Bool(a < b) [] op = ">" -> Bool(a > b)
    [] op = "<=" -> Bool(a < b \/ (a = b /\ "order" \notin gap))
    [] op = ">=" -> Bool(a > b \/ (a = b /\ "order" \notin gap))
    [] OTHER -> Odd

\* env: the scopes that are open, the innermost last.
ScopeOf(env, name) == SelectLastInSeq(env, LAMBDA scope : name \in DOMAIN scope)

RECURSIVE Denotes(_, _, _)
Denotes(gap, env, e) ==
  CASE e.type = "INT" -> Num(e.n)
    [] e.type = "BOOL" -> Bool(e.n = 1)
    [] e.type = "NIC" -> Nic
    [] e.type = "STRING" -> Value("text", 0)
    [] e.type = "IDENTIFIER" ->
         IF ScopeOf(env, e.s) = 0 THEN Failed ELSE env[ScopeOf(env, e.s)][e.s]
    [] e.type = "UNARY" ->
         LET v == Denotes(gap, env, e.kids[1])
         IN  CASE v = Failed -> Failed
               [] e.s = "-" /\ v.type = "int" -> Num(-v.n)
               [] e.s = "!" /\ v.type = "bool" -> Bool(v.n = 0)
               [] OTHER -> Odd
    [] e.type = "BINARY" ->
         LET l == Denotes(gap, env, e.kids[1])
             r == Denotes(gap, env, e.kids[2])
         IN  CASE l \in {Failed, Odd} -> l
               [] l \notin {Failed, Odd} /\ r \in {Failed, Odd} -> r
               [] {l, r} \cap {Failed, Odd} = {} /\ e.s = "==" -> Bool(Equal(gap, l, r))
               [] {l, r} \cap {Failed, Odd} = {} /\ e.s = "!=" -> Bool(~Equal(gap, l, r))
               [] l.type = "int" /\ r.type = "int" /\ e.s \notin {"==", "!="} ->
                    Denotation(gap, e.s, l.n, r.n)
               [] l.type = "bool" /\ r.type = "bool" /\ e.s = "&&" -> Bool(l.n + r.n = 2)
               [] l.type = "bool" /\ r.type = "bool" /\ e.s = "||" -> Bool(l.n + r.n > 0)
               [] OTHER -> Odd
    [] OTHER -> Odd

\* m: the gap, the scopes, the output, how the last statement ended, and
\* whether an error came up inside a loop.
RECURSIVE Effect(_, _), Repeat(_, _, _)

All(m, kids) == FoldLeft(LAMBDA n, k : IF n.how = "next" THEN Effect(n, k) ELSE n, m, kids)

Bind(m, scope, name, v) ==
  IF v \in {Failed, Odd} THEN [m EXCEPT !.how = v.type]
  ELSE [m EXCEPT !.env[scope] = [n \in DOMAIN @ \union {name} |-> IF n = name THEN v ELSE @[n]]]

NewScope == [n \in {} |-> Nic]

Repeat(m, e, rounds) ==
  LET c == Denotes(m.gap, m.env, e.kids[1])
      b == Effect(m, e.kids[2])
  IN  CASE c = Failed -> [m EXCEPT !.how = "error", !.looped = TRUE]
        [] c.type \notin {"bool", "int", "error"} \/ (c.n # 0 /\ rounds = 0) -> [m EXCEPT !.how = "odd"]
        [] c.type \in {"bool", "int"} /\ c.n = 0 -> m
        [] OTHER -> CASE b.how = "break" -> [b EXCEPT !.how = "next"]
                      [] b.how \in {"next", "continue"} ->
                           Repeat([b EXCEPT !.how = "next"], e, rounds - 1)
                      [] OTHER -> [b EXCEPT !.looped = (b.how = "error")]

Effect(m, e) ==
  CASE e.type = "VAR_DECL" ->
         Bind(m, Len(m.env), e.s, IF e.kids = << >> THEN Nic ELSE Denotes(m.gap, m.env, e.kids[1]))
    [] e.type = "ASSIGN" ->
         LET scope == ScopeOf(m.env, e.s)
         IN  IF scope = 0 THEN [m EXCEPT !.how = "error"]
             ELSE Bind(m, scope, e.s, Denotes(m.gap, m.env, e.kids[1]))
    [] e.type = "PRINT" ->
         LET vs == [i \in DOMAIN e.kids |-> Denotes(m.gap, m.env, e.kids[i])]
         IN  CASE \E i \in DOMAIN vs : vs[i] = Odd -> [m EXCEPT !.how = "odd"]
               [] \E i \in DOMAIN vs : vs[i] = Failed -> [m EXCEPT !.how = "error"]
               [] OTHER -> [m EXCEPT !.out = @ \o Append(vs, Value("newline", 0))]
    [] e.type = "IF" ->
         LET c == Denotes(m.gap, m.env, e.kids[1])
         IN  CASE c = Failed -> [m EXCEPT !.how = "error"]
               [] c.type \in {"bool", "int"} ->
                    All(m, IF c.n # 0 THEN <<e.kids[2]>> ELSE SubSeq(e.kids, 3, Len(e.kids)))
               [] OTHER -> [m EXCEPT !.how = "odd"]
    [] e.type = "WHILE" -> Repeat(m, e, MaxLoop)
    [] e.type = "BLOCK" ->
         IF "scope" \in m.gap THEN All(m, e.kids)
         ELSE [All([m EXCEPT !.env = Append(@, NewScope)], e.kids) EXCEPT !.env = Front(@)]
    [] e.type = "BREAK" -> [m EXCEPT !.how = "break"]
    [] e.type = "CONTINUE" -> [m EXCEPT !.how = "continue"]
    [] OTHER -> LET v == Denotes(m.gap, m.env, e)
                IN  IF v \in {Failed, Odd} THEN [m EXCEPT !.how = v.type] ELSE m

MeaningWith(gap, prog) ==
  [All([gap |-> gap, env |-> <<NewScope>>, out |-> << >>, how |-> "next", looped |-> FALSE],
       prog.kids) EXCEPT !.gap = {}]

Meaning(prog) == MeaningWith({}, prog)

\* The gap makes no difference to the program.
Unmoved(gap, prog) == \A g \in gap : MeaningWith({g}, prog) = Meaning(prog)

-----------------------------------------------------------------------------
(* Properties. *)

RECURSIVE Within(_)
Within(e) == {e} \union UNION {Within(e.kids[i]) : i \in DOMAIN e.kids}

\* How many statements of the text are expressions: a statement that starts
\* with an identifier makes the parser go back.
RECURSIVE Expressions(_)
Expressions(kids) ==
  FoldLeft(LAMBDA n, k : n + (CASE k.type \in {"IDENTIFIER", "CALL", "BINARY"} -> 1
                                [] k.type \in {"IF", "WHILE", "BLOCK"} -> Expressions(k.kids)
                                [] OTHER -> 0), 0, kids)

\* Going back finds the identifier only on the first line, and once.
Clean(g) ==
  /\ Expressions(g.prog.kids) <= 1
  /\ g.lines => Expressions(SubSeq(g.prog.kids, 2, Len(g.prog.kids))) = 0

\* The parser gives back the tree the text was written for: precedence,
\* association, nesting and the return to the start of a statement that
\* turned out to be an expression.  A text without one of its semicolons or
\* round brackets is refused: it is never taken for another program, and the
\* parser does not go on for ever.
ParserExact ==
  parse # "none" /\ Clean(given) =>
    IF given.drop = 0 THEN parse = "ok" /\ ast = given.prog ELSE parse = "error"

\* What the interpreter did has the meaning m: it printed that and left that
\* in the variables; and after an error nothing more was printed.
\* Not asked of a run that used a text block after it was freed, or in which
\* a declaration found the environment full.
Agrees(m) ==
  phase = "ran" /\ ast = given.prog /\ ~interp.fault /\ ~interp.full =>
    /\ m.how = "next" =>
         /\ ~interp.err /\ ~interp.loop /\ ~interp.trap
         /\ interp.out = m.out
         /\ {<<b.name, Shown(b.val)>> : b \in Range(interp.env)}
              = {<<n, m.env[1][n]>> : n \in DOMAIN m.env[1]}
    /\ m.how = "error" => interp.err /\ IsPrefix(m.out, interp.out)

\* The interpreter gets to printing its message about an error.
Reported == interp.err /\ ~interp.loop /\ ~interp.trap

\* A program that parses as it was meant prints, and leaves in its
\* variables, what POLSKISCRIPT.md says with the three gaps, and so what the
\* document itself says wherever they make no difference; an undefined
\* variable or a division by zero is reported with all that was printed
\* before, if it came up outside loops.
MeansDocumented ==
  LET m == Meaning(given.prog)
  IN  /\ Agrees(MeaningWith(Gaps, given.prog))
      /\ Unmoved(Gaps, given.prog) =>
           /\ Agrees(m)
           /\ phase = "ran" /\ ast = given.prog /\ ~interp.fault /\ ~interp.full =>
                (m.how = "error" /\ ~m.looped => Reported)

\* "<=" is "less than or equal to" and ">=" "greater than or equal to".
OrderDocumented == Unmoved(Gaps \ {"order"}, given.prog) => Agrees(Meaning(given.prog))

\* "==" is "equal to", of truth values and nic too.
EqualDocumented == Unmoved(Gaps \ {"equal"}, given.prog) => Agrees(Meaning(given.prog))

\* Variables are lexically scoped, and scopes nest: a variable of a block is
\* not seen after it.
ScopeDocumented == Unmoved(Gaps \ {"scope"}, given.prog) => Agrees(Meaning(given.prog))

\* Errors are reported with a message, wherever they come up: the program
\* does not go on for ever instead.
ErrorsReported ==
  phase = "ran" /\ ast = given.prog /\ ~interp.fault /\ ~interp.full
    /\ Unmoved(Gaps, given.prog) /\ Meaning(given.prog).how = "error" => Reported

\* A program is any sequence of statements, and an expression with a
\* semicolon is a statement.
GrammarAccepted == parse # "none" /\ given.drop = 0 => parse = "ok" /\ ast = given.prog

\* No text is freed twice or printed after it was freed: "String values are
\* heap-allocated and manually freed".
TextsOwned == ~interp.fault

\* The promises of POLSKISCRIPT.md together.
Documented ==
  /\ OrderDocumented /\ EqualDocumented /\ ScopeDocumented
  /\ ErrorsReported /\ GrammarAccepted /\ TextsOwned

\* Text literals stand where their block has an owner.
Owned(prog) ==
  \A e \in Within(prog) :
    e.type \in {"BINARY", "UNARY", "RETURN", "IF", "WHILE", "CALL"} =>
      \A i \in DOMAIN e.kids : e.kids[i].type # "STRING"

\* The block of a text is freed once, and not printed after that, as long as
\* no variable that holds a text is read; and none is left when the program
\* ended without an error.
TextsFreedOnce ==
  ~interp.alias =>
    /\ ~interp.fault
    /\ phase = "freed" /\ Owned(given.prog) /\ ~interp.err /\ ~interp.full => interp.live = {}
=============================================================================
