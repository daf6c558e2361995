---------------------------- MODULE PolskiScript ----------------------------
(***************************************************************************)
(* The PolskiScript interpreter, kernel/lang/polskiscript.c: the lexer,    *)
(* the recursive descent parser, the evaluator over the syntax tree, and   *)
(* polskiscript_eval_string, which runs them on one source text.           *)
(*                                                                         *)
(* A source text is a sequence of tokens, each as wide as one character,   *)
(* and line breaks.  Numbers are integers: floating point is left out.     *)
(* Every text literal reads "a"; what is kept of a text is the heap block  *)
(* that holds it.  There are no calls: the evaluator has no case for them. *)
(***************************************************************************)
EXTENDS Integers, Sequences, SequencesExt

CONSTANTS
  EnvMax,              \* ENV_MAX_VARS
  MaxLoop              \* bound on the rounds of a loop

-----------------------------------------------------------------------------
(* Syntax trees: ASTNode. *)

Node(type, s, n, kids) == [type |-> type, s |-> s, n |-> n, kids |-> kids]
NoNode == Node("NULL", "", 0, << >>)
Leaf(type) == Node(type, "", 0, << >>)

\* ast_node_add_child leaves out a missing child.
Kids(seq) == SelectSeq(seq, LAMBDA k : k # NoNode)
Tree(type, s, seq) == Node(type, s, 0, Kids(seq))

Digit == [d \in {"0", "1", "2", "3"} |->
            CASE d = "0" -> 0 [] d = "1" -> 1 [] d = "2" -> 2 [] d = "3" -> 3]
Names == {"x", "y", "f"}

\* The binary operators, level by level: factor, term, comparison, logical.
Ops == <<{"*", "/", "%"}, {"+", "-"}, {"==", "!=", "<", ">", "<=", ">="}, {"&&", "||"}>>

-----------------------------------------------------------------------------
(* The lexer.  p is the Parser with its Lexer: position and column, the    *)
(* current token and its column.                                           *)

lexer_advance(p) ==
  IF p.pos > Len(p.src) THEN p
  ELSE [p EXCEPT !.pos = @ + 1, !.col = IF p.src[p.pos] = "\n" THEN 1 ELSE @ + 1]

RECURSIVE lexer_skip_whitespace(_)
lexer_skip_whitespace(p) ==
  IF p.pos <= Len(p.src) /\ p.src[p.pos] = "\n" THEN lexer_skip_whitespace(lexer_advance(p)) ELSE p

Token(p) ==
  [lexer_advance(p) EXCEPT !.tok = IF p.pos > Len(p.src) THEN "KONIEC" ELSE p.src[p.pos],
                           !.tcol = p.col]

lexer_next_token(p) == Token(lexer_skip_whitespace(p))

parser_advance(p) == lexer_next_token(p)

parser_init(s) ==
  parser_advance([src |-> s, pos |-> 1, col |-> 1, tok |-> "", tcol |-> 1,
                  err |-> FALSE, hang |-> FALSE])

parser_expect(p, tok) == IF p.tok = tok THEN parser_advance(p) ELSE [p EXCEPT !.err = TRUE]

-----------------------------------------------------------------------------
(* The parser.  Each operator returns the parser and the node.  Operators  *)
(* that take such a pair e say what the code does after parsing e.         *)

Gives(p, node) == [p |-> p, node |-> node]
OneChild(e, type, s) == Gives(e.p, Tree(type, s, <<e.node>>))
Children(e, type) == Gives(e.p, Tree(type, "", e.node))

RECURSIVE parser_parse_binary(_, _), Operands(_, _), parser_parse_unary(_),
          parser_parse_primary(_), Arguments(_, _), parser_parse_statement(_), Statements(_, _)

parser_parse_expression(p) == parser_parse_binary(p, 4)

\* An argument list up to the closing bracket.
MoreArguments(e, args) == IF e.p.tok = "," THEN Arguments(e.p, args) ELSE Gives(e.p, args)
AfterArgument(e, args) == MoreArguments(e, Kids(Append(args, e.node)))

Arguments(p, args) ==
  AfterArgument(parser_parse_expression(IF p.tok = "," THEN parser_advance(p) ELSE p), args)

ArgList(p) == IF p.tok = ")" THEN Gives(p, << >>) ELSE Arguments(p, << >>)

Closed(e) == Gives(parser_expect(e.p, ")"), e.node)
Call(id, e) == Gives(e.p, Tree("CALL", "", <<id>> \o e.node))

Identifier(id, next) ==
  IF next.tok # "(" THEN Gives(next, id)
  ELSE Call(id, Closed(ArgList(parser_advance(next))))

Primary(p, next) ==
  CASE p.tok \in DOMAIN Digit -> Gives(next, Node("INT", "", Digit[p.tok], << >>))
    [] p.tok = "text"   -> Gives(next, Leaf("STRING"))
    [] p.tok = "prawda" -> Gives(next, Node("BOOL", "", 1, << >>))
    [] p.tok = "falsz"  -> Gives(next, Node("BOOL", "", 0, << >>))
    [] p.tok = "nic"    -> Gives(next, Leaf("NIC"))
    [] p.tok \in Names  -> Identifier(Node("IDENTIFIER", p.tok, 0, << >>), next)
    [] p.tok = "("      -> Closed(parser_parse_expression(next))
    [] OTHER            -> Gives(p, NoNode)

parser_parse_primary(p) == Primary(p, parser_advance(p))

parser_parse_unary(p) ==
  IF p.tok \in {"-", "!"} THEN OneChild(parser_parse_unary(parser_advance(p)), "UNARY", p.tok)
  ELSE parser_parse_primary(p)

Operand(p, level) ==
  IF level = 1 THEN parser_parse_unary(p) ELSE parser_parse_binary(p, level - 1)

Binary(l, r) == Gives(r.p, Tree("BINARY", l.p.tok, <<l.node, r.node>>))

\* Mutant: operators associate to the right.
Operands_right(e, level) ==
  IF e.p.tok \notin Ops[level] THEN e
  ELSE Binary(e, parser_parse_binary(parser_advance(e.p), level))

\* The loop that all four levels share: operators associate to the left.
Operands(e, level) ==
  IF e.p.tok \notin Ops[level] THEN e
  ELSE Operands(Binary(e, Operand(parser_advance(e.p), level)), level)

parser_parse_binary(p, level) == Operands(Operand(p, level), level)

\* After statement s of a block.  When no statement starts with the current
\* token nothing is consumed and the loop never ends; nor does it when a
\* backtrack returns to an earlier line: then there are more statements than
\* tokens.
AfterStatement(p, done, s) ==
  CASE s.p.err \/ s.p.hang -> Gives(s.p, done)
    [] ~(s.p.err \/ s.p.hang) /\ (s.p = p \/ Len(done) > Len(p.src)) ->
         Gives([p EXCEPT !.hang = TRUE], done)
    [] OTHER -> Statements(s.p, Kids(Append(done, s.node)))

\* The statements of a block.
Statements(p, done) ==
  IF p.tok \in {"}", "KONIEC"} THEN Gives(p, done)
  ELSE AfterStatement(p, done, parser_parse_statement(p))

BlockEnd(e) == Children(Gives(parser_expect(e.p, "}"), e.node), "BLOCK")
parser_parse_block(p) == BlockEnd(Statements(parser_expect(p, "{"), << >>))

\* ( expression ) block
Guarded(c, b) == Gives(b.p, <<c, b.node>>)
CondBlock(e) == Guarded(e.node, parser_parse_block(e.p))
Condition(p) == CondBlock(Closed(parser_parse_expression(parser_expect(p, "("))))

\* What follows the condition and the first block of a jesli.
IfElse(c, b) == Gives(b.p, Tree("IF", "", Append(c, b.node)))
AfterIf(e) ==
  IF e.p.tok # "inaczej" THEN Children(e, "IF")
  ELSE IfElse(e.node, parser_parse_block(parser_advance(e.p)))

\* The semicolon after a statement.
Ended(e) == Gives(parser_expect(e.p, ";"), e.node)

\* The lexer goes back to the identifier by its column: the column is not
\* restored with the position, and it counts from the start of a line.
Backtrack(p, tcol) == parser_advance([p EXCEPT !.pos = tcol])

\* After the name in a declaration.
Initial(p) ==
  IF p.tok # "=" THEN Gives(p, NoNode) ELSE parser_parse_expression(parser_advance(p))

FromIdentifier(p, next) ==
  Ended(IF next.tok = "=" THEN OneChild(parser_parse_expression(parser_advance(next)), "ASSIGN", p.tok)
        ELSE parser_parse_expression(Backtrack(next, p.tcol)))

StatementOf(p, next) ==
  CASE p.tok = "zmienna" ->
         IF next.tok \notin Names THEN Gives([next EXCEPT !.err = TRUE], NoNode)
         ELSE Ended(OneChild(Initial(parser_advance(next)), "VAR_DECL", next.tok))
    [] p.tok = "drukuj" -> Ended(Children(Closed(ArgList(parser_expect(next, "("))), "PRINT"))
    [] p.tok = "jesli" -> AfterIf(Condition(next))
    [] p.tok = "dopoki" -> Children(Condition(next), "WHILE")
    [] p.tok = "zwroc" ->
         Ended(OneChild(IF next.tok = ";" THEN Gives(next, NoNode)
                        ELSE parser_parse_expression(next), "RETURN", ""))
    [] p.tok = "przerwij" -> Ended(Gives(next, Leaf("BREAK")))
    [] p.tok = "kontynuuj" -> Ended(Gives(next, Leaf("CONTINUE")))
    [] p.tok \in Names -> FromIdentifier(p, next)
    [] p.tok = "{" -> parser_parse_block(p)
    [] OTHER -> Gives(p, NoNode)

parser_parse_statement(p) == StatementOf(p, parser_advance(p))

\* At the outermost level a "}" starts no statement either.
AtEnd(b) ==
  IF b.p.tok = "}" /\ ~b.p.err THEN Gives([b.p EXCEPT !.hang = TRUE], NoNode)
  ELSE Children(b, "PROGRAM")

parser_parse_program(p) == AtEnd(Statements(p, << >>))

-----------------------------------------------------------------------------
(* Values and the environment.  The value of a text is its block; live is  *)
(* the set of blocks in use.                                               *)

Value(type, n) == [type |-> type, n |-> n]
Nic == Value("nic", 0)
Num(n) == Value("int", n)
Bool(b) == Value("bool", IF b THEN 1 ELSE 0)

interpreter_init(junk) ==
  [env |-> << >>, brk |-> FALSE, cont |-> FALSE, ret |-> FALSE, return_value |-> Nic,
   err |-> FALSE, out |-> << >>, live |-> {}, next |-> 1, junk |-> junk,
   fault |-> FALSE,    \* a block was freed or printed that was not in use
   trap |-> FALSE,     \* a remainder by zero was taken
   loop |-> FALSE,     \* a loop went on for MaxLoop rounds
   full |-> FALSE,     \* a declaration found the environment full
   alias |-> FALSE]    \* a variable that holds a text was read

value_free(it, v) ==
  CASE v.type # "text" -> it
    [] v.type = "text" /\ v.n \in it.live -> [it EXCEPT !.live = @ \ {v.n}]
    [] OTHER -> [it EXCEPT !.fault = TRUE]

Lookup(env, name) == SelectInSeq(env, LAMBDA b : b.name = name)

\* Mutant: the new value is stored first, and freed for the old one.
Store_swapped(it, i, v) == value_free([it EXCEPT !.env[i].val = v], v)

\* The old value is freed before the new one is stored.
Store(it, i, v) == [value_free(it, it.env[i].val) EXCEPT !.env[i].val = v]

env_define(it, name, v) ==
  LET i == Lookup(it.env, name)
  IN  CASE Len(it.env) >= EnvMax -> [it EXCEPT !.full = TRUE]
        [] Len(it.env) < EnvMax /\ i # 0 -> Store(it, i, v)
        [] OTHER -> [it EXCEPT !.env = Append(@, [name |-> name, val |-> v])]

env_set(it, name, v) ==
  LET i == Lookup(it.env, name)
  IN  IF i = 0 THEN [it EXCEPT !.err = TRUE] ELSE Store(it, i, v)

\* value_print
Shown(v) == IF v.type = "text" THEN Value("text", 0) ELSE v

value_print(it, v) ==
  [it EXCEPT !.out = Append(@, Shown(v)),
             !.fault = @ \/ (v.type = "text" /\ v.n \notin it.live)]

-----------------------------------------------------------------------------
(* The evaluator.  Each operator returns the interpreter and the value. *)

Yields(it, v) == [it |-> it, v |-> v]

\* The test of a condition reads as_int of a value that is not a boolean.
\* That of nic was never written: junk holds what the successive reads find.
Truth(it, v) == CASE v.type \in {"bool", "int"} -> v.n # 0
                  [] v.type = "text" -> TRUE
                  [] v.type = "nic" -> Head(it.junk)
Tested(it, v) == IF v.type = "nic" /\ Len(it.junk) > 1 THEN [it EXCEPT !.junk = Tail(@)] ELSE it

\* Integer division of C, towards zero.
Abs(n) == IF n < 0 THEN -n ELSE n
Quotient(a, b) == (IF (a < 0) = (b < 0) THEN 1 ELSE -1) * (Abs(a) \div Abs(b))

\* Only the first character of the operator is looked at for "<" and ">".
IntOp(it, op, a, b) ==
  CASE op = "+" -> Yields(it, Num(a + b))
    [] op = "-" -> Yields(it, Num(a - b))
    [] op = "*" -> Yields(it, Num(a * b))
    [] op = "/" -> IF b = 0 THEN Yields([it EXCEPT !.err = TRUE], Nic)
                   ELSE Yields(it, Num(Quotient(a, b)))
    [] op = "%" -> IF b = 0 THEN Yields([it EXCEPT !.trap = TRUE], Nic)
                   ELSE Yields(it, Num(a - b * Quotient(a, b)))
    [] op = "==" -> Yields(it, Bool(a = b))
    [] op = "!=" -> Yields(it, Bool(a # b))
    [] op \in {"<", "<="} -> Yields(it, Bool(a < b))
    [] op \in {">", ">="} -> Yields(it, Bool(a > b))

\* Both operands are tested.
Logical(it, op, l, r) ==
  LET it1 == Tested(it, l)
      lt == Truth(it, l)
      rt == Truth(it1, r)
  IN  Yields(Tested(it1, r), Bool(IF op = "&&" THEN lt /\ rt ELSE lt \/ rt))

\* Operands that fit no operator are freed and give nic.
BinaryOp(it, op, l, r) ==
  CASE op \in Ops[4] -> Logical(it, op, l, r)
    [] op \notin Ops[4] /\ l.type = "int" /\ r.type = "int" -> IntOp(it, op, l.n, r.n)
    [] op \in {"==", "!="} /\ ~(l.type = "int" /\ r.type = "int") -> Yields(it, Bool(op = "!="))
    [] OTHER -> Yields(value_free(value_free(it, l), r), Nic)

UnaryOp(it, op, v) ==
  CASE op = "-" /\ v.type = "int" -> Yields(it, Num(-v.n))
    [] op = "!" -> Yields(Tested(it, v), Bool(~Truth(it, v)))
    [] OTHER -> Yields(value_free(it, v), Nic)

RECURSIVE interpreter_eval(_, _), While(_, _, _), PrintArgs(_, _), Sequence(_, _)

PrintArgs(it, kids) ==
  IF kids = << >> THEN it
  ELSE LET e == interpreter_eval(it, Head(kids))
       IN  PrintArgs(value_free(value_print(e.it, e.v), e.v), Tail(kids))

\* Mutant: a block goes on after kontynuuj.
Stops_break(it) == it.ret \/ it.brk
Stops(it) == it.ret \/ it.brk \/ it.cont

\* A block ends at a flag, a program only at an error.
Sequence(it, kids) ==
  IF kids = << >> THEN it
  ELSE LET e == interpreter_eval(it, Head(kids)).it
       IN  IF Stops(e) THEN e ELSE Sequence(e, Tail(kids))

\* The value of the condition is freed when it has been tested.
Cond(it, node) ==
  LET c == interpreter_eval(it, node)
  IN  [it |-> value_free(Tested(c.it, c.v), c.v), true |-> Truth(c.it, c.v)]

While(it, node, rounds) ==
  LET c == Cond(it, node.kids[1])
      b == interpreter_eval(c.it, node.kids[2]).it
  IN  CASE ~c.true -> c.it
        [] c.true /\ rounds = 0 -> [c.it EXCEPT !.loop = TRUE]
        [] c.true /\ rounds > 0 /\ b.brk -> [b EXCEPT !.brk = FALSE]
        [] c.true /\ rounds > 0 /\ ~b.brk /\ b.cont ->
             While([b EXCEPT !.cont = FALSE], node, rounds - 1)
        [] OTHER -> IF b.ret \/ b.loop \/ b.trap THEN b ELSE While(b, node, rounds - 1)

\* The value of a variable is copied with its pointer, not its text.
interpreter_eval(it, node) ==
  IF it.err \/ it.trap \/ it.loop THEN Yields(it, Nic)
  ELSE
  CASE node.type = "INT" -> Yields(it, Num(node.n))
    [] node.type = "BOOL" -> Yields(it, Bool(node.n = 1))
    [] node.type = "STRING" ->
         Yields([it EXCEPT !.live = @ \union {it.next}, !.next = @ + 1], Value("text", it.next))
    [] node.type = "IDENTIFIER" ->
         LET i == Lookup(it.env, node.s)
         IN  IF i = 0 THEN Yields([it EXCEPT !.err = TRUE], Nic)
             ELSE Yields([it EXCEPT !.alias = @ \/ it.env[i].val.type = "text"], it.env[i].val)
    [] node.type = "VAR_DECL" ->
         LET e == IF node.kids = << >> THEN Yields(it, Nic) ELSE interpreter_eval(it, node.kids[1])
         IN  Yields(env_define(e.it, node.s, e.v), Nic)
    [] node.type = "ASSIGN" ->
         LET e == interpreter_eval(it, node.kids[1]) IN Yields(env_set(e.it, node.s, e.v), e.v)
    [] node.type = "BINARY" ->
         LET l == interpreter_eval(it, node.kids[1])
             r == interpreter_eval(l.it, node.kids[2])
         IN  BinaryOp(r.it, node.s, l.v, r.v)
    [] node.type = "UNARY" ->
         LET e == interpreter_eval(it, node.kids[1]) IN UnaryOp(e.it, node.s, e.v)
    [] node.type = "PRINT" -> Yields([PrintArgs(it, node.kids) EXCEPT !.out = Append(@, Value("newline", 0))], Nic)
    [] node.type = "IF" ->
         LET c == Cond(it, node.kids[1])
         IN  CASE c.true -> interpreter_eval(c.it, node.kids[2])
               [] ~c.true /\ Len(node.kids) > 2 -> interpreter_eval(c.it, node.kids[3])
               [] OTHER -> Yields(c.it, Nic)
    [] node.type = "WHILE" -> Yields(While(it, node, MaxLoop), Nic)
    [] node.type = "RETURN" ->
         LET e == IF node.kids = << >> THEN Yields(it, Nic) ELSE interpreter_eval(it, node.kids[1])
         IN  Yields([e.it EXCEPT !.return_value = e.v, !.ret = TRUE], Nic)
    [] node.type = "BREAK" -> Yields([it EXCEPT !.brk = TRUE], Nic)
    [] node.type = "CONTINUE" -> Yields([it EXCEPT !.cont = TRUE], Nic)
    [] node.type = "BLOCK" -> Yields(Sequence(it, node.kids), Nic)
    [] OTHER -> Yields(it, Nic)

\* AST_PROGRAM: flags do not end a program.
Program(it, node) == FoldLeft(LAMBDA i, kid : interpreter_eval(i, kid).it, it, node.kids)

\* env_free and interpreter_free
interpreter_free(it) ==
  LET e == FoldLeft(LAMBDA i, b : value_free(i, b.val), it, it.env)
  IN  value_free(e, it.return_value)
=============================================================================
