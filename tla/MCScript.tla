------------------------------ MODULE MCScript ------------------------------
(***************************************************************************)
(* Programs for the interpreter: after  zmienna x = 1;  either every nest  *)
(* of two operators, printed, or up to three statements.                   *)
(***************************************************************************)
EXTENDS ScriptRun

I(n) == Node("INT", "", n, << >>)
V(s) == Node("IDENTIFIER", s, 0, << >>)
True == Node("BOOL", "", 1, << >>)
False == Node("BOOL", "", 0, << >>)
Text1 == Leaf("STRING")
Bin(op, a, b) == Tree("BINARY", op, <<a, b>>)
Un(op, a) == Tree("UNARY", op, <<a>>)
Decl(s, e) == Tree("VAR_DECL", s, <<e>>)
Set(s, e) == Tree("ASSIGN", s, <<e>>)
Drukuj(e) == Tree("PRINT", "", e)
Block(ss) == Tree("BLOCK", "", ss)
If(c, ss) == Tree("IF", "", <<c, Block(ss)>>)
Dopoki(c, ss) == Tree("WHILE", "", <<c, Block(ss)>>)
Next1(s) == Set(s, Bin("+", V(s), I(1)))

AllOps == UNION {Ops[k] : k \in 1 .. 4}

Nests ==
  {Bin(o, Bin(q, a, I(2)), b) : o, q \in AllOps, a \in {V("x"), True}, b \in {I(0)}}
    \union {Bin(o, a, Bin(q, b, I(2))) : o, q \in AllOps, a \in {I(3)}, b \in {V("x"), True}}
    \union {Un(o, Bin(q, I(3), Un(u, V("x")))) : o, u \in {"-", "!"}, q \in AllOps}
    \union {Bin(q, Un(o, I(3)), Un(u, I(2))) : o, u \in {"-", "!"}, q \in AllOps}
    \union {Bin(q, a, b) : q \in {"==", "!="}, a, b \in {V("x"), True, False, Leaf("NIC")}}
    \union {Bin(q, V("x"), I(n)) : q \in {"<=", ">="}, n \in 0 .. 2}

Steps ==
  { Decl("y", Bin("+", V("x"), I(2))), Decl("y", Text1), Decl("x", NoNode),
    Set("y", V("x")), Set("y", Text1), Drukuj(<<V("x"), Text1, V("y")>>),
    Tree("IF", "", <<Bin("<", V("x"), I(2)), Block(<<Next1("x")>>), Block(<<Drukuj(<<I(0)>>)>>)>>),
    Dopoki(Bin("<", V("x"), I(3)),
         <<Next1("x"), If(Bin("==", V("x"), I(2)), <<Leaf("CONTINUE")>>), Drukuj(<<V("x")>>)>>),
    Dopoki(True, <<Next1("x"), If(Bin("<", I(2), V("x")), <<Leaf("BREAK")>>), Drukuj(<<V("x")>>)>>),
    Block(<<Next1("x"), Decl("y", V("x"))>>),
    Dopoki(Bin("<", V("x"), I(2)),
         <<Next1("x"), Dopoki(True, <<Drukuj(<<V("y")>>), Leaf("BREAK"), Drukuj(<<I(1)>>)>>),
           Drukuj(<<I(3)>>)>>),
    If(V("y"), <<Drukuj(<<>>)>>), Dopoki(V("y"), <<Set("y", Leaf("NIC"))>>),
    Block(<<Next1("x"), Tree("RETURN", "", <<V("x")>>)>>), Leaf("BREAK"),
    V("x"), Tree("CALL", "", <<V("f"), V("x"), I(1)>>), Bin("*", V("x"), V("y")) }

First == Decl("x", I(1))

MCPrograms ==
  {Tree("PROGRAM", "", <<First, Drukuj(<<e>>)>>) : e \in Nests}
    \union {Tree("PROGRAM", "", <<First>> \o ss) : ss \in BoundedSeq(Steps, 2)}
    \union {Tree("PROGRAM", "", ss) : ss \in BoundedSeq(Steps, 1)}
=============================================================================
