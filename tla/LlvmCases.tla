------------------------------ MODULE LlvmCases ------------------------------
(***************************************************************************)
(* The LLVM function that LLVMCodeGen generates for an SPPL function.  The *)
(* visits share one builder: the basic blocks made so far, the block the   *)
(* next instruction goes to, CurVal, CurPatBlock, NextBlock, IdVals.  The  *)
(* visit of a pattern may leave the builder in another block than it found *)
(* it in; whoever goes on has to build on from there.                      *)
(*                                                                         *)
(* Instructions are [reg, op, xs], numbered in the order they are made;    *)
(* a getelementptr and its load are one.  Lists and tuples never change    *)
(* once built and are sequences, the null pointer being the empty one;     *)
(* truth values are integers, as in the generated code.  The conversions   *)
(* around main and by "to", what "print" writes, "do" blocks and the calls *)
(* of other functions are left out.                                        *)
(***************************************************************************)
EXTENDS CaseSemantics, SequencesExt

LOCAL INSTANCE Bitwise

CONSTANT Calls      \* what is called: for each family and index a set of pairs of
                    \* a function (its cases) and arguments

VARIABLES b,        \* the builder, while and after the function is generated
          pc, k,    \* "visit", "run" or "end"; the case that is visited next
          block, pos, regs, from,   \* where the function is, its registers, the block it came from
          entry             \* the arguments of the call that runs

vars == <<cases, args, outcome, b, pc, k, block, pos, regs, from, entry>>

---------------------------------------------------------------------------
(* The builder. *)

Const(v) == [k |-> "const", v |-> v]
Arg(i) == [k |-> "arg", v |-> i]
Reg(n) == [k |-> "reg", v |-> n]
Nullptr == [k |-> "no value", v |-> 0]
IsNull(x) == x.k = "no value"

Entry == 1
ErrBlock == 2
RetBlock == 3

Put(bb, at, op, xs) ==
    [bb EXCEPT !.blocks[at] = Append(@, [reg |-> bb.made, op |-> op, xs |-> xs]),
               !.made = @ + 1,
               !.crashed = @ \/ \E i \in DOMAIN xs : IsNull(xs[i])]
\* An instruction that computes a value, which becomes CurVal.
Emit(bb, op, xs) == [Put(bb, bb.at, op, xs) EXCEPT !.val = Reg(bb.made)]
Br(bb, target) == Put(bb, bb.at, "br", <<Const(target)>>)
CondBr(bb, target) == Put(bb, bb.at, "condbr", <<bb.val, Const(target), Const(bb.next)>>)

\* BasicBlock::Create; the block is the last one of the result.
NewBlock(bb) == [bb EXCEPT !.blocks = Append(@, <<>>)]
Newest(bb) == Len(bb.blocks)
SetInsertPoint(bb, at) == [bb EXCEPT !.at = at]
\* Go on in a block: if CurVal is true, the next case being tried if it is
\* not, or in any case.
EnterIf(bb, at) == SetInsertPoint(CondBr(bb, at), at)
Enter(bb, at) == SetInsertPoint(Br(bb, at), at)
GoOnIf(bb) == EnterIf(NewBlock(bb), Newest(bb) + 1)
\* The block where CurPatBlock is from now on.
HereIsPatBlock(bb) == [bb EXCEPT !.patBlock = bb.at]

---------------------------------------------------------------------------
(* Patterns. *)

VisitLiteral(p, bb) ==
    Emit(bb, "eq", <<Const(p.val), bb.val>>)

VisitIdPattern(p, bb) == [bb EXCEPT !.ids = (p.id :> bb.val) @@ @, !.val = Const(1)]

RECURSIVE Visit(_, _), TupleFrom(_, _, _, _), ListFrom(_, _, _, _, _)

\* The elements of a tuple from the i-th on, each in a block of its own.
TupleFrom(ps, i, tuple, bb) ==
    LET b1 == Visit(ps[i], Emit(bb, "item", <<tuple, Const(i)>>))
    IN IF i = Len(ps) THEN [b1 EXCEPT !.patBlock = bb.at]
       ELSE TupleFrom(ps, i + 1, tuple, GoOnIf(b1))
VisitTuplePattern(p, bb) ==
    TupleFrom(p.kids, 1, bb.val, Enter(NewBlock(bb), Newest(bb) + 1))

\* The elements of a list from the i-th on: the builder is in the block that
\* tests for the end of the list, at is the one that looks at the element.
NextElement(list, at, bb) == Emit(EnterIf(bb, at), "next", <<list>>)
ListFrom(ps, i, list, at, bb) ==
    LET test == Emit(bb, "ne", <<list, Const(<<>>)>>)
        b1 == Visit(ps[i], Emit(EnterIf(test, at), "data", <<list>>))
        Final(b2) == Emit(b2, "eq", <<b2.val, Const(<<>>)>>)
        Further(b2) == ListFrom(ps, i + 1, b2.val, Newest(b2), b2)
    IN IF i = Len(ps) THEN Final(Emit(GoOnIf(b1), "next", <<list>>))
       ELSE Further(NextElement(list, Newest(b1) + 1, NewBlock(NewBlock(b1))))
VisitListPattern(ps, bb) ==
    IF ps = <<>> THEN Emit(bb, "eq", <<bb.val, Const(<<>>)>>)
    ELSE ListFrom(ps, 1, bb.val, Newest(bb) + 2, Enter(NewBlock(NewBlock(bb)), Newest(bb) + 1))

\* A string pattern is visited as the list of its characters.
VisitStringPattern(p, bb) ==
    VisitListPattern([i \in DOMAIN p.val |-> [op |-> "CharPattern", val |-> p.val[i]]], bb)

\* Mutant: the test of the head goes to the block its visit began in.
VisitListSplit_OldBlock(p, bb) ==
    LET list == bb.val
        Split(b1) == Visit(p.kids[1], Emit(b1, "data", <<list>>))
        b2 == HereIsPatBlock(GoOnIf(Emit(bb, "ne", <<list, Const(<<>>)>>)))
        b3 == HereIsPatBlock(GoOnIf(SetInsertPoint(Split(b2), b2.at)))
    IN Visit(p.kids[2], Emit(b3, "next", <<list>>))

VisitListSplit(p, bb) ==
    LET list == bb.val
        Split(b1) == Visit(p.kids[1], Emit(b1, "data", <<list>>))
        b2 == HereIsPatBlock(GoOnIf(Emit(bb, "ne", <<list, Const(<<>>)>>)))
        b3 == HereIsPatBlock(GoOnIf(Split(b2)))
    IN Visit(p.kids[2], Emit(b3, "next", <<list>>))

Visit(p, bb) ==
    CASE p.op \in {"IntPattern", "BoolPattern", "CharPattern"} -> VisitLiteral(p, bb)
      [] p.op = "FloatPattern" -> Emit(bb, "ne", <<Const(p.val), bb.val>>)
      [] p.op = "IdPattern" -> VisitIdPattern(p, bb)
      [] p.op = "WildPattern" -> [bb EXCEPT !.val = Const(1)]
      [] p.op = "ParPattern" -> Visit(p.kids[1], bb)
      [] p.op = "TuplePattern" -> VisitTuplePattern(p, bb)
      [] p.op = "StringPattern" -> VisitStringPattern(p, bb)
      [] p.op = "ListPattern" -> VisitListPattern(p.kids, bb)
      [] p.op = "ListSplit" -> VisitListSplit(p, bb)

---------------------------------------------------------------------------
(* Expressions. *)

\* Expression.Const, as the constructors compute it.
RECURSIVE IsConst(_)
IsConst(e) == e.op # "IdExpr" /\ \A i \in DOMAIN e.kids : IsConst(e.kids[i])

Instruction ==
    "Add" :> "add" @@ "Sub" :> "sub" @@ "Mul" :> "mul" @@ "Div" :> "sdiv" @@ "Mod" :> "srem"
        @@ "And" :> "and" @@ "Or" :> "or"
        @@ "Equal" :> "eq" @@ "NotEqual" :> "ne" @@ "Lesser" :> "slt" @@ "Greater" :> "sgt"
        @@ "LesserEq" :> "sle" @@ "GreaterEq" :> "sge"

RECURSIVE Expr(_, _), Nodes(_, _, _)

\* == and != compare what a register holds: of a list or tuple, its address.
IsPointer(e) == e.ty \in {"LIST", "STRING", "TUPLE"}
VisitBinaryOp(e, bb) ==
    LET b1 == Expr(e.kids[1], bb)
        b2 == Expr(e.kids[2], b1)
    IN Emit(b2, CASE e.op = "Equal" /\ IsPointer(e.kids[1]) -> "eq pointer"
                  [] e.op = "NotEqual" /\ IsPointer(e.kids[1]) -> "ne pointer"
                  [] OTHER -> Instruction[e.op], <<b1.val, b2.val>>)

\* createListNode: a missing next node stands for the end of the list.
CreateListNode(data, next, bb) ==
    Emit(bb, "node", <<data, IF IsNull(next) THEN Const(<<>>) ELSE next>>)

\* What a list or string literal ends in, and the flag that said so.
ListEnd(bb) == IF bb.concat THEN bb.val ELSE Nullptr
Nodes(es, next, bb) ==
    IF es = <<>> THEN [bb EXCEPT !.val = next]
    ELSE LET b1 == Expr(Last(es), bb)
             b2 == CreateListNode(b1.val, next, b1)
         IN Nodes(Front(es), b2.val, b2)
VisitListExpr(e, bb) ==
    LET b1 == Nodes(e.kids, ListEnd(bb), [bb EXCEPT !.concat = FALSE])
    IN IF IsNull(b1.val) THEN [b1 EXCEPT !.val = Const(<<>>)] ELSE b1

\* The same for a string, but that nothing stands for the empty one.
VisitStringExpr(e, bb) ==
    Nodes([i \in DOMAIN e.val |-> [op |-> "CharExpr", val |-> e.val[i], kids |-> <<>>]], ListEnd(bb),
          [bb EXCEPT !.concat = FALSE])

\* A constant one is data; else it is allocated in the block of the case and
\* filled where the builder is.
RECURSIVE Fill(_, _, _, _)
Fill(es, i, tuple, bb) ==
    IF i > Len(es) THEN [bb EXCEPT !.val = tuple]
    ELSE LET b1 == Expr(es[i], bb)
         IN Fill(es, i + 1, tuple, Put(b1, b1.at, "store", <<tuple, Const(i), b1.val>>))
VisitTupleExpr(e, bb) ==
    LET malloc == Put(bb, IF IsConst(e) THEN bb.at ELSE bb.caseBlock, "malloc", <<Const(Len(e.kids))>>)
    IN Fill(e.kids, 1, Reg(bb.made), malloc)

VisitListAdd(e, bb) ==
    LET b1 == Expr(e.kids[1], bb)
        b2 == Expr(e.kids[2], b1)
    IN CreateListNode(b1.val, b2.val, b2)

\* Constant lists are made as one: the left one ends in the right one.
VisitConcat(e, bb) ==
    LET right == Expr(e.kids[2], bb)
        left == Expr(e.kids[1], right)
    IN IF IsConst(e) THEN Expr(e.kids[1], [right EXCEPT !.concat = TRUE])
       ELSE Emit(left, "call _concat_list", <<left.val, right.val>>)

Expr(e, bb) ==
    CASE e.op \in DOMAIN Instruction -> VisitBinaryOp(e, bb)
      [] e.op \in {"IntExpr", "FloatExpr", "CharExpr"} -> [bb EXCEPT !.val = Const(e.val)]
      [] e.op = "BoolExpr" -> [bb EXCEPT !.val = Const(IF e.val THEN 1 ELSE 0)]
      [] e.op = "StringExpr" -> VisitStringExpr(e, bb)
      [] e.op = "IdExpr" -> [bb EXCEPT !.val = bb.ids[e.id]]
      [] e.op \in {"ParExpr", "UnPrint"} -> Expr(e.kids[1], bb)
      [] e.op = "TupleExpr" -> VisitTupleExpr(e, bb)
      [] e.op = "ListExpr" -> VisitListExpr(e, bb)
      [] e.op = "ListAdd" -> VisitListAdd(e, bb)
      [] e.op = "Concat" -> VisitConcat(e, bb)
      [] e.op \in {"Negative", "Not"} -> LET b1 == Expr(e.kids[1], bb) IN Emit(b1, e.op, <<b1.val>>)

\* A call of the function itself: its arguments, in order.
RECURSIVE VisitCall(_, _, _)
VisitCall(es, xs, bb) ==
    IF es = <<>> THEN Emit(bb, "call", xs)
    ELSE LET b1 == Expr(Head(es), bb) IN VisitCall(Tail(es), Append(xs, b1.val), b1)

---------------------------------------------------------------------------
(* Functions and cases. *)

\* The patterns of a case from the i-th on, each with its argument.
RECURSIVE PatternsFrom(_, _, _)
PatternsFrom(ps, i, bb) ==
    LET b1 == Visit(ps[i], [SetInsertPoint(bb, bb.patBlock) EXCEPT !.val = Arg(i)])
    IN IF i = Len(ps) THEN b1 ELSE PatternsFrom(ps, i + 1, HereIsPatBlock(GoOnIf(b1)))

\* The first case that has patterns is reached from the entry block; one
\* whose patterns match, and whose condition holds, goes on in its own block.
VisitWhen(cs, bb) == IF cs.when = <<>> THEN bb ELSE Expr(cs.when[1], GoOnIf(bb))
EnterFirst(bb) == IF bb.first THEN [Br(bb, bb.patBlock) EXCEPT !.first = FALSE] ELSE bb
VisitPatterns(cs, bb) ==
    CondBr(VisitWhen(cs, PatternsFrom(cs.pats, 1, EnterFirst(bb))), bb.caseBlock)

\* The case has a block for its expression, whose value the ret block gets.
OwnBlock(bb) == SetInsertPoint([NewBlock(bb) EXCEPT !.caseBlock = Newest(bb) + 1, !.ids = <<>>], Entry)
GoToRet(bb) ==
    Br([bb EXCEPT !.phi = (bb.caseBlock :> [val |-> bb.val, case |-> k]) @@ @,
                  !.crashed = @ \/ IsNull(bb.val)], RetBlock)
VisitExpr(cs, bb) == IF cs.tail THEN VisitCall(cs.expr, <<>>, bb) ELSE Expr(cs.expr[1], bb)
VisitCaseIn(cs, bb) ==
    GoToRet(VisitExpr(cs, SetInsertPoint(
        IF cs.pats = <<>> THEN Br(bb, bb.caseBlock) ELSE VisitPatterns(cs, bb), bb.caseBlock)))
VisitCase(cs, bb) == VisitCaseIn(cs, OwnBlock(bb))

\* The blocks there are before the cases: entry, error, ret and, if there
\* are patterns, the one the first of them is tried in.
NewFunction ==
    [blocks |-> <<<<>>, <<[reg |-> 1, op |-> "ret undef", xs |-> <<>>]>>, <<[reg |-> 2, op |-> "ret phi", xs |-> <<>>]>>>>
                  \o IF cases[1].pats = <<>> THEN <<>> ELSE <<<<>>>>,
     at |-> Entry, made |-> 3, val |-> Nullptr, patBlock |-> 4, next |-> ErrBlock, caseBlock |-> Entry,
     first |-> cases[1].pats # <<>>, concat |-> FALSE, crashed |-> FALSE, ids |-> <<>>, phi |-> <<>>]

LlvmInit ==
    /\ Init
    /\ \E family \in DOMAIN Calls : \E i \in DOMAIN Calls[family] :
          \E call \in Calls[family][i] : cases = call[1] /\ args = call[2]
    /\ b = NewFunction
    /\ pc = "visit" /\ k = 1
    /\ block = Entry /\ pos = 1 /\ regs = <<>> /\ from = Entry
    /\ entry = args

\* Only the first case is visited if it has no patterns.
LastCase == IF cases[1].pats = <<>> THEN 1 ELSE Len(cases)

\* Where a case that does not match goes on: with the next one, or the error.
WithNextBlock(bb) == IF k < LastCase THEN [NewBlock(bb) EXCEPT !.next = Newest(bb) + 1]
                     ELSE [bb EXCEPT !.next = ErrBlock]
NextPatBlock(bb) == [bb EXCEPT !.patBlock = bb.next]

VisitNextCase ==
    /\ pc = "visit" /\ k <= LastCase /\ ~b.crashed
    /\ b' = NextPatBlock(VisitCase(cases[k], WithNextBlock(b)))
    /\ k' = k + 1
    /\ UNCHANGED <<cases, args, outcome, pc, block, pos, regs, from, entry>>

Terminators == {"br", "condbr", "ret undef", "ret phi"}

\* What verifyFunction asks of the blocks.
Verified == \A i \in DOMAIN b.blocks :
    /\ b.blocks[i] # <<>>
    /\ \A j \in DOMAIN b.blocks[i] : b.blocks[i][j].op \in Terminators <=> j = Len(b.blocks[i])

End(kind) == pc' = "end" /\ outcome' = [kind |-> kind]

Verify ==
    /\ pc = "visit" /\ (k > LastCase \/ b.crashed)
    /\ IF b.crashed THEN End("crashed") ELSE IF Verified THEN pc' = "run" /\ UNCHANGED outcome ELSE End("rejected")
    /\ UNCHANGED <<cases, args, b, k, block, pos, regs, from, entry>>

---------------------------------------------------------------------------
(* The function, run on one call. *)

Doing == b.blocks[block][pos]
Operand(x) == CASE x.k = "const" -> x.v
                [] x.k = "arg" -> entry[x.v]
                [] x.k = "reg" -> regs[x.v]
Defined(x) == x.k = "reg" => x.v \in DOMAIN regs
Bit(condition) == IF condition THEN 1 ELSE 0
\* A register that is not written yet is one verifyFunction would refuse to
\* see used: no step reads it.
Is(op) == pc = "run" /\ Doing.op \in op /\ \A i \in DOMAIN Doing.xs : Defined(Doing.xs[i])
X(i) == Operand(Doing.xs[i])

\* Bit by bit on the two's complement of both, a negative number being the
\* complement of one that is not.
BitAnd(n, m) ==
    CASE n >= 0 /\ m >= 0 -> n & m
      [] n >= 0 /\ m < 0 -> n - (n & (-1 - m))
      [] n < 0 /\ m >= 0 -> m - (m & (-1 - n))
      [] n < 0 /\ m < 0 -> -1 - ((-1 - n) | (-1 - m))
BitOr(n, m) == -1 - BitAnd(-1 - n, -1 - m)

\* Whether two pointers are equal: two that were made apart are not, though
\* they may point to the same.
SamePointer ==
    IF X(1) # X(2) THEN {FALSE}
    ELSE IF X(1) = <<>> \/ Doing.xs[1] = Doing.xs[2] THEN {TRUE} ELSE BOOLEAN

\* What the instruction may compute.
Results == CASE Doing.op = "eq" -> {Bit(X(1) = X(2))}
             [] Doing.op = "ne" -> {Bit(X(1) # X(2))}
             [] Doing.op = "eq pointer" -> {Bit(same) : same \in SamePointer}
             [] Doing.op = "ne pointer" -> {Bit(~same) : same \in SamePointer}
             [] Doing.op = "slt" -> {Bit(X(1) < X(2))}
             [] Doing.op = "sgt" -> {Bit(X(1) > X(2))}
             [] Doing.op = "sle" -> {Bit(X(1) <= X(2))}
             [] Doing.op = "sge" -> {Bit(X(1) >= X(2))}
             [] Doing.op = "mul" -> {X(1) * X(2)}
             [] Doing.op = "add" -> {X(1) + X(2)}
             [] Doing.op = "sub" -> {X(1) - X(2)}
             [] Doing.op = "sdiv" -> {Quotient(X(1), X(2))}
             [] Doing.op = "srem" -> {Remainder(X(1), X(2))}
             [] Doing.op = "and" -> {BitAnd(X(1), X(2))}
             [] Doing.op = "or" -> {BitOr(X(1), X(2))}
             [] Doing.op = "Negative" -> {-X(1)}
             [] Doing.op = "Not" -> {-1 - X(1)}
             [] Doing.op = "item" -> {X(1)[X(2)]}
             [] Doing.op = "data" -> {Head(X(1))}
             [] Doing.op = "next" -> {Tail(X(1))}
             [] Doing.op = "node" -> {<<X(1)>> \o X(2)}
             [] Doing.op = "call _concat_list" -> {X(1) \o X(2)}
             [] Doing.op = "malloc" -> {[i \in 1..X(1) |-> 0]}

Goto(target) == block' = target /\ pos' = 1 /\ from' = block

Compute ==
    /\ Is({Doing.op} \ (Terminators \cup {"call", "store"}))
    /\ IF Doing.op \in {"data", "next"} /\ X(1) = <<>>
       THEN End("null pointer") /\ UNCHANGED <<pos, regs>>
       ELSE IF Doing.op \in {"sdiv", "srem"} /\ X(2) = 0
       THEN End("division by zero") /\ UNCHANGED <<pos, regs>>
       ELSE /\ \E v \in Results : regs' = (Doing.reg :> v) @@ regs
            /\ pos' = pos + 1
            /\ UNCHANGED <<pc, outcome>>
    /\ UNCHANGED <<cases, args, b, k, block, from, entry>>

Store ==
    /\ Is({"store"})
    /\ regs' = [regs EXCEPT ![Doing.xs[1].v][X(2)] = X(3)]
    /\ pos' = pos + 1
    /\ UNCHANGED <<cases, args, outcome, b, pc, k, block, from, entry>>

Branch ==
    /\ Is({"br", "condbr"})
    /\ Goto(IF Doing.op = "br" THEN X(1) ELSE IF X(1) % 2 = 1 THEN X(2) ELSE X(3))
    /\ UNCHANGED <<cases, args, outcome, b, pc, k, regs, entry>>

\* A call that is the last thing the function does takes its frame over.
TailCall ==
    /\ Is({"call"})
    /\ entry' = [i \in DOMAIN Doing.xs |-> X(i)]
    /\ block' = Entry /\ pos' = 1 /\ from' = Entry /\ regs' = <<>>
    /\ UNCHANGED <<cases, args, outcome, b, pc, k>>

\* A truth value is returned as an integer.
SpplValue(v, e) == IF e.ty = "BOOL" THEN v # 0 ELSE v

Return ==
    /\ Is({"ret phi"})
    /\ LET x == b.phi[from].val
       IN /\ Defined(x)
          /\ pc' = "end"
          /\ outcome' = Returned(SpplValue(Operand(x), cases[b.phi[from].case].expr[1]))
    /\ UNCHANGED <<cases, args, b, k, block, pos, regs, from, entry>>

\* The error block returns an undefined value.
ReturnUndef ==
    /\ Is({"ret undef"})
    /\ End("no case")
    /\ UNCHANGED <<cases, args, b, k, block, pos, regs, from, entry>>

Ended == pc = "end" /\ UNCHANGED vars

LlvmNext == \/ VisitNextCase \/ Verify \/ Compute \/ Store \/ Branch \/ TailCall \/ Return
            \/ ReturnUndef \/ Ended

LlvmSpec == LlvmInit /\ [][LlvmNext]_vars

---------------------------------------------------------------------------
\* An expression whose value is the one its operators have: "!" turns all the
\* bits of a truth value over, so that it is one only for what looks at the
\* last bit, and lists and tuples compare as pointers.
RECURSIVE PlainValue(_), PlainTest(_)
PlainValue(e) ==
    /\ e.op # "Not"
    /\ e.op \in {"Equal", "NotEqual"} => ~IsPointer(e.kids[1])
    /\ e.op \in {"Div", "Mod"} => e.kids[2].op = "IntExpr" /\ e.kids[2].val # 0
    /\ \A i \in DOMAIN e.kids : PlainValue(e.kids[i])
\* The condition of a case is looked at by a branch, which takes the last bit.
PlainTest(e) ==
    IF e.op \in {"Not", "And", "Or", "ParExpr"} THEN \A i \in DOMAIN e.kids : PlainTest(e.kids[i])
    ELSE PlainValue(e)

Plain ==
    \A i \in DOMAIN cases :
        /\ \A e \in ToSet(cases[i].when) : PlainTest(e)
        /\ \A e \in ToSet(cases[i].expr) : PlainValue(e)

Meaning == INSTANCE CaseSemantics WITH args <- entry

\* Whatever blocks the visits of nested patterns leave the builder in, the
\* function does what its cases mean; returning undef stands for the report
\* that no case was found (visit(Function), visit(Case), Pattern.cpp).  The
\* functions that are not Plain are run as well, and there the code may do
\* something else.
ImplementsCases ==
    Meaning!Init /\ [][Plain => Meaning!Next]_<<cases, entry, outcome>>
===============================================================================
