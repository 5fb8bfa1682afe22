-------------------------------- MODULE Expr --------------------------------
(***************************************************************************)
(* The evaluator of #if expressions (Preprocessor_expr in                  *)
(* Preprocessor/expr.c): an operator precedence parser with one stack,     *)
(* which is static and keeps the strings of earlier evaluations.           *)
(*                                                                         *)
(* An action reads one token; the end of the input is one too.  Numbers    *)
(* are small, so long does not overflow; identifiers are the number 0.     *)
(* The operators & | ^ << >> are left out: they take the same paths.       *)
(***************************************************************************)
EXTENDS Integers, Sequences, FiniteSets, SequencesExt

CONSTANTS
  Numbers,     \* the numbers that are read
  Texts,       \* the strings that are read, as numbers
  Binary,      \* the binary operators that are read
  Unary,       \* the unary operators that are read, "neg" for the minus sign
  MaxTokens,   \* bound on the length of an expression
  MaxSlots     \* bound on the stack, 256 in the code, which does not check it

\* Low values have higher precedence.
prec == [neg |-> 10, not |-> 10, mul |-> 20, div |-> 20, mod |-> 20, add |-> 30, sub |-> 30,
         eq |-> 80, ne |-> 80, lt |-> 80, gt |-> 80, le |-> 80, ge |-> 80,
         lnot |-> 90, land |-> 100, lor |-> 110]

UnaryOps == {"not", "lnot", "neg"}

ASSUME ExprAssumption ==
  /\ Numbers \subseteq Int
  /\ Texts \subseteq Nat \ {0}
  /\ Unary \subseteq UnaryOps
  /\ Binary \subseteq DOMAIN prec \ UnaryOps
  /\ MaxTokens \in Nat
  /\ MaxSlots \in Nat \ {0}

VARIABLES
  stack,    \* the slots up to sp: op and value of each
  svalue,   \* the string of every slot, also above sp
  status,   \* "reading", or how the evaluation ended
  input,    \* history: the tokens read, without unary plus signs
  odd       \* history: what went wrong in this evaluation, of the two below

evalvars == <<stack, svalue, status, input, odd>>

\* "reduction skipped": an operator was pushed over one that binds as tightly or
\* tighter.  "string of a group": a parenthesised expression lost its string, or got
\* one that the slot of the parenthesis has kept.

Null  == 0    \* no string
Freed == -1   \* a pointer to a string that was deleted
Slots == 1 .. MaxSlots

Slot(o, v) == [op |-> o, value |-> v]
Expected   == <<Slot("TOP", 0)>>

EvalInit ==
  /\ stack = Expected
  /\ svalue = [i \in Slots |-> Null]
  /\ status = "reading"
  /\ input = <<>>
  /\ odd = {}

sp == Len(stack)
Top == stack[sp].op
-----------------------------------------------------------------------------
(* reduce_op, on a state st of the stack.                                   *)

Bool(b) == IF b THEN 1 ELSE 0

\* Division of C truncates.
Quotient(a, b) ==
  LET abs(n) == IF n < 0 THEN -n ELSE n
      q == abs(a) \div abs(b)
  IN  IF (a < 0) = (b < 0) THEN q ELSE -q

Unary1(t, b) == CASE t = "neg"  -> -b
                  [] t = "not"  -> -b - 1
                  [] t = "lnot" -> Bool(b = 0)

Binary2(a, t, b) == CASE t = "mul"  -> a * b
                      [] t = "div"  -> Quotient(a, b)
                      [] t = "mod"  -> a - b * Quotient(a, b)
                      [] t = "add"  -> a + b
                      [] t = "sub"  -> a - b
                      [] t = "eq"   -> Bool(a = b)
                      [] t = "ne"   -> Bool(a # b)
                      [] t = "lt"   -> Bool(a < b)
                      [] t = "gt"   -> Bool(a > b)
                      [] t = "le"   -> Bool(a <= b)
                      [] t = "ge"   -> Bool(a >= b)
                      [] t = "land" -> Bool(a # 0 /\ b # 0)
                      [] t = "lor"  -> Bool(a # 0 \/ b # 0)

\* Mutant: the stack pointer is moved by one too few.
ReducedShort(st, m, v) ==
  [st EXCEPT !.stack = Append(SubSeq(@, 1, m), Slot("VALUE", v)), !.svalue[m] = Null]

\* The m lower slots stay; the last of them becomes value v and is not a string.
Reduced(st, m, v) ==
  [st EXCEPT !.stack = Append(SubSeq(@, 1, m - 1), Slot("VALUE", v)), !.svalue[m] = Null]

reduce_op(st) ==
  LET n == Len(st.stack)
      t == st.stack[n - 1].value
      a == st.stack[n - 2].value
      b == st.stack[n].value
      left  == st.svalue[n - 2]
      right == st.svalue[n]
      fails == [st EXCEPT !.status = "error"]
  IN  IF t \in UnaryOps
      THEN IF right # Null THEN fails ELSE Reduced(st, n - 1, Unary1(t, b))
      ELSE IF n = 2 \/ (left = Null) # (right = Null) THEN fails
      ELSE IF right = Null
      THEN IF t \in {"div", "mod"} /\ b = 0 THEN fails
           ELSE Reduced(st, n - 2, Binary2(a, t, b))
      ELSE IF t \notin {"eq", "ne"} THEN fails
      ELSE IF Freed \in {left, right} THEN [st EXCEPT !.status = "undefined"]
      ELSE Reduced([st EXCEPT !.svalue[n] = Freed], n - 2, Binary2(left, t, right))

\* An operator is below the value on top.
Reducible(st) ==
  /\ st.status = "reading"
  /\ Len(st.stack) > 1
  /\ st.stack[Len(st.stack) - 1].op = "OP"

\* The loops that reduce all operators down to a parenthesis, or to the bottom.
ReduceAll(st) ==
  LET r[n \in 0 .. Len(st.stack)] ==
        IF n = 0 THEN st ELSE IF Reducible(r[n - 1]) THEN reduce_op(r[n - 1]) ELSE r[n - 1]
  IN  r[Len(st.stack)]

State == [stack |-> stack, svalue |-> svalue, status |-> status]

Becomes(st) == stack' = st.stack /\ svalue' = st.svalue /\ status' = st.status

\* Mutant: operators of the same precedence associate to the right.
BindsTighter(st, t) == Reducible(st) /\ prec[st.stack[Len(st.stack) - 1].value] < prec[t]

\* Should the operator below the value on top be reduced before token t is pushed?
Binds(st, t) == Reducible(st) /\ prec[st.stack[Len(st.stack) - 1].value] <= prec[t]
-----------------------------------------------------------------------------
(* The tokens.                                                              *)

Reads(t) ==
  /\ status = "reading"
  /\ Len(input) < MaxTokens
  /\ input' = Append(input, t)

Token(k, v) == [kind |-> k, val |-> v]

\* A number takes the place of TOP, and is not a string.
Number(v) ==
  /\ Top = "TOP"
  /\ Reads(Token("number", v))
  /\ stack' = [stack EXCEPT ![sp] = Slot("VALUE", v)]
  /\ svalue' = [svalue EXCEPT ![sp] = Null]
  /\ UNCHANGED <<status, odd>>

\* A string has value 0; after a sign it has what the slot held, which nothing reads.
String(v) ==
  /\ Top = "TOP"
  /\ Reads(Token("string", v))
  /\ stack' = [stack EXCEPT ![sp] = Slot("VALUE", 0)]
  /\ svalue' = [svalue EXCEPT ![sp] = v]
  /\ UNCHANGED <<status, odd>>

\* A sign or negation: the string of the slot above is cleared, this one's is not.
Prefix(t) ==
  /\ Top = "TOP" /\ sp < MaxSlots
  /\ Reads(Token("unary", t))
  /\ stack' = Append([stack EXCEPT ![sp] = Slot("OP", t)], Slot("TOP", 0))
  /\ svalue' = [svalue EXCEPT ![sp + 1] = Null]
  /\ UNCHANGED <<status, odd>>

LeftParen ==
  /\ Top = "TOP" /\ sp < MaxSlots
  /\ Reads(Token("open", 0))
  /\ stack' = Append([stack EXCEPT ![sp] = Slot("GROUP", 0)], Slot("TOP", 0))
  /\ svalue' = [svalue EXCEPT ![sp + 1] = Null]
  /\ UNCHANGED <<status, odd>>

\* A binary operator: at most one operator is reduced before it is pushed.
Operator(t) ==
  LET st == IF Binds(State, t) THEN reduce_op(State) ELSE State
  IN  /\ Top = "VALUE" /\ Len(st.stack) + 2 <= MaxSlots
      /\ Reads(Token("binary", t))
      /\ Becomes(IF st.status = "reading"
                 THEN [st EXCEPT !.stack = @ \o <<Slot("OP", t), Slot("TOP", 0)>>] ELSE st)
      /\ odd' = IF Binds(st, t) THEN odd \cup {"reduction skipped"} ELSE odd

\* The value of a group moves down to the slot of the parenthesis, its string does not.
RightParen ==
  LET st == ReduceAll(State)
      n == Len(st.stack)
  IN  /\ Top = "VALUE"
      /\ Reads(Token("close", 0))
      /\ IF st.status = "reading" /\ n > 1 /\ st.stack[n - 1].op = "GROUP"
         THEN /\ Becomes([st EXCEPT !.stack = Append(SubSeq(@, 1, n - 2), Slot("VALUE", @[n].value))])
              /\ odd' = IF {st.svalue[n - 1], st.svalue[n]} = {Null} THEN odd
                        ELSE odd \cup {"string of a group"}
         ELSE /\ Becomes(IF st.status = "reading" THEN [st EXCEPT !.status = "error"] ELSE st)
              /\ UNCHANGED odd

\* Any other token, or one in the wrong place.
SyntaxError ==
  /\ Reads(Token("other", 0))
  /\ status' = "error"
  /\ UNCHANGED <<stack, svalue, odd>>

\* The end of the input, where a value or an operator may come: everything is reduced.
End ==
  LET st == ReduceAll(State)
  IN  /\ status = "reading"
      /\ Becomes(IF Top = "TOP" THEN [State EXCEPT !.status = "error"]
                 ELSE IF st.status # "reading" THEN st
                 ELSE IF Len(st.stack) > 1 THEN [st EXCEPT !.status = "error"]
                 ELSE [st EXCEPT !.status = "value"])
      /\ UNCHANGED <<input, odd>>

\* Preprocessor_expr is called again: the strings of the slots stay.
Begin ==
  /\ status \in {"value", "error"}
  /\ stack' = Expected
  /\ status' = "reading"
  /\ input' = <<>>
  /\ odd' = {}
  /\ UNCHANGED svalue

EvalNext ==
  \/ \E v \in Numbers : Number(v)
  \/ \E v \in Texts : String(v)
  \/ \E t \in Unary : Prefix(t)
  \/ \E t \in Binary : Operator(t)
  \/ LeftParen \/ RightParen \/ SyntaxError \/ End \/ Begin

EvalSpec == EvalInit /\ [][EvalNext]_evalvars
-----------------------------------------------------------------------------
\* What may be right above what on the stack.
MayFollow(x, y) ==
  CASE x.op = "VALUE" -> y.op = "OP" /\ y.value \notin UnaryOps
    [] x.op \in {"OP", "GROUP"} -> y.op \in {"TOP", "VALUE", "GROUP"} \/ (y.op = "OP" /\ y.value \in UnaryOps)
    [] x.op = "TOP" -> FALSE

\* The stack alternates between values and binary operators, signs and parentheses
\* before a value apart, and a value or the place of one is on top.  So the
\* assertions of reduce_op hold, and stack[sp - 2], whose op it means to check but
\* does not (expr.c:91 looks at stack[sp] once more), is the left operand.
StackSound ==
  /\ Len(stack) \in Slots
  /\ Top \in {"TOP", "VALUE"}
  /\ stack[1].op # "OP" \/ stack[1].value \in UnaryOps
  /\ \A i \in 1 .. Len(stack) - 1 : MayFollow(stack[i], stack[i + 1])

(* The reference: the value that the precedences give to the tokens.        *)

Int1(n)  == [k |-> "int", v |-> n]
Error    == [k |-> "error", v |-> 0]

Combine(a, t, b) ==
  IF a.k = "error" \/ b.k = "error" \/ a.k # b.k THEN Error
  ELSE IF a.k = "string" THEN IF t \in {"eq", "ne"} THEN Int1(Binary2(a.v, t, b.v)) ELSE Error
  ELSE IF t \in {"div", "mod"} /\ b.v = 0 THEN Error ELSE Int1(Binary2(a.v, t, b.v))

\* The positions from i to j of tokens of kind k that are not inside parentheses.
Outer(i, j, k) ==
  LET at(l, kind) == {m \in i .. l : input[m].kind = kind}
  IN  {l \in i .. j : input[l].kind = k
                      /\ Cardinality(at(l, "open")) = Cardinality(at(l, "close"))}

\* The operator that is applied last is the last of the weakest ones, but a sign or
\* negation applies to all that follows and binds tighter than it.
Meaning ==
  LET P(l) == prec[input[l].val]
      m[i \in 1 .. Len(input), j \in 1 .. Len(input)] ==
        LET signs == Outer(i, j, "unary")
            ops   == Outer(i, j, "binary")
            free  == {l \in ops : ~ \E s \in signs : s < l /\ \A o \in ops : s < o /\ o <= l => P(o) < P(s)}
            main  == Max({l \in free : \A o \in free : P(o) <= P(l)})
        IN  IF free # {} THEN Combine(m[i, main - 1], input[main].val, m[main + 1, j])
            ELSE IF i \in signs
            THEN IF m[i + 1, j].k # "int" THEN Error ELSE Int1(Unary1(input[i].val, m[i + 1, j].v))
            ELSE IF input[i].kind = "open" THEN m[i + 1, j - 1]
            ELSE IF input[i].kind = "string" THEN [k |-> "string", v |-> input[i].val]
            ELSE Int1(input[i].val)
  IN  m[1, Len(input)]

\* The input is an expression.
Complete ==
  /\ input # <<>>
  /\ input[Len(input)].kind \in {"number", "string", "close"}
  /\ Len(input) \in {l \in 1 .. Len(input) :
       Cardinality({i \in 1 .. l : input[i].kind = "open"}) = Cardinality({i \in 1 .. l : input[i].kind = "close"})}

\* Whatever was evaluated before, an expression has the value that the table of
\* precedences (expr.c:38) gives to it, and an error is reported only for a division
\* by zero or a misused string, unless it was odd.
EvaluatesByPrecedence ==
  odd = {} /\ status \in {"value", "error"} /\ Complete =>
    LET r == Meaning
    IN  IF status = "error" THEN r.k = "error"
        ELSE r.k # "error" /\ stack[1].value = IF r.k = "string" THEN 0 ELSE r.v
=============================================================================
