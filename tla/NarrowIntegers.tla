--------------------------- MODULE NarrowIntegers ---------------------------
(* The integers of a program as the backend keeps them.  QBE has two register*)
(* classes, `w' and `l'; an integer narrower than `w' lives in one with its  *)
(* high bits extended by its own sign, and every instruction that may leave  *)
(* other bits there must restore them.  The module follows one value, the    *)
(* top of the stack, through conversions, operators, comparisons, fields and *)
(* calls: `reg' is what its register holds, `val' what the language says it  *)
(* is.  The lowering keeps a type of its own for it, `lowered', from which   *)
(* the backend chooses its instructions: a literal that the checker lets     *)
(* pass for a usize or an isize remains an i64 there.  The widths are        *)
(* parameters; those of the compiler are 8 and 16 below a word of 32 and a   *)
(* long of 64.  Floats are not modelled.                                     *)
EXTENDS Integers, Bitwise

CONSTANTS
  SubWords,   \* the widths below a word
  Word, Long, \* bits of the classes w and l
  Near,       \* bound: operands lie this near zero or an end of their type
  Forms       \* what the code does not look through: {"notOfSize",
              \* "literalFirst", "narrowExtern"} admits `not' of a usize or an
              \* isize, a usize that is lowered as the literal it comes from,
              \* and a C function that returns less than a word

VARIABLES
  type,    \* of the top of the stack, to the checker
  lowered, \* its type in the lowering
  reg,     \* the contents of its register, as a natural number
  val      \* the value it stands for
cell == <<type, lowered, reg, val>>
-----------------------------------------------------------------------------
\* A `usize' is a type of its own with the width of a long; `bool' is an enum
\* without payloads, which is its tag.
Width(bits, signed) == [kind |-> "int", bits |-> bits, signed |-> signed]
SizeTypes == {[kind |-> "size", bits |-> Long, signed |-> s] : s \in BOOLEAN}
Bool == [kind |-> "bool", bits |-> 1, signed |-> FALSE]
IntTypes == {Width(b, s) : b \in SubWords \cup {Word, Long}, s \in BOOLEAN} \cup SizeTypes
Usize == [kind |-> "size", bits |-> Long, signed |-> FALSE]
U32 == Width(Word, FALSE)
I64 == Width(Long, TRUE)

\* What a type can hold, and what it makes of any integer.
Least(t) == IF t.signed THEN -(2^(t.bits - 1)) ELSE 0
Greatest(t) == Least(t) + 2^t.bits - 1
Wrap(t, n) == Least(t) + ((n - Least(t)) % 2^t.bits)
Operands(t) == {n \in Least(t)..Greatest(t) : \/ n \in -Near..Near \/ n < Least(t) + Near \/ n > Greatest(t) - Near}

Class(t) == IF t.bits > Word THEN Long ELSE Word    \* `width'
SubWord(t) == t.kind = "int" /\ t.bits < Word       \* `sub_word'

\* The contents a register should have: the value in two's complement, at the
\* width of the register.
Held(t, n) == n % 2^Class(t)
-----------------------------------------------------------------------------
(* The instructions of QBE.  Arguments are read at the class of the result.  *)
Extend(x, bits, signed, class) ==  \* extsb, extub, extsh, ...
  LET low == x % 2^bits
  IN IF signed /\ low >= 2^(bits - 1) THEN low + 2^class - 2^bits ELSE low
AsSigned(x, class) == IF x >= 2^(class - 1) THEN x - 2^class ELSE x
Magnitude(n) == IF n < 0 THEN -n ELSE n
TruncatedRem(a, b) == IF a < 0 THEN -(Magnitude(a) % Magnitude(b)) ELSE a % Magnitude(b)

Instruction(m, class, a, b) ==
  LET x == a % 2^class
      y == b % 2^class
  IN CASE m = "add" -> (x + y) % 2^class
       [] m = "sub" -> (x - y) % 2^class
       [] m = "mul" -> (x * y) % 2^class
       [] m = "rem" -> TruncatedRem(AsSigned(x, class), AsSigned(y, class)) % 2^class
       [] m = "urem" -> x % y
       [] m = "and" -> x & y
       [] m = "or" -> x | y
       [] m = "xor" -> x ^^ y
       [] m = "shl" -> (x * 2^(b % class)) % 2^class
       [] m = "shr" -> x \div 2^(b % class)
       [] m = "sar" -> (AsSigned(x, class) \div 2^(b % class)) % 2^class

Compared(m, signed, class, x, y) ==
  LET a == IF signed THEN AsSigned(x, class) ELSE x
      b == IF signed THEN AsSigned(y, class) ELSE y
  IN CASE m = "ueq" -> a = b   [] m = "une" -> a # b
       [] m = "ult" -> a < b   [] m = "ugt" -> a > b
       [] m = "ulte" -> a <= b [] m = "ugte" -> a >= b
-----------------------------------------------------------------------------
\* `emit_canonicalize' where the type needs it.
Canonical(t, x) == IF SubWord(t) THEN Extend(x, t.bits, t.signed, Class(t)) ELSE x

\* `emit_conv_int': a wider target takes the source's sign, then its own form.
ConvertedAsIs(src, dst, x) ==
  IF dst.bits > src.bits THEN Extend(x, src.bits, src.signed, Class(dst)) ELSE Canonical(dst, x % 2^Class(dst))
Converted(src, dst, x) ==
  IF dst.bits > src.bits
  THEN Canonical(dst, Extend(x, src.bits, src.signed, Class(dst)))
  ELSE Canonical(dst, x % 2^Class(dst))

\* `Instr::Bin'.  The remainder looks at the sign, usize counted with the
\* unsigned types (`norm_scalar').
Mnemonic(op, t) ==
  CASE op = "mod" -> (IF t.signed THEN "rem" ELSE "urem")
    [] op = "shr" -> (IF t.signed THEN "sar" ELSE "shr")
    [] OTHER -> op
Bin(op, t, x, y) == Canonical(t, Instruction(Mnemonic(op, t), Class(t), x, y))

\* The count is taken modulo the type's width below a word, and by the
\* machine modulo the register's otherwise.
Count(t, count) == IF SubWord(t) THEN count & (t.bits - 1) ELSE count

\* The constant `not' is an exclusive or with.
NotMask(t) == IF t.kind = "int" THEN -1 ELSE 1
-----------------------------------------------------------------------------
(* The handlers: what the checker admits, what the lowering emits, and the   *)
(* value that the language gives the term.                                   *)

\* `>T'
Convert(t) ==
  /\ type \in IntTypes
  /\ type' = t /\ lowered' = t
  /\ val' = Wrap(t, val)
  /\ reg' = Converted(lowered, t, reg)

\* Where the lowering has a literal, an i64, for a usize.
Admitted(t, as) == t = Usize /\ as # Usize => "literalFirst" \in Forms

\* The operands that `unify_pair' brings together with the value: one of the
\* same type, and beside a usize or an isize a bare literal, on either side.
\* The left one comes first.
Operand(as, n) == [as |-> as, reg |-> Held(as, n), val |-> Wrap(type, n)]
Others == {Operand(type, n) : n \in Operands(type)}
            \cup {Operand(I64, n) : n \in IF type \in SizeTypes THEN Operands(I64) ELSE {}}
Pairs ==
  LET here == [as |-> lowered, reg |-> reg, val |-> val]
  IN {p \in UNION {{<<here, o>>, <<o, here>>} : o \in Others} : Admitted(type, p[1].as)}

BitwiseOf(op, a, b) ==
  LET x == a % 2^type.bits
      y == b % 2^type.bits
  IN CASE op = "and" -> x & y [] op = "or" -> x | y [] op = "xor" -> x ^^ y

\* The result has the lowered type of the left operand.  The machine stops at
\* a remainder by zero, and at that of the least word or long by -1.
Traps(a, b) ==
  \/ b.val = 0
  \/ a.as.signed /\ ~SubWord(a.as) /\ a.reg = Held(a.as, Least(a.as)) /\ b.reg = Held(a.as, -1)
Arithmetic(op, a, b) ==
  /\ type \in IntTypes
  /\ op = "mod" => ~Traps(a, b)
  /\ val' = Wrap(type, CASE op = "add" -> a.val + b.val [] op = "sub" -> a.val - b.val
                         [] op = "mul" -> a.val * b.val [] op = "mod" -> TruncatedRem(a.val, b.val))
  /\ reg' = Bin(op, a.as, a.reg, b.reg)
  /\ lowered' = a.as
  /\ UNCHANGED type

Logic(op, a, b) ==
  /\ type \in IntTypes \cup {Bool}
  /\ val' = Wrap(type, BitwiseOf(op, a.val, b.val))
  /\ reg' = Bin(op, a.as, a.reg, b.reg)
  /\ lowered' = a.as
  /\ UNCHANGED type

Complement ==
  /\ lowered \in SizeTypes => "notOfSize" \in Forms
  /\ val' = IF type = Bool THEN 1 - val ELSE Wrap(type, -1 - val)
  /\ reg' = Bin("xor", lowered, reg, NotMask(lowered) % 2^Class(lowered))
  /\ UNCHANGED <<type, lowered>>

\* The count is an i64 whatever the type shifted.
Shift(op, n) ==
  /\ type \in IntTypes
  /\ LET by == n % type.bits
     IN val' = Wrap(type, IF op = "shl" THEN val * 2^by ELSE val \div 2^by)
  /\ reg' = Bin(op, lowered, reg, Count(lowered, Held(I64, n)))
  /\ UNCHANGED <<type, lowered>>

\* A comparison reads the registers of its operands as they are, signed if
\* the left one is; so does the selection of the larger.
ComparedIn(m, a, b) == Compared(m, a.as.signed, Class(a.as), a.reg, b.reg)
Compare(m, a, b) ==
  /\ type \in IntTypes
  /\ type' = U32 /\ lowered' = U32
  /\ val' = IF Compared(m, FALSE, Long, a.val, b.val) THEN 1 ELSE 0
  /\ reg' = IF ComparedIn(m, a, b) THEN 1 ELSE 0

Max(a, b) ==
  /\ type \in IntTypes
  /\ val' = IF a.val > b.val THEN a.val ELSE b.val
  /\ reg' = IF ComparedIn("ugt", a, b) THEN a.reg ELSE b.reg
  /\ lowered' = a.as
  /\ UNCHANGED type

\* A spliced word takes the literal as the size type it declares
\* (`LiteralSizeType'), and the lowering what is on its stack.
TakeLiteral(t, n) ==
  /\ Admitted(t, I64)
  /\ type' = t /\ lowered' = I64
  /\ val' = Wrap(t, n)
  /\ reg' = Held(I64, n)

\* Into a field of its width and out again.
Stored(t) == IF t.kind = "bool" THEN CHOOSE b \in SubWords : \A c \in SubWords : b <= c ELSE t.bits
ThroughField ==
  /\ reg' = Extend(reg % 2^Stored(type), Stored(type), type.signed, Class(type))
  /\ lowered' = type
  /\ UNCHANGED <<type, val>>

\* The result of a C function is taken as it is.  The C ABI does not say what
\* lies above the width of the type in its register.
CallExtern(t, n) ==
  /\ SubWord(t) => "narrowExtern" \in Forms
  /\ type' = t /\ lowered' = t /\ val' = n
  /\ reg' \in IF SubWord(t) THEN {x \in 0..2^Word - 1 : x % 2^t.bits = n % 2^t.bits} ELSE {Held(t, n)}
-----------------------------------------------------------------------------
\* A literal is an i64; what it is converted to is the rest of the program.
IntegerInit == /\ type \in {I64, Bool}
               /\ lowered = type
               /\ val \in Least(type)..Greatest(type)
               /\ reg = Held(type, val)

IntegerNext ==
  \/ \E t \in IntTypes : Convert(t)
  \/ \E p \in Pairs :
       \/ \E op \in {"add", "sub", "mul", "mod"} : Arithmetic(op, p[1], p[2])
       \/ \E op \in {"and", "or", "xor"} : Logic(op, p[1], p[2])
       \/ \E m \in {"ueq", "une", "ult", "ugt", "ulte", "ugte"} : Compare(m, p[1], p[2])
       \/ Max(p[1], p[2])
  \/ Complement
  \/ \E n \in Operands(I64), op \in {"shl", "shr"} : Shift(op, n)
  \/ \E t \in SizeTypes, n \in Operands(I64) : TakeLiteral(t, n)
  \/ ThroughField
  \/ \E t \in IntTypes : \E n \in Operands(t) : CallExtern(t, n)

\* The register always holds the value that the language gives the term, in
\* the form of its type: what a comparison or a conversion then reads.  (The
\* one point that canonicalises, qbe.rs 562-567, and every instruction that
\* must reach it.)
RegisterHoldsValue == reg = Held(type, val)
=============================================================================
