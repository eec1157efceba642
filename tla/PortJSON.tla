-------------------------------- MODULE PortJSON --------------------------------
(***************************************************************************)
(* What a port makes of a JSON value.  The contract is written in terms of *)
(* Python's truth, Python's == (1, 1.0 and true are one value, integers    *)
(* are exact whatever their size) and Python's doubles, which the port in  *)
(* Go rebuilds from big rationals and the one in Rust from digits and the  *)
(* bits of a double.                                                       *)
(*                                                                         *)
(* A number is its literal: the sign, the size in quarters, and whether it *)
(* was written as an integer.  A double has a mantissa of two bits, the   *)
(* first of them hidden, and so few exponents that everything is near: its *)
(* bits are 0..7, the first two below the least normal double, and 8 is    *)
(* infinity.                                                               *)
(***************************************************************************)
EXTENDS Integers, Sequences, FiniteSets

Null          == [is |-> "null"]
Bool(b)       == [is |-> "bool", b |-> b]
Str(s)        == [is |-> "str", s |-> s]
Arr(vs)       == [is |-> "arr", items |-> vs]
Obj(ms)       == [is |-> "obj", members |-> ms]   \* members may repeat a key
Whole(n)      == [is |-> "num", neg |-> n < 0, size |-> IF n < 0 THEN 4 * (-n) ELSE 4 * n, whole |-> TRUE]
Real(neg, size) == [is |-> "num", neg |-> neg, size |-> size, whole |-> FALSE]
MinusZero     == [Whole(0) EXCEPT !.neg = TRUE]

IsNum(v)        == v.is = "num"
IsIntLiteral(v) == IsNum(v) /\ v.whole

(* Reading rounds to the nearest double, and between two to the even one.  *)
Infinite == 8
Size(bits) == IF bits < 2 THEN 2 * bits ELSE (2 + (bits % 2)) * 2 ^ (bits \div 2)
Nearest(size) ==
  LET far(b) == IF Size(b) < size THEN size - Size(b) ELSE Size(b) - size
  IN  CHOOSE b \in 0..Infinite : \A c \in 0..Infinite : far(b) < far(c) \/ b = c \/ (far(b) = far(c) /\ b % 2 = 0)
ToDouble(l) == [neg |-> l.neg, bits |-> Nearest(l.size)]
WithSign(neg, size) == IF neg THEN -size ELSE size

Keys(v)   == {v.members[n][1] : n \in DOMAIN v.members}
Get(v, k) == LET at == {n \in DOMAIN v.members : v.members[n][1] = k}
             IN  v.members[CHOOSE n \in at : \A m \in at : m <= n][2]
---------------------------------------------------------------------------
(* Python: bool(v), float(v) and ==, of values nested once.                *)
FloatOfInt(l) == [neg |-> WithSign(l.neg, l.size) < 0, bits |-> Nearest(l.size)]

Truthy(v) ==
  CASE v.is = "null" -> FALSE
    [] v.is = "bool" -> v.b
    [] v.is = "num"  -> IF v.whole THEN v.size # 0 ELSE ToDouble(v).bits # 0
    [] v.is = "str"  -> v.s # ""
    [] v.is = "arr"  -> v.items # <<>>
    [] v.is = "obj"  -> v.members # <<>>

Numeric(v) == v.is \in {"bool", "num"}

(* The value of a number: an integer's own, or that of the double.         *)
Value(v) ==
  CASE v.is = "bool" -> [inf |-> FALSE, quarters |-> IF v.b THEN 4 ELSE 0]
    [] IsIntLiteral(v) -> [inf |-> FALSE, quarters |-> WithSign(v.neg, v.size)]
    [] OTHER -> LET d == ToDouble(v) IN [inf |-> d.bits = Infinite, quarters |-> WithSign(d.neg, Size(d.bits))]

SameAtom(a, b) == IF Numeric(a) /\ Numeric(b) THEN Value(a) = Value(b) ELSE a = b

PyEqual(a, b) ==
  CASE a.is = "arr" /\ b.is = "arr" ->
         Len(a.items) = Len(b.items) /\ \A n \in DOMAIN a.items : SameAtom(a.items[n], b.items[n])
    [] a.is = "obj" /\ b.is = "obj" -> Keys(a) = Keys(b) /\ \A k \in Keys(a) : SameAtom(Get(a, k), Get(b, k))
    [] OTHER -> SameAtom(a, b)

(* The independent port is in Python; it takes an integer that no double   *)
(* holds (OverflowError) for an infinite one.                              *)
Number(v) == v.is = "num"
Double(v) ==
  IF ~Number(v) THEN [neg |-> FALSE, bits |-> 0]
  ELSE IF ~IsIntLiteral(v) THEN ToDouble(v)
  ELSE IF Nearest(v.size) = Infinite THEN [neg |-> ~(WithSign(v.neg, v.size) > 0), bits |-> Infinite]
  ELSE FloatOfInt(v)
---------------------------------------------------------------------------
(* Go.  A number is compared as a rational, which an infinity has not.     *)
ToFloat(v) == IF v.whole THEN FloatOfInt(v) ELSE ToDouble(v)

GoPresent(v) ==
  \/ v.is = "bool" /\ v.b
  \/ IsIntLiteral(v) /\ WithSign(v.neg, v.size) # 0
  \/ IsNum(v) /\ ~v.whole /\ ToFloat(v).bits # 0
  \/ v.is = "str" /\ v.s # ""
  \/ v.is = "arr" /\ Len(v.items) > 0
  \/ v.is = "obj" /\ Keys(v) # {}

AsPNum(v) ==
  CASE v.is = "bool"   -> [rat |-> <<IF v.b THEN 4 ELSE 0>>, inf |-> 0]
    [] IsIntLiteral(v) -> [rat |-> <<WithSign(v.neg, v.size)>>, inf |-> 0]
    [] OTHER -> LET f == ToFloat(v)
                IN  IF f.bits = Infinite THEN [rat |-> <<>>, inf |-> IF f.neg THEN -1 ELSE 1]
                    ELSE [rat |-> <<WithSign(f.neg, Size(f.bits))>>, inf |-> 0]

GoEqAtom(a, b) ==
  IF Numeric(a)
  THEN Numeric(b) /\ LET x == AsPNum(a)  y == AsPNum(b)
                     IN  IF <<>> \in {x.rat, y.rat} THEN x.rat = y.rat /\ x.inf = y.inf ELSE x.rat = y.rat
  ELSE a.is = b.is /\ a = b

(* A decoded object is a map: the last of a repeated key.                  *)
AsObj(v) == IF v.is = "obj" THEN [k \in Keys(v) |-> Get(v, k)] ELSE [k \in {} |-> Null]
PyEq(a, b) ==
  CASE a.is = "arr" -> /\ b.is = "arr" /\ Len(a.items) = Len(b.items)
                       /\ \A n \in DOMAIN a.items : GoEqAtom(a.items[n], b.items[n])
    [] a.is = "obj" -> LET x == AsObj(a)  y == AsObj(b)
                       IN  /\ b.is = "obj" /\ Cardinality(DOMAIN x) = Cardinality(DOMAIN y)
                           /\ \A k \in DOMAIN x : k \in DOMAIN y /\ GoEqAtom(x[k], y[k])
    [] OTHER -> GoEqAtom(a, b)
---------------------------------------------------------------------------
(* Rust.  An integer is its sign and its digits (of base 4 here), zero has *)
(* no sign; the longer one is larger, or else the first digit that differs.*)
Digits(n) == LET most == CHOOSE d \in 1..6 : n < 4 ^ d /\ (d = 1 \/ 4 ^ (d - 1) <= n)
             IN  [p \in 1..most |-> (n \div 4 ^ (most - p)) % 4]
IntParts(l) == IF l.size = 0 THEN [neg |-> FALSE, digits |-> <<0>>] ELSE [neg |-> l.neg, digits |-> Digits(l.size \div 4)]

DigitsLess(a, b) ==
  \/ Len(a) < Len(b)
  \/ Len(a) = Len(b) /\ \E p \in DOMAIN a : a[p] < b[p] /\ \A q \in 1..(p - 1) : a[q] = b[q]
CmpIntLess(l, m) ==
  LET a == IntParts(l)  b == IntParts(m)
  IN  CASE a.neg # b.neg -> a.neg
        [] a.neg /\ b.neg -> DigitsLess(b.digits, a.digits)
        [] OTHER -> DigitsLess(a.digits, b.digits)

(* The integer a double is, if it is one, from its bits: the mantissa with *)
(* its hidden bit, shifted; one below the least normal double is none or 0.*)
ExactInt(d) ==
  LET exponent == d.bits \div 2
      mantissa == 2 + (d.bits % 2)
      shifted  == IF exponent < 2 THEN mantissa \div 2 ^ (2 - exponent) ELSE mantissa * 2 ^ (exponent - 2)
  IN  IF exponent = 0 THEN [neg |-> FALSE, digits |-> <<0>>] ELSE [neg |-> d.neg, digits |-> Digits(shifted)]
Integral(d) == d.bits # Infinite /\ Size(d.bits) % 4 = 0

NumV(v) ==
  CASE v.is = "bool"   -> [int |-> TRUE, parts |-> [neg |-> FALSE, digits |-> <<IF v.b THEN 1 ELSE 0>>]]
    [] IsIntLiteral(v) -> [int |-> TRUE, parts |-> IntParts(v)]
    [] OTHER           -> [int |-> FALSE, double |-> ToDouble(v)]

NumEq(x, y) ==
  LET mixed(i, f) == Integral(f.double) /\ ExactInt(f.double) = i.parts
  IN  CASE x.int /\ y.int -> x.parts = y.parts
        [] x.int /\ ~y.int -> mixed(x, y)
        [] ~x.int /\ y.int -> mixed(y, x)
        [] OTHER -> x.double.bits = y.double.bits /\ (x.double.bits = 0 \/ x.double.neg = y.double.neg)

RustEqAtom(a, b) ==
  IF Numeric(a) /\ Numeric(b) THEN NumEq(NumV(a), NumV(b))
  ELSE \/ a.is = "null" /\ b.is = "null"
       \/ a.is = "str" /\ b.is = "str" /\ a.s = b.s

RustEq(a, b) ==
  \/ RustEqAtom(a, b)
  \/ /\ a.is = "arr" /\ b.is = "arr" /\ Len(a.items) = Len(b.items)
     /\ \A n \in DOMAIN a.items : RustEqAtom(a.items[n], b.items[n])
  \/ /\ a.is = "obj" /\ b.is = "obj" /\ Cardinality(Keys(a)) = Cardinality(Keys(b))
     /\ \A k \in Keys(a) : k \in Keys(b) /\ RustEqAtom(Get(a, k), Get(b, k))

RustPresent(v) ==
  CASE v.is = "null"   -> FALSE
    [] v.is = "bool"   -> v.b
    [] IsIntLiteral(v) -> IntParts(v).digits # <<0>>
    [] v.is = "num" /\ ~IsIntLiteral(v) -> ToDouble(v).bits # 0
    [] v.is = "str"    -> v.s # ""
    [] v.is = "arr"    -> v.items # <<>>
    [] OTHER           -> v.members # <<>>
---------------------------------------------------------------------------
(* The values compared: integers on both sides of what a double holds      *)
(* exactly and of what it holds at all, fractions that round to them, to   *)
(* zero and to infinity, and containers of a few.                          *)
Numbers == {Whole(n) : n \in -10..10} \cup {MinusZero}
           \cup {Real(neg, size) : neg \in BOOLEAN, size \in {0, 1, 2, 3, 4, 5, 8, 16, 20, 24, 28, 32, 40}}
Members == {Null, Bool(TRUE), Whole(1), Real(FALSE, 4), Str("a")}
Values  == {Null, Bool(TRUE), Bool(FALSE), Str(""), Str("a")} \cup Numbers
           \cup {Arr(vs) : vs \in UNION {[1..n -> Members] : n \in 0..2}}
           \cup {Obj(ms) : ms \in UNION {[1..n -> {"k", "l"} \X {Bool(TRUE), Real(FALSE, 4), Str("a")}] : n \in 0..2}}

(* Every port reads a value as Python does: the same values are equal,     *)
(* present, integers above a limit, and the same double.  The exception is *)
(* the sign of the integer -0, which Rust's double keeps: a reason prints  *)
(* it, and no rule depends on it.                                          *)
ReadAlike ==
  /\ \A a, b \in Values : PyEq(a, b) = PyEqual(a, b) /\ RustEq(a, b) = PyEqual(a, b)
  /\ \A v \in Values : GoPresent(v) = Truthy(v) /\ RustPresent(v) = Truthy(v)
  /\ \A l, m \in {n \in Numbers : n.whole} : CmpIntLess(l, m) <=> Value(l).quarters < Value(m).quarters
  /\ \A n \in Numbers : ToFloat(n) = Double(n) /\ (n # MinusZero => ToDouble(n) = Double(n))
=================================================================================
