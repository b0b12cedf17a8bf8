------------------------------ MODULE ToNumber ------------------------------
(***************************************************************************)
(* pdhkr::to_number<T>(str) of compare.hh, which scalar_compare uses on    *)
(* every line of either text.  A type that std::stoi, std::stol,           *)
(* std::stoll, std::stoul or std::stoull returns is native: the result of  *)
(* that function is returned as it is.  Other integral types, as the       *)
(* unsigned int of equal_stacks, are narrow: the number is read with       *)
(* std::stoull or std::stoll and then compared with the limits of T.       *)
(*                                                                         *)
(* Words have Narrow or Wide values.  base is 0, so a leading 0 means      *)
(* octal and a leading 0x hexadecimal; a numeral is held as a sign, such a *)
(* prefix and the digits after it.                                         *)
(***************************************************************************)
EXTENDS Integers, SequencesExt

CONSTANTS
    Wide,     \* the number of values of an unsigned long long
    Narrow,   \* the number of values of a smaller type
    Numerals  \* records of neg, prefix and digits

InputsOK ==
    /\ Wide \in Nat
    /\ Narrow \in { 2 * k : k \in 1..Wide } /\ Wide \in { 2 * k : k \in Narrow..Wide }
    /\ Numerals \subseteq [neg: BOOLEAN, prefix: {"none", "0", "0x"}, digits: Seq(0..15)]
    /\ \A s \in Numerals : s.prefix = "none" /\ s.digits # <<>> => s.digits[1] # 0

VARIABLES
    type,  \* T
    str,
    val,   \* the number read, or the result
    pc     \* also what is thrown

vars == <<type, str, val, pc>>

Types == [signed: BOOLEAN, native: BOOLEAN]

Lowest(signed, size) == IF signed THEN -(size \div 2) ELSE 0

Highest(signed, size) == IF signed THEN size \div 2 - 1 ELSE size - 1

\* int is native and small, the other native types are as wide as can be.
TypeSize(T) == IF T.native /\ ~T.signed THEN Wide ELSE Narrow

ValuesOf(T) == Lowest(T.signed, TypeSize(T))..Highest(T.signed, TypeSize(T))

Base == CASE str.prefix = "none" -> 10 [] str.prefix = "0" -> 8 [] str.prefix = "0x" -> 16

\* The digits end at the first that is none of the base.
DigitsRead ==
    LET others == { k \in DOMAIN str.digits : str.digits[k] >= Base }
    IN  IF others = {} THEN str.digits
        ELSE SubSeq(str.digits, 1, (CHOOSE k \in others : \A m \in others : k <= m) - 1)

\* The number that digits stand for in a base.
NumberOf(base, digits) == FoldLeft(LAMBDA m, d : base * m + d, 0, digits)

Magnitude == NumberOf(Base, DigitsRead)

\* The 0 of a prefix is a number of its own when no digit follows it.
NoConversion == DigitsRead = <<>> /\ str.prefix = "none"

Init ==
    /\ type \in Types
    /\ str \in Numerals
    /\ val = 0
    /\ pc = "convert"

Throw(exception) == pc' = exception /\ UNCHANGED val

\* strtoll and strtol fail for a number that the type does not have.
ConvertSigned ==
    /\ pc = "convert" /\ type.signed
    /\ LET size == IF type.native THEN Narrow ELSE Wide
           number == IF str.neg THEN -Magnitude ELSE Magnitude
       IN  IF NoConversion THEN Throw("invalid_argument")
           ELSE IF number \notin Lowest(TRUE, size)..Highest(TRUE, size) THEN Throw("out_of_range")
           ELSE val' = number /\ pc' = "converted"
    /\ UNCHANGED <<type, str>>

\* strtoull negates within the type after a minus sign.
ConvertUnsigned ==
    /\ pc = "convert" /\ ~type.signed
    /\ IF NoConversion THEN Throw("invalid_argument")
       ELSE IF Magnitude > Highest(FALSE, Wide) THEN Throw("out_of_range")
       ELSE val' = (IF str.neg THEN -Magnitude ELSE Magnitude) % Wide /\ pc' = "converted"
    /\ UNCHANGED <<type, str>>

\* Mutation of TooLarge: the limit itself is taken for too large.
TooLargeAtLimit == val >= Highest(type.signed, TypeSize(type))

TooLarge == val > Highest(type.signed, TypeSize(type))

\* The limits of a narrow T.
CheckLimits ==
    /\ pc = "converted" /\ ~type.native
    /\ pc' = IF val < Lowest(type.signed, TypeSize(type)) \/ TooLarge
               THEN "overflow_error" ELSE "done"
    /\ UNCHANGED <<type, str, val>>

ReturnNative ==
    /\ pc = "converted" /\ type.native
    /\ pc' = "done"
    /\ UNCHANGED <<type, str, val>>

Thrown == {"invalid_argument", "out_of_range", "overflow_error"}

Finished == pc \in {"done"} \cup Thrown /\ UNCHANGED vars

Next ==
    \/ ConvertSigned \/ ConvertUnsigned
    \/ CheckLimits \/ ReturnNative
    \/ Finished

----------------------------------------------------------------------------
\* The number that is written, in decimal, as operator>> of vector_compare
\* and a reader of the text have it.
Written ==
    LET number == NumberOf(10, str.digits)
    IN  IF str.neg THEN -number ELSE number

\* A number as the solvers print it comes back as it was written when T has
\* it, and makes to_number throw when T does not.  Only a negative number can
\* come back as another one, and only as an unsigned type: of a native one
\* any, of a narrow one those just above the negative of the widest.
NumbersAreKept ==
    (pc \in {"done"} \cup Thrown /\ str.prefix = "none" /\ ToSet(str.digits) \subseteq 0..9) =>
        \/ pc = "done" /\ val = Written /\ str.digits # <<>>
        \/ pc \in Thrown /\ (str.digits = <<>> \/ Written \notin ValuesOf(type))
        \/ /\ pc = "done" /\ str.neg /\ ~type.signed /\ val = Written + Wide
           /\ type.native \/ Written < Narrow - Wide
=============================================================================
